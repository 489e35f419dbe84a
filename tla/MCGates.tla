------------------------------- MODULE MCGates ------------------------------
(* Small instances of Gates for TLC.                                         *)
EXTENDS Gates

CONSTANTS s0, s1
TwoStems == {s0, s1}
OneStem == {s0}
=============================================================================
