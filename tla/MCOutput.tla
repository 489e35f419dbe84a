------------------------------ MODULE MCOutput ------------------------------
(* Small instances of Output for TLC: three or four levels, of which the     *)
(* lowest is silence and the default is neither end.                         *)
EXTENDS Output
=============================================================================
