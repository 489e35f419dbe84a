----------------------------- MODULE MCEmmcBus -----------------------------
(* Small instances of EmmcBus for TLC; each cfg picks the faults of its    *)
(* question.                                                               *)
EXTENDS EmmcBus
=============================================================================
