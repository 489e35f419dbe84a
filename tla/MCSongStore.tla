---------------------------- MODULE MCSongStore ----------------------------
(* Small instances of SongStore for TLC; each cfg picks the commands and   *)
(* the faults of its question.                                             *)
EXTENDS SongStore, TLC

\* The songs differ in their names only.
Symmetry == Permutations(Songs)
=============================================================================
