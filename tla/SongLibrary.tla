---------------------------- MODULE SongLibrary ----------------------------
(***************************************************************************)
(* What the song store promises its users, without a card: a library of    *)
(* complete songs, and beside it at most one upload.  The host sends the   *)
(* blocks of the upload in order; COMMIT adds the song with all of them,   *)
(* or the upload leaves no trace.  Nothing but REMOVE and FORMAT takes     *)
(* anything out, and what is in the library never changes: no upload,      *)
(* however it ends, no swap, no power cycle.                               *)
(***************************************************************************)
EXTENDS Integers

CONSTANTS Songs, NoName

VARIABLES
  library,   \* the songs the player can find, each with its blocks
  upload     \* the song being uploaded, its size, the blocks counted so far

vars == <<library, upload>>

NoUpload == [song |-> NoName, size |-> 0, got |-> 0]
Complete(s, n) == [song |-> s, blocks |-> 0 .. (n - 1)]

Init == library = {} /\ upload = NoUpload

Begin(s) ==
  /\ upload = NoUpload
  /\ \A l \in library : l.song # s
  /\ upload' \in [song : {s}, size : Nat \ {0}, got : {0}]
  /\ UNCHANGED library

Receive ==
  /\ upload.got < upload.size
  /\ upload' = [upload EXCEPT !.got = @ + 1]
  /\ UNCHANGED library

Abandon ==
  /\ upload # NoUpload
  /\ upload' = NoUpload
  /\ UNCHANGED library

Commit ==
  /\ upload # NoUpload /\ upload.got = upload.size
  /\ library' = library \union {Complete(upload.song, upload.size)}
  /\ upload' = NoUpload

Remove ==
  /\ \E l \in library : library' = library \ {l}
  /\ UNCHANGED upload

Format ==
  /\ upload = NoUpload
  /\ library' = {}
  /\ UNCHANGED upload

Next ==
  \/ \E s \in Songs : Begin(s)
  \/ Receive \/ Abandon \/ Commit \/ Remove \/ Format

Spec == Init /\ [][Next]_vars
=============================================================================
