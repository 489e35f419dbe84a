------------------------------ MODULE EmmcBus ------------------------------
(***************************************************************************)
(* The one bit-banged bus to the eMMC (emmc.c) and the scratch block of    *)
(* the catalog (disk.c), between the two threads that use them: the feed   *)
(* thread, whose reads are not planned by anybody, and the main thread,    *)
(* which also holds the bus for the whole of a CMD25 session.              *)
(*                                                                         *)
(* A call is the sequence of its steps, one per point where the other      *)
(* thread can tell the difference: code[t] holds the calls thread t still  *)
(* has to make, the running one first.  The processor is a single core and *)
(* the feed thread has the higher priority, so it comes between any two    *)
(* steps of main, and main runs while the feed thread sleeps or waits for  *)
(* the lock.  What the blocks hold, and what COMMIT promises about it, is  *)
(* SongStore's subject.                                                    *)
(***************************************************************************)
EXTENDS Integers, Sequences

CONSTANTS
  MaxScan,   \* bound: catalog entries a scan reads before the one it wants
  Faults     \* what goes wrong in this instance

Threads == {"feed", "main"}

ASSUME BusAssumption ==
  /\ MaxScan \in Nat
  /\ Faults \subseteq {"bus", "crc", "boot", "reset", "missed", "flush", "unsure"}

VARIABLES
  owner,    \* s_bus_lock: the thread that holds it, or "none"
  depth,    \* how often it holds it
  waiting,  \* threads in k_mutex_lock
  inited,   \* g_initialized
  cacheOn,  \* g_cache_enabled
  active,   \* g_multi_active
  tries,    \* the attempt counter of the running read
  scratch,  \* s_cat_buf: who filled it, and whether from a good read
  card,     \* the card: its state, its write cache, unflushed blocks in it
  code,     \* the calls each thread has to make
  phase     \* of the program: "boot", "run", "blink" or "sleep"

vars == <<owner, depth, waiting, inited, cacheOn, active, tries, scratch,
          card, code, phase>>
lock == <<owner, depth, waiting>>

(***************************************************************************)
(* The calls.  "test" is the early return of a driver call when            *)
(* g_initialized is FALSE.                                                 *)
(***************************************************************************)
ReadBlock == <<"test", "lock", "read", "unlock">>        \* emmc_read_block
ReadBlocks == <<"test", "lock", "readN", "unlock">>      \* emmc_read_blocks
WriteBlock == <<"test", "lock", "write", "unlock">>      \* emmc_write_block
Load == <<"test", "lock", "load", "unlock">>             \* into s_cat_buf
Store == <<"test", "lock", "store", "unlock">>           \* out of s_cat_buf

ReadSong == <<"lock">> \o Load \o <<"copy", "unlock">>   \* disk_read_song
WriteEachHalf ==                 \* mutant: the bus released between the halves
  Load \o <<"merge">> \o Store
WriteSong ==                                             \* disk_write_song
  <<"lock">> \o Load \o <<"merge">> \o Store \o <<"unlock">>

\* disk_add_song: the scan reads some entries, each a step "scan" that calls
\* disk_read_song, then writes a hole or behind the last.
Times(n, step) == [i \in 1 .. n |-> step]
AddSong(n) == <<"lock">> \o Times(n, "scan") \o WriteSong \o <<"unlock">>

\* disk_format: the header, then the empty catalog under one lock.
Format ==
  WriteBlock \o <<"lock", "zero">> \o Store \o Store \o <<"unlock">>

Begin == <<"testBegin", "lock", "claim", "cmd23", "cmd25">>
Block == <<"lock", "data", "unlock">>
End == <<"testEnd", "stop", "release", "flush", "unlock">>
CutDirty == <<"lock", "unlock", "uninit", "cut">>            \* mutant: no flush
CutFirst == <<"lock", "flush", "unlock", "cut", "uninit">>   \* mutant: rail first
PowerDown == <<"lock", "flush", "unlock", "uninit", "cut">>
Boot == <<"lock", "cycle", "identify", "extcsd", "cache", "status", "unlock">>

\* fill_block: perhaps the catalog entries change_song has a "look" at, then
\* the refill and, once a song and only behind a good refill, the level array.
Fills ==
  {<<"unlessActive">> \o Times(n, "look") \o r :
      n \in 0 .. MaxScan, r \in {ReadBlocks, ReadBlock, ReadBlocks \o ReadBlocks}}

BlockCalls ==
  {ReadBlock, WriteBlock, ReadSong, WriteSong, Format}
    \cup {AddSong(n) : n \in 0 .. MaxScan}

\* Between two batches of a session the host may send any command: dispatch
\* serves those that read or write single blocks, and SONG_REMOVE, without a
\* look at the session; the others refuse or end it first.
Unguarded == {ReadBlock, WriteBlock, WriteSong}

MainCalls ==
  IF active THEN {Block, End} \cup Unguarded
  ELSE {Begin, PowerDown} \cup BlockCalls

(***************************************************************************)
(* What is left of a call.                                                 *)
(***************************************************************************)
Put(call, c) == IF call = <<>> THEN Tail(c) ELSE [c EXCEPT ![1] = call]
Advance(c) == Put(Tail(Head(c)), c)

Step(t) == Head(Head(code[t]))
Held(t) == IF owner = t THEN depth ELSE 0

\* What the running call of t has locked itself: the session is not its own.
Taken(t) == IF t = "main" /\ active THEN Held(t) - 1 ELSE Held(t)

\* A failed step: every caller up the stack releases what it locked and
\* returns; the calls behind it are other business.
Bail(t) == <<>>                  \* mutant: a failed call returns at once
Unwind(t) == Times(Taken(t), "unlock")
AfterFailure(t) ==
  IF Step(t) \in {"cmd23", "cmd25"} THEN <<"release", "unlock">> ELSE Unwind(t)

Goes(t) == code' = [code EXCEPT ![t] = Advance(@)]
Fails(t) == code' = [code EXCEPT ![t] = Put(AfterFailure(t), @)]
GoesOrFails(t, good) == IF good THEN Goes(t) ELSE Fails(t)

Runnable(t) == code[t] # <<>> /\ t \notin waiting
MayRun(t) == Runnable(t) /\ (t = "main" => ~Runnable("feed"))
At(t, steps) == MayRun(t) /\ Step(t) \in steps

\* The outcomes of a command and its data: all well unless f is on.
Outcomes(f) == IF f \in Faults THEN BOOLEAN ELSE {TRUE}

(***************************************************************************)
(* The lock: k_mutex, recursive, handed over by the last unlock.           *)
(***************************************************************************)
Lock(t) ==
  /\ At(t, {"lock"})
  /\ IF owner \in {"none", t}
     THEN /\ owner' = t /\ depth' = depth + 1
          /\ Goes(t)
          /\ UNCHANGED waiting
     ELSE /\ waiting' = waiting \cup {t}
          /\ UNCHANGED <<owner, depth, code>>
  /\ UNCHANGED <<inited, cacheOn, active, tries, scratch, card, phase>>

Unlock(t) ==
  /\ At(t, {"unlock"})
  /\ IF depth > 1
     THEN depth' = depth - 1 /\ UNCHANGED <<owner, waiting>> /\ Goes(t)
     ELSE IF waiting = {}
     THEN owner' = "none" /\ depth' = 0 /\ UNCHANGED waiting /\ Goes(t)
     ELSE \E w \in waiting :
            /\ owner' = w /\ depth' = 1
            /\ waiting' = waiting \ {w}
            /\ code' = [code EXCEPT ![t] = Advance(@), ![w] = Advance(@)]
  /\ phase' = IF phase = "boot" THEN IF inited THEN "run" ELSE "blink" ELSE phase
  /\ UNCHANGED <<inited, cacheOn, active, tries, scratch, card>>

(***************************************************************************)
(* The tests that let a call return early.                                 *)
(***************************************************************************)
Passes(step) ==
  CASE step = "test" -> inited
    [] step = "unlessActive" -> ~active
    [] step = "testBegin" -> inited /\ ~active
    [] step = "testEnd" -> active

Tests == {"test", "unlessActive", "testBegin", "testEnd"}

\* A song does not play while a session is open: the whole fill is skipped.
Test(t) ==
  /\ At(t, Tests)
  /\ GoesOrFails(t, Passes(Step(t)))
  /\ UNCHANGED <<lock, inited, cacheOn, active, tries, scratch, card, phase>>

\* disk_read_song for one entry.  A failed "scan" ends the call it is part of;
\* a failed "look" does not, so it is a call of its own before the rest.
Entry(t) ==
  /\ At(t, {"scan", "look"})
  /\ code' = [code EXCEPT ![t] =
       IF Step(t) = "scan" THEN Put(ReadSong \o Tail(Head(@)), @)
       ELSE <<ReadSong>> \o Advance(@)]
  /\ UNCHANGED <<lock, inited, cacheOn, active, tries, scratch, card, phase>>

(***************************************************************************)
(* The card (external).  A command it cannot take in its state is not      *)
(* answered.  In a stream it refuses a single-block command while it waits *)
(* for a block, and takes it behind the last block CMD23 has declared.     *)
(***************************************************************************)
Listening == card.st = "tran"
Answers(ok) == ok /\ Listening

\* The outcomes of CMD17 and CMD24.
Replies ==
  IF card.st = "rcv" THEN BOOLEAN ELSE {Answers(ok) : ok \in Outcomes("bus")}

\* Three attempts in all.
RetryOften(bad) == bad /\ tries < 3   \* mutant: one attempt too many
Retry(bad) == bad /\ tries < 2

\* read_block_single: a block with a bad CRC is read again, three times in
\* all; the last bad one fails the call.  Step "load" reads into s_cat_buf.
Read(t) ==
  /\ At(t, {"read", "load"})
  /\ \E ok \in Replies, crc \in Outcomes("crc") :
       /\ LET again == Retry(ok /\ ~crc)
          IN  /\ tries' = IF again THEN tries + 1 ELSE 0
              /\ IF again THEN UNCHANGED code ELSE GoesOrFails(t, ok /\ crc)
       /\ scratch' = IF Step(t) = "load" /\ ok
                     THEN [of |-> t, good |-> crc] ELSE scratch
  /\ UNCHANGED <<lock, inited, cacheOn, active, card, phase>>

\* emmc_read_blocks: CMD18, the blocks, CMD12; the whole batch is read again
\* on a bad CRC, and after three attempts taken as it is.  When the answer to
\* CMD18 is missed there is no CMD12, and the card goes on sending.
ReadN(t) ==
  /\ At(t, {"readN"})
  /\ \E ok \in Outcomes("bus"), crc \in Outcomes("crc"),
        heard \in Outcomes("missed") :
       /\ LET again == Retry(Answers(ok) /\ heard /\ ~crc)
          IN  /\ tries' = IF again THEN tries + 1 ELSE 0
              /\ IF again THEN UNCHANGED code
                 ELSE GoesOrFails(t, Answers(ok) /\ heard)
       /\ card' = IF Answers(ok) /\ ~heard THEN [card EXCEPT !.st = "data"] ELSE card
  /\ UNCHANGED <<lock, inited, cacheOn, active, scratch, phase>>

\* write_block_locked: a block may be written though the call fails.
Write(t) ==
  /\ At(t, {"write", "store"})
  /\ \E ok \in Replies, done \in BOOLEAN :
       /\ ok => done
       /\ card' = [card EXCEPT !.dirty =
            @ \/ (card.st \in {"tran", "rcv"} /\ done /\ card.cache)]
       /\ GoesOrFails(t, ok)
  /\ UNCHANGED <<lock, inited, cacheOn, active, tries, scratch, phase>>

(***************************************************************************)
(* The scratch block.                                                      *)
(***************************************************************************)
Scratch(t) ==
  /\ At(t, {"copy", "merge", "zero"})
  /\ scratch' = IF Step(t) = "zero" THEN [of |-> t, good |-> TRUE] ELSE scratch
  /\ Goes(t)
  /\ UNCHANGED <<lock, inited, cacheOn, active, tries, card, phase>>

(***************************************************************************)
(* A CMD25 session.                                                        *)
(***************************************************************************)
\* g_multi_active goes up before the first command of the session, and down
\* behind CMD12 or when a command of begin fails.
Flag(t) ==
  /\ At(t, {"claim", "release"})
  /\ active' = (Step(t) = "claim")
  /\ Goes(t)
  /\ UNCHANGED <<lock, inited, cacheOn, tries, scratch, card, phase>>

Cmd23(t) ==
  /\ At(t, {"cmd23"})
  /\ \E ok \in Outcomes("bus") : GoesOrFails(t, Answers(ok))
  /\ UNCHANGED <<lock, inited, cacheOn, active, tries, scratch, card, phase>>

\* The card may take CMD25 and its answer be missed.
Cmd25(t) ==
  /\ At(t, {"cmd25"})
  /\ \E ok \in Outcomes("bus"), heard \in Outcomes("missed") :
       /\ card' = IF Answers(ok) THEN [card EXCEPT !.st = "rcv"] ELSE card
       /\ GoesOrFails(t, Answers(ok) /\ heard)
  /\ UNCHANGED <<lock, inited, cacheOn, active, tries, scratch, phase>>

\* emmc_write_multi_block: g_multi_active is tested under the lock.  Its
\* caller learns of a refused block from the result; the lock is released
\* all the same.
Data(t) ==
  /\ At(t, {"data"})
  /\ \E ok \in Outcomes("bus"), done \in BOOLEAN :
       /\ ok => done
       /\ card' = [card EXCEPT !.dirty =
            @ \/ (active /\ card.st = "rcv" /\ done /\ card.cache)]
  /\ Goes(t)
  /\ UNCHANGED <<lock, inited, cacheOn, active, tries, scratch, phase>>

\* The stop token, the wait for the last block and CMD12, to which the card
\* listens in the middle of a stream too.
Stop(t) ==
  /\ At(t, {"stop"})
  /\ card' = IF card.st \in {"rcv", "data"} THEN [card EXCEPT !.st = "tran"] ELSE card
  /\ Goes(t)
  /\ UNCHANGED <<lock, inited, cacheOn, active, tries, scratch, phase>>

\* CMD6 FLUSH_CACHE when g_cache_enabled; nobody looks at its result.
Flush(t) ==
  /\ At(t, {"flush"})
  /\ \E ok \in Outcomes("flush") :
       card' = IF cacheOn /\ Answers(ok) THEN [card EXCEPT !.dirty = FALSE] ELSE card
  /\ Goes(t)
  /\ UNCHANGED <<lock, inited, cacheOn, active, tries, scratch, phase>>

(***************************************************************************)
(* Power.                                                                  *)
(***************************************************************************)
Off == [st |-> "off", cache |-> FALSE, dirty |-> FALSE]

\* emmc_init_locked drops g_initialized, takes VCCQ and RST down and up, and
\* brings the card to its transfer state.  The cache is volatile.
Cycle ==
  /\ At("main", {"cycle"})
  /\ inited' = FALSE
  /\ card' = [Off EXCEPT !.st = "idle"]
  /\ Goes("main")
  /\ UNCHANGED <<lock, cacheOn, active, tries, scratch, phase>>

\* CMD0 to CMD7, CMD8 and CMD16, CMD13: a step that fails is a failed init.
Identify ==
  /\ At("main", {"identify", "extcsd", "status"})
  /\ \E ok \in Outcomes("boot") :
       /\ GoesOrFails("main", ok)
       /\ card' = IF ok /\ Step("main") = "identify"
                  THEN [card EXCEPT !.st = "tran"] ELSE card
       /\ inited' = (ok /\ Step("main") = "status")
  /\ UNCHANGED <<lock, cacheOn, active, tries, scratch, phase>>

\* CMD6 CACHE_CTRL, on a card that has a cache; the switch may be done and
\* its status misread.
CacheSwitch ==
  /\ At("main", {"cache"})
  /\ \E ok \in Outcomes("boot"), sure \in Outcomes("unsure") :
       /\ card' = [card EXCEPT !.cache = ok]
       /\ cacheOn' = (ok /\ sure)
  /\ Goes("main")
  /\ UNCHANGED <<lock, inited, active, tries, scratch, phase>>

Uninit ==
  /\ At("main", {"uninit"})
  /\ inited' = FALSE
  /\ Goes("main")
  /\ UNCHANGED <<lock, cacheOn, active, tries, scratch, card, phase>>

Cut ==
  /\ At("main", {"cut"})
  /\ card' = [card EXCEPT !.st = "off"]
  /\ phase' = "sleep"
  /\ Goes("main")
  /\ UNCHANGED <<lock, inited, cacheOn, active, tries, scratch>>

(***************************************************************************)
(* The program.  A reset clears the RAM and leaves the card as it is; the  *)
(* boot code runs emmc_init before it makes the feed thread.  When it      *)
(* fails main blinks until somebody resets the device, and behind the cut  *)
(* of the rail main only waits for SYSTEM OFF.                             *)
(***************************************************************************)
Fresh ==
  [feed |-> <<>>, main |-> <<Boot>>]

Init ==
  /\ owner = "none" /\ depth = 0 /\ waiting = {}
  /\ inited = FALSE /\ cacheOn = FALSE /\ active = FALSE
  /\ tries = 0
  /\ scratch = [of |-> "none", good |-> FALSE]
  /\ card = Off
  /\ code = Fresh
  /\ phase = "boot"

Reset ==
  /\ phase \in {"blink", "sleep"} \/ "reset" \in Faults
  /\ owner' = "none" /\ depth' = 0 /\ waiting' = {}
  /\ inited' = FALSE /\ cacheOn' = FALSE /\ active' = FALSE
  /\ tries' = 0
  /\ scratch' = [of |-> "none", good |-> FALSE]
  /\ code' = Fresh
  /\ phase' = "boot"
  /\ UNCHANGED card

FeedFill ==
  /\ phase \in {"run", "sleep"} /\ code["feed"] = <<>>
  /\ \E fill \in Fills : code' = [code EXCEPT !["feed"] = <<fill>>]
  /\ UNCHANGED <<lock, inited, cacheOn, active, tries, scratch, card, phase>>

MainCall ==
  /\ phase = "run" /\ code["main"] = <<>> /\ ~Runnable("feed")
  /\ \E call \in MainCalls : code' = [code EXCEPT !["main"] = <<call>>]
  /\ UNCHANGED <<lock, inited, cacheOn, active, tries, scratch, card, phase>>

Common(t) ==
  \/ Lock(t) \/ Unlock(t) \/ Test(t) \/ Entry(t) \/ Read(t) \/ Scratch(t)

MainOnly ==
  \/ Write("main")
  \/ Flag("main") \/ Cmd23("main") \/ Cmd25("main")
  \/ Data("main") \/ Stop("main") \/ Flush("main")
  \/ Cycle \/ Identify \/ CacheSwitch \/ Uninit \/ Cut

Feed == Common("feed") \/ ReadN("feed")
Main == Common("main") \/ MainOnly

Next == Feed \/ Main \/ FeedFill \/ MainCall \/ Reset

Spec == Init /\ [][Next]_vars

\* A thread that may run does.
FairSpec == Spec /\ WF_vars(Feed) /\ WF_vars(Main)

(***************************************************************************)
(* Properties.                                                             *)
(***************************************************************************)
Steps ==
  Tests \cup {"lock", "unlock", "scan", "look", "read", "readN", "load", "write", "store",
    "copy", "merge", "zero", "claim", "release", "cmd23", "cmd25", "data",
    "stop", "flush", "cycle", "identify", "extcsd", "status", "cache",
    "uninit", "cut"}

TypeOK ==
  /\ owner \in Threads \cup {"none"} /\ depth \in Nat
  /\ waiting \in SUBSET Threads
  /\ inited \in BOOLEAN /\ cacheOn \in BOOLEAN /\ active \in BOOLEAN
  /\ tries \in 0 .. 2
  /\ scratch \in [of : Threads \cup {"none"}, good : BOOLEAN]
  /\ card \in [st : {"off", "idle", "tran", "rcv", "data"},
               cache : BOOLEAN, dirty : BOOLEAN]
  /\ code \in [Threads -> Seq(Seq(Steps))]
  /\ phase \in {"boot", "run", "blink", "sleep"}

InRun == phase = "run" /\ code["main"] = <<>>

\* A command goes out only from the thread that holds the bus, and to the card
\* it thinks is there: CMD18, CMD23 and CMD25 to one in its transfer state, the
\* stop to one in a stream, no block without a stream, nothing to a card whose
\* rail is cut, whatever the feed thread was about to do when main opened the
\* session, reset or powered down.  Only main's own single-block commands, for
\* the handlers that do not look at the session, meet a stream, because the lock
\* is recursive (against emmc.c:750-751, "so nothing can interleave clocks
\* mid-stream"); the feed thread's never do.
Legal ==
  \A t \in Threads :
    /\ At(t, {"readN", "cmd23", "cmd25"}) => owner = t /\ card.st = "tran"
    /\ At(t, {"read", "load", "write", "store"}) =>
         owner = t /\ card.st = (IF t = "main" /\ active THEN "rcv" ELSE "tran")
    /\ At(t, {"stop"}) => owner = t /\ card.st = "rcv"
    /\ At(t, {"data"}) => owner = t /\ (active => card.st = "rcv")

\* Whoever reads or writes back s_cat_buf finds in it the block it read
\* itself, and read without a CRC error (disk.c:8-15).
ScratchMine ==
  \A t \in Threads :
    At(t, {"copy", "merge", "store"}) => scratch = [of |-> t, good |-> TRUE]

\* No path through a call, failed or not, in a session or outside one, leaves
\* the lock held or releases one it has not taken, and g_multi_active tells
\* whether the card is in a stream: between two calls main holds the bus once in
\* a session and not at all outside one, and the feed thread never does.
Settled ==
  /\ (owner = "none") = (depth = 0)
  /\ InRun => /\ active = (card.st = "rcv")
              /\ active = (owner = "main")
              /\ active => depth = 1
  /\ code["feed"] = <<>> => owner # "feed"
  /\ phase = "blink" => owner = "none"

\* An orderly power down loses no block that is still in the card's cache.
PoweredClean == phase = "sleep" => card.st = "off" /\ ~card.dirty

\* A feed thread that waits for the bus gets it, provided sessions end.
FeedServed == []<>~active => ("feed" \in waiting ~> "feed" \notin waiting)

\* emmc.c:752: the test of g_multi_active "keeps the feed thread from even
\* trying, so it never blocks here for long".  It does when it comes between
\* the lock and the claim of begin: it waits until the session ends.
FeedNotParked == ~(InRun /\ active /\ "feed" \in waiting)
=============================================================================
