-------------------------------- MODULE TxQueue --------------------------------
(***************************************************************************)
(* The transmit path of the audio: feed_main (audio.c) fills blocks taken  *)
(* from the slab s_tx_slab and queues them on the I2S driver, which sends  *)
(* them and returns each to the slab.  The nRF is the clock slave: a       *)
(* driver that runs moves only while the codec gives it a clock.           *)
(*                                                                         *)
(* A block is in the slab, in the hand of the feed thread, or queued; the  *)
(* queue holds the serial numbers of the blocks filled into it, counted    *)
(* modulo Wrap.  What fill_block puts into a block is AudioFeed's subject; *)
(* here it takes time, between Alloc and the write, while the driver goes  *)
(* on sending.                                                             *)
(***************************************************************************)
EXTENDS Integers, Sequences

CONSTANTS
  NumBlocks,  \* NUM_BLOCKS, also the depth of the driver's queue
  Wrap,       \* bound: serial numbers are counted modulo Wrap
  MaxFaults   \* bound: driver calls that fail without cause

ASSUME SizeAssumption ==
  NumBlocks \in Nat /\ NumBlocks >= 2 /\ Wrap \in Nat /\ Wrap > NumBlocks

ASSUME FaultAssumption == MaxFaults \in Nat

VARIABLES
  slab,    \* blocks free in s_tx_slab
  hand,    \* blocks feed_main holds: one between alloc and write
  queue,   \* the blocks queued, as serial numbers, the oldest first
  serial,  \* the number of the next block fill_block fills
  i2s,     \* the driver: "ready", "running" or, after an underrun, "error"
  clock,   \* the codec drives BCLK and LRCK
  phase,   \* the loop feed_main is in: "prime", "feed" or "recover"
  pc,      \* where it is in it
  left,    \* blocks the priming loop has left to queue
  lost,    \* history: a block was refused and DROP failed or was not called since
  faults   \* failures so far

vars == <<slab, hand, queue, serial, i2s, clock, phase, pc, left, lost, faults>>

ShallowRunway == 2  \* mutant: "just 2" blocks, as an earlier version primed
Runway == NumBlocks - 1

(***************************************************************************)
(* The driver, as feed_main uses it.                                       *)
(***************************************************************************)

\* A call that succeeds costs nothing; one that fails without cause is counted.
Outcome(ok) ==
  /\ ok \/ faults < MaxFaults
  /\ faults' = IF ok THEN faults ELSE faults + 1

\* The oldest block has been sent: its buffer goes back to the slab.  With no
\* next buffer the transfer stops and the driver is in its error state.
Transmit ==
  /\ i2s = "running" /\ clock
  /\ slab' = slab + 1
  /\ queue' = Tail(queue)
  /\ i2s' = IF Len(queue) = 1 THEN "error" ELSE "running"
  /\ UNCHANGED <<hand, serial, clock, phase, pc, left, lost, faults>>

\* i2s_write refuses a block in the error state.
Writable == i2s # "error"

\* The codec starts or stops clocking the bus (codec_init, power down).
ClockChange ==
  /\ clock' = ~clock
  /\ UNCHANGED <<slab, hand, queue, serial, i2s, phase, pc, left, lost, faults>>

(***************************************************************************)
(* feed_main.                                                              *)
(***************************************************************************)

\* k_mem_slab_alloc, then fill_block.
HasBlock == slab > 0
Alloc ==
  /\ pc = "alloc" /\ HasBlock
  /\ slab' = slab - 1 /\ hand' = hand + 1
  /\ serial' = (serial + 1) % Wrap
  /\ pc' = "write"
  /\ UNCHANGED <<queue, i2s, clock, phase, left, lost, faults>>

\* The block in hand: the last one filled.
Filled == (serial + Wrap - 1) % Wrap

\* i2s_write accepts it.  A priming loop goes on until Runway blocks are in.
WriteQueued ==
  /\ pc = "write" /\ Writable
  /\ queue' = Append(queue, Filled)
  /\ hand' = hand - 1
  /\ IF phase = "feed" THEN pc' = "alloc" /\ UNCHANGED left
     ELSE left' = left - 1 /\ pc' = IF left = 1 THEN "start" ELSE "alloc"
  /\ UNCHANGED <<slab, serial, i2s, clock, phase, lost, faults>>

\* i2s_write fails: the block goes back to the slab.  The feeding loop drops
\* the queue; a priming loop stops and starts what it has, and the first one
\* ends the thread when it has nothing.
FeedOn == "alloc"               \* mutant: a refused block is just skipped
AfterRefusal == "drop"
KeepRefused == slab             \* mutant: k_mem_slab_free forgotten
ReturnRefused == slab + 1
WriteRefused ==
  /\ pc = "write"
  /\ Outcome(~Writable)
  /\ slab' = ReturnRefused /\ hand' = hand - 1
  /\ lost' = (lost \/ phase # "feed")
  /\ pc' = CASE phase = "feed" -> AfterRefusal
             [] phase = "prime" /\ left = Runway -> "exited"
             [] OTHER -> "start"
  /\ UNCHANGED <<queue, serial, i2s, clock, phase, left>>

\* No block came back within I2S_TIMEOUT_MS.  While the driver sends, one
\* comes back every 2.67 ms.  In the first priming loop the wait has no bound.
Starved == slab = 0 /\ ~(i2s = "running" /\ clock)
UnboundedReprime == {"feed"}    \* mutant: K_FOREVER in the recovery
Bounded == {"feed", "recover"}
AllocTimeout ==
  /\ pc = "alloc" /\ Starved
  /\ phase \in Bounded
  /\ IF phase = "feed" THEN phase' = "recover" /\ pc' = "drop"
     ELSE pc' = "start" /\ UNCHANGED phase
  /\ UNCHANGED <<slab, hand, queue, serial, i2s, clock, left, lost, faults>>

\* I2S_TRIGGER_DROP.  When it works every queued block is in the slab again
\* and the driver is ready; when it fails nothing is freed.  Its result is
\* ignored: recovery primes a full runway, a refused write goes on feeding.
Drop(ok) ==
  /\ pc = "drop"
  /\ Outcome(ok)
  /\ IF ok THEN /\ slab' = slab + Len(queue) /\ queue' = <<>>
                /\ i2s' = "ready" /\ lost' = FALSE
           ELSE /\ lost' = (lost \/ phase = "feed")
                /\ UNCHANGED <<slab, queue, i2s>>
  /\ left' = IF phase = "recover" THEN Runway ELSE left
  /\ pc' = "alloc"
  /\ UNCHANGED <<hand, serial, clock, phase>>

\* I2S_TRIGGER_START is refused unless the driver is ready and has a block.
\* The result is ignored after a recovery; the first one ends the thread.
Startable == i2s = "ready" /\ queue # <<>>
Start(ok) ==
  /\ pc = "start"
  /\ IF Startable THEN Outcome(ok) ELSE ~ok /\ UNCHANGED faults
  /\ i2s' = IF ok THEN "running" ELSE i2s
  /\ IF ~ok /\ phase = "prime" THEN pc' = "exited" /\ UNCHANGED phase
     ELSE pc' = "alloc" /\ phase' = "feed"
  /\ UNCHANGED <<slab, hand, queue, serial, clock, left, lost>>

(***************************************************************************)
(* The specification.                                                      *)
(***************************************************************************)

\* audio_init has configured the driver and created the thread.
Init ==
  /\ slab = NumBlocks /\ hand = 0 /\ queue = <<>> /\ serial = 0
  /\ i2s = "ready" /\ clock \in BOOLEAN
  /\ phase = "prime" /\ pc = "alloc" /\ left = Runway
  /\ lost = FALSE /\ faults = 0

Feed ==
  \/ Alloc \/ WriteQueued \/ WriteRefused \/ AllocTimeout
  \/ \E ok \in BOOLEAN : Drop(ok) \/ Start(ok)

Next == Feed \/ Transmit \/ ClockChange

Spec == Init /\ [][Next]_vars

\* Every wait of the feed thread is bounded and no thread above it runs for
\* long; a driver with a clock and a queue sends.  The failures without cause
\* are finitely many, those with a cause (the error state, an empty queue)
\* are not.
FairSpec == Spec /\ WF_vars(Feed) /\ WF_vars(Transmit)

(***************************************************************************)
(* Properties.                                                             *)
(***************************************************************************)

Serials == 0 .. (Wrap - 1)
TypeOK ==
  /\ slab \in Nat /\ hand \in 0 .. 1 /\ queue \in Seq(Serials)
  /\ serial \in Serials
  /\ i2s \in {"ready", "running", "error"} /\ clock \in BOOLEAN
  /\ phase \in {"prime", "feed", "recover"}
  /\ pc \in {"alloc", "write", "drop", "start", "exited"}
  /\ left \in 0 .. Runway /\ lost \in BOOLEAN /\ faults \in 0 .. MaxFaults

\* No block is leaked and none freed twice: through every refusal, drop and
\* recovery the slab, the queue and the hand share the NumBlocks blocks, and
\* feed_main leaves an iteration with nothing in hand.
Conserved ==
  /\ slab + Len(queue) + hand = NumBlocks
  /\ hand = 1 <=> pc = "write"

\* What is queued is what the song decoder produced, with no block left out
\* between two that are sent: a block refused while feeding costs the whole
\* queue, unless DROP itself fails.
Contiguous ==
  ~lost =>
    /\ \A i \in 1 .. (Len(queue) - 1) : queue[i + 1] = (queue[i] + 1) % Wrap
    /\ pc = "write" /\ queue # <<>> => Filled = (queue[Len(queue)] + 1) % Wrap

\* The stream is never started on a shallow queue: the first block of a
\* restart has a full runway behind it, unless a write was refused.
FullRunway ==
  [][i2s # "running" /\ i2s' = "running" => lost \/ Len(queue) >= NumBlocks - 1]_vars

\* The codec does not switch its clock for ever (it does so at power on and off).
Settles == <>[]clock \/ <>[]~clock

\* The feed thread never parks: unless it ended before the stream first ran,
\* it comes back to its loop, whatever the driver or the clock do.
KeepsFeeding ==
  Settles => []<>(pc = "alloc" /\ phase = "feed") \/ <>[](pc = "exited")

\* After an underrun or any transient failure the stream runs again.
Recovers == Settles => (i2s # "running" ~> i2s = "running" \/ pc = "exited")

\* With a clock, audio goes out for ever.
Flows == <>[]clock /\ []<>(pc # "exited") => []<><<Transmit>>_vars

\* "Drop into the recovery path on the next iteration" after a refused write.
RecoversNext ==
  [][phase = "feed" /\ pc = "alloc" /\ i2s = "ready" /\ pc' # pc
       => phase' = "recover"]_vars

(***************************************************************************)
(* The inductive invariant behind TypeOK, Conserved and FullRunway.        *)
(***************************************************************************)

\* A running driver has a block to send; a priming loop counts down to START;
\* and a ready driver that is about to be started has, or is going to have, a
\* full runway.
Good ==
  /\ TypeOK /\ Conserved
  /\ i2s = "running" => queue # <<>>
  /\ phase # "feed" /\ pc \in {"alloc", "write"} => left >= 1
  /\ i2s = "ready" /\ ~lost /\ phase # "feed" =>
       /\ pc \in {"alloc", "write"} => Len(queue) + left >= Runway
       /\ pc = "start" => Len(queue) >= Runway
  /\ pc = "start" => phase # "feed"
  /\ pc = "drop" => phase # "prime"

\* The inductive invariant behind Contiguous: besides, the next block filled
\* follows the last one queued, as long as no refused one lies between them.
Unbroken ==
  pc \in {"alloc", "start"} \/ (pc = "drop" /\ phase = "recover")
Linked ==
  /\ Contiguous
  /\ ~lost /\ Unbroken /\ queue # <<>> =>
       serial = (queue[Len(queue)] + 1) % Wrap

=============================================================================
