---------------------------- MODULE TxQueueProofs -----------------------------
(* What TxQueue promises of its blocks, for every number of them.            *)
EXTENDS TxQueue, SequenceTheorems, TLAPS

\* The serial numbers stay below Wrap.
LEMMA SerialTypes ==
  ASSUME NEW n \in Serials
  PROVE  (n + 1) % Wrap \in Serials /\ (n + Wrap - 1) % Wrap \in Serials
BY SizeAssumption DEF Serials

LEMMA InitGood == Init => Good
<1> SUFFICES ASSUME Init PROVE Good
  OBVIOUS
<1> USE SizeAssumption, FaultAssumption
<1>1. queue \in Seq(Serials) /\ Len(queue) = 0
  BY EmptySeq DEF Init
<1>2. TypeOK
  <2>1. serial \in Serials /\ faults \in 0 .. MaxFaults /\ left \in 0 .. Runway
    BY DEF Init, Serials, Runway
  <2>2. slab \in Nat /\ hand \in 0 .. 1
    BY DEF Init
  <2> QED
    BY <1>1, <2>1, <2>2 DEF Init, TypeOK
<1>3. Conserved
  BY <1>1 DEF Init, Conserved
<1> QED
  BY <1>1, <1>2, <1>3 DEF Init, Good, Runway

LEMMA TransmitGood == Good /\ Transmit => Good'
<1> SUFFICES ASSUME Good, Transmit PROVE Good'
  OBVIOUS
<1> USE SizeAssumption, FaultAssumption
<1>1. queue \in Seq(Serials) /\ queue # <<>> /\ Len(queue) >= 1
  BY EmptySeq DEF Good, TypeOK, Transmit
<1>2. Tail(queue) \in Seq(Serials) /\ Len(Tail(queue)) = Len(queue) - 1
  BY <1>1, HeadTailProperties
<1>3. TypeOK'
  BY <1>2 DEF Good, TypeOK, Transmit
<1>4. Conserved'
  BY <1>1, <1>2 DEF Good, TypeOK, Conserved, Transmit
<1>5. i2s' = "running" => queue' # <<>>
  <2> SUFFICES ASSUME i2s' = "running", queue' = <<>> PROVE FALSE
    OBVIOUS
  <2>1. Len(Tail(queue)) = 0
    BY EmptySeq DEF Transmit
  <2> QED
    BY <1>1, <1>2, <2>1 DEF Transmit
<1> QED
  BY <1>3, <1>4, <1>5 DEF Good, Transmit

LEMMA AllocGood == Good /\ Alloc => Good'
<1> SUFFICES ASSUME Good, Alloc PROVE Good'
  OBVIOUS
<1> USE SizeAssumption, FaultAssumption
<1>1. TypeOK'
  BY SerialTypes DEF Good, TypeOK, Conserved, Alloc, HasBlock
<1>2. Conserved'
  BY DEF Good, TypeOK, Conserved, Alloc, HasBlock
<1> QED
  BY <1>1, <1>2 DEF Good, Alloc

LEMMA WriteQueuedGood == Good /\ WriteQueued => Good'
<1> SUFFICES ASSUME Good, WriteQueued PROVE Good'
  OBVIOUS
<1> USE SizeAssumption, FaultAssumption
<1>1. Filled \in Serials
  BY SerialTypes DEF Filled, Good, TypeOK
<1>2. queue' \in Seq(Serials) /\ Len(queue') = Len(queue) + 1 /\ queue' # <<>>
  BY <1>1, AppendProperties DEF Good, TypeOK, WriteQueued
<1>3. left' \in 0 .. Runway
  BY DEF Good, TypeOK, WriteQueued, Runway
<1>4. TypeOK'
  BY <1>2, <1>3 DEF Good, TypeOK, Conserved, WriteQueued
<1>5. Conserved'
  BY <1>2 DEF Good, TypeOK, Conserved, WriteQueued
<1>6. phase' # "feed" /\ pc' \in {"alloc", "write"} => left' >= 1
  BY DEF Good, TypeOK, WriteQueued, Runway
<1>7. i2s' = "ready" /\ ~lost' /\ phase' # "feed" =>
        /\ pc' \in {"alloc", "write"} => Len(queue') + left' >= Runway
        /\ pc' = "start" => Len(queue') >= Runway
  BY <1>2 DEF Good, TypeOK, WriteQueued, Runway
<1> QED
  BY <1>2, <1>4, <1>5, <1>6, <1>7 DEF Good, WriteQueued

LEMMA WriteRefusedGood == Good /\ WriteRefused => Good'
<1> SUFFICES ASSUME Good, WriteRefused PROVE Good'
  OBVIOUS
<1> USE SizeAssumption, FaultAssumption
<1>1. TypeOK'
  BY DEF Good, TypeOK, Conserved, WriteRefused, Outcome, AfterRefusal, ReturnRefused
<1>2. Conserved'
  BY DEF Good, TypeOK, Conserved, WriteRefused, AfterRefusal, ReturnRefused
<1> QED
  BY <1>1, <1>2 DEF Good, TypeOK, WriteRefused, AfterRefusal

LEMMA AllocTimeoutGood == Good /\ AllocTimeout => Good'
<1> SUFFICES ASSUME Good, AllocTimeout PROVE Good'
  OBVIOUS
<1> USE SizeAssumption, FaultAssumption
<1>1. Len(queue) \in Nat /\ Len(queue) = NumBlocks
  BY LenProperties DEF Good, TypeOK, Conserved, AllocTimeout, Starved
<1>2. TypeOK' /\ Conserved'
  BY DEF Good, TypeOK, Conserved, AllocTimeout, Bounded
<1> QED
  BY <1>1, <1>2 DEF Good, TypeOK, AllocTimeout, Bounded, Runway

LEMMA DropGood ==
  ASSUME NEW ok \in BOOLEAN, Good, Drop(ok)
  PROVE  Good'
<1> USE SizeAssumption, FaultAssumption
<1>1. queue' \in Seq(Serials) /\ Len(queue') \in Nat /\ Len(queue) \in Nat
      /\ (ok => Len(queue') = 0)
  BY EmptySeq, LenProperties DEF Good, TypeOK, Drop
<1>2. TypeOK'
  <2>1. slab' \in Nat
    BY <1>1 DEF Good, TypeOK, Drop
  <2>2. left' \in 0 .. Runway
    BY DEF Good, TypeOK, Drop, Runway
  <2>4. lost' \in BOOLEAN
    BY DEF Good, TypeOK, Drop
  <2>3. faults' \in 0 .. MaxFaults
    BY DEF Good, TypeOK, Drop, Outcome
  <2> QED
    BY <1>1, <2>1, <2>2, <2>3, <2>4 DEF Good, TypeOK, Drop
<1>3. Conserved'
  BY <1>1 DEF Good, TypeOK, Conserved, Drop
<1>4. phase' # "feed" => left' >= 1 /\ left' = Runway
  BY DEF Good, TypeOK, Drop, Runway
<1>5. i2s' = "running" => queue' # <<>>
  BY DEF Good, Drop
<1>6. i2s' = "ready" /\ ~lost' /\ phase' # "feed" =>
        /\ pc' \in {"alloc", "write"} => Len(queue') + left' >= Runway
        /\ pc' = "start" => Len(queue') >= Runway
  <2>1. Len(queue') + left' >= Runway \/ phase' = "feed"
    BY <1>1, <1>4 DEF Runway
  <2> QED
    BY <2>1 DEF Drop
<1>7. pc' = "alloc" /\ phase' = phase /\ phase # "prime"
  BY DEF Good, Drop
<1> QED
  BY <1>2, <1>3, <1>4, <1>5, <1>6, <1>7 DEF Good

LEMMA StartGood ==
  ASSUME NEW ok \in BOOLEAN, Good, Start(ok)
  PROVE  Good'
<1> USE SizeAssumption, FaultAssumption
<1>1. TypeOK' /\ Conserved'
  BY DEF Good, TypeOK, Conserved, Start, Outcome
<1>2. i2s' = "running" => queue' # <<>>
  BY DEF Good, Start, Startable
<1> QED
  BY <1>1, <1>2 DEF Good, TypeOK, Start

LEMMA StepGood == Good /\ [Next]_vars => Good'
<1> SUFFICES ASSUME Good, [Next]_vars PROVE Good'
  OBVIOUS
<1>1. CASE ClockChange
  BY <1>1 DEF ClockChange, Good, TypeOK, Conserved, Runway
<1>2. CASE UNCHANGED vars
  BY <1>2 DEF vars, Good, TypeOK, Conserved
<1> QED
  BY <1>1, <1>2, TransmitGood, AllocGood, WriteQueuedGood, WriteRefusedGood,
     AllocTimeoutGood, DropGood, StartGood
  DEF Next, Feed

THEOREM Invariance == Spec => []Good
BY InitGood, StepGood, PTL DEF Spec

(* The types of the transmit path, for every number of blocks and failures.  *)
THEOREM TypeCorrect == Spec => []TypeOK
BY Invariance, PTL DEF Good

(* No block is leaked and none freed twice.                                   *)
THEOREM BlocksConserved == Spec => []Conserved
BY Invariance, PTL DEF Good

(* The stream starts with a full runway unless a write was refused.           *)
THEOREM StartsDeep == Spec => FullRunway
<1>1. Good /\ [Next]_vars =>
        [i2s # "running" /\ i2s' = "running" => lost \/ Len(queue) >= NumBlocks - 1]_vars
  <2> SUFFICES ASSUME Good, [Next]_vars, i2s # "running", i2s' = "running"
               PROVE  lost \/ Len(queue) >= NumBlocks - 1
    OBVIOUS
  <2>1. \E ok \in BOOLEAN : Start(ok) /\ ok
    BY DEF Next, Feed, vars, Transmit, ClockChange, Alloc, WriteQueued,
           WriteRefused, AllocTimeout, Drop, Start
  <2>2. pc = "start" /\ i2s = "ready"
    BY <2>1 DEF Start, Startable, Outcome
  <2> QED
    BY <2>2 DEF Good, Runway
<1> QED
  BY <1>1, Invariance, PTL DEF Spec, FullRunway

(* Serial numbers go round: the predecessor of the next is the one at hand.  *)
LEMMA Predecessor ==
  ASSUME NEW n \in Serials
  PROVE  (((n + 1) % Wrap) + Wrap - 1) % Wrap = n
<1> USE SizeAssumption DEF Serials
<1>1. CASE n + 1 < Wrap
  <2>1. (n + 1) % Wrap = n + 1
    BY <1>1
  <2>2. (n + Wrap) % Wrap = n
    OBVIOUS
  <2> QED
    BY <2>1, <2>2
<1>2. CASE n + 1 = Wrap
  <2>1. (n + 1) % Wrap = 0
    BY <1>2
  <2>2. (Wrap - 1) % Wrap = Wrap - 1
    OBVIOUS
  <2> QED
    BY <1>2, <2>1, <2>2
<1> QED
  BY <1>1, <1>2

LEMMA Successor ==
  ASSUME NEW n \in Serials
  PROVE  (((n + Wrap - 1) % Wrap) + 1) % Wrap = n
<1> USE SizeAssumption DEF Serials
<1>1. CASE n >= 1
  <2>1. (n + Wrap - 1) % Wrap = n - 1
    BY <1>1
  <2>2. n % Wrap = n
    OBVIOUS
  <2> QED
    BY <2>1, <2>2
<1>2. CASE n = 0
  <2>1. (Wrap - 1) % Wrap = Wrap - 1
    OBVIOUS
  <2>2. Wrap % Wrap = 0
    OBVIOUS
  <2> QED
    BY <1>2, <2>1, <2>2
<1> QED
  BY <1>1, <1>2

(* A step that leaves the queue and the history of refusals as they are.     *)
LEMMA KeepsLinked ==
  ASSUME Good, Linked, UNCHANGED queue, ~lost' => ~lost,
         ~lost' /\ pc' = "write" => Filled' = serial /\ Unbroken,
         ~lost' /\ Unbroken' => Unbroken /\ serial' = serial
  PROVE  Linked'
BY DEF Linked, Contiguous

LEMMA InitLinked == Init => Linked
BY DEF Init, Linked, Contiguous

LEMMA TransmitLinked == Good /\ Linked /\ Transmit => Linked'
<1> SUFFICES ASSUME Good, Linked, Transmit, ~lost' PROVE Linked'
  BY DEF Linked, Contiguous
<1>1. queue \in Seq(Serials) /\ queue # <<>>
  BY DEF Good, Transmit, TypeOK
<1>2. /\ queue' \in Seq(Serials) /\ Len(queue') = Len(queue) - 1
      /\ \A i \in 1 .. Len(queue') : queue'[i] = queue[i + 1]
  BY <1>1, HeadTailProperties DEF Transmit
<1>3. queue' # <<>> => Len(queue') \in 1 .. Len(queue') /\ queue'[Len(queue')] = queue[Len(queue)]
  BY <1>1, <1>2, EmptySeq
<1>4. ~lost /\ Filled' = Filled /\ UNCHANGED <<pc, phase, serial>>
  BY DEF Transmit, Filled
<1>5. \A i \in 1 .. (Len(queue') - 1) : queue'[i + 1] = (queue'[i] + 1) % Wrap
  <2> SUFFICES ASSUME NEW i \in 1 .. (Len(queue') - 1)
               PROVE  queue'[i + 1] = (queue'[i] + 1) % Wrap
    OBVIOUS
  <2>1. Len(queue) \in Nat /\ i + 1 \in 1 .. (Len(queue) - 1)
    BY <1>1, <1>2
  <2>2. queue'[i] = queue[i + 1] /\ queue'[i + 1] = queue[(i + 1) + 1]
    BY <1>2, <2>1
  <2> QED
    BY <1>4, <2>1, <2>2 DEF Linked, Contiguous
<1> QED
  BY <1>1, <1>3, <1>4, <1>5 DEF Linked, Contiguous, Unbroken

LEMMA AllocLinked == Good /\ Linked /\ Alloc => Linked'
<1> SUFFICES ASSUME Good, Linked, Alloc PROVE Linked'
  OBVIOUS
<1>1. Filled' = serial
  BY Predecessor DEF Good, TypeOK, Alloc, Filled
<1> QED
  BY <1>1, KeepsLinked DEF Alloc, Unbroken

LEMMA WriteQueuedLinked == Good /\ Linked /\ WriteQueued => Linked'
<1> SUFFICES ASSUME Good, Linked, WriteQueued, ~lost' PROVE Linked'
  BY DEF Linked, Contiguous
<1>1. Filled \in Serials /\ serial' = (Filled + 1) % Wrap
  BY SerialTypes, Successor DEF Filled, Good, TypeOK, WriteQueued
<1>2. queue \in Seq(Serials)
  BY DEF Good, TypeOK
<1>3. /\ Len(queue') = Len(queue) + 1 /\ queue'[Len(queue) + 1] = Filled
      /\ \A i \in 1 .. Len(queue) : queue'[i] = queue[i]
  BY <1>1, <1>2, AppendProperties DEF WriteQueued
<1>4. ~lost /\ pc = "write" /\ pc' # "write"
  BY DEF WriteQueued
<1>5. \A i \in 1 .. (Len(queue') - 1) : queue'[i + 1] = (queue'[i] + 1) % Wrap
  <2> SUFFICES ASSUME NEW i \in 1 .. Len(queue)
               PROVE  queue'[i + 1] = (queue'[i] + 1) % Wrap
    BY <1>2, <1>3
  <2>1. CASE i = Len(queue)
    BY <1>2, <1>3, <1>4, <2>1, EmptySeq DEF Linked, Contiguous
  <2>2. CASE i < Len(queue)
    BY <1>2, <1>3, <1>4, <2>2 DEF Linked, Contiguous
  <2> QED
    BY <1>2, <2>1, <2>2
<1> QED
  BY <1>1, <1>3, <1>4, <1>5 DEF Linked, Contiguous

LEMMA WriteRefusedLinked == Good /\ Linked /\ WriteRefused => Linked'
<1> SUFFICES ASSUME Good, Linked, WriteRefused PROVE Linked'
  OBVIOUS
<1> QED
  BY KeepsLinked DEF WriteRefused, Unbroken, AfterRefusal

LEMMA AllocTimeoutLinked == Good /\ Linked /\ AllocTimeout => Linked'
BY KeepsLinked DEF AllocTimeout, Unbroken

LEMMA DropLinked ==
  ASSUME NEW ok \in BOOLEAN, Good, Linked, Drop(ok)
  PROVE  Linked'
<1>1. CASE ok
  BY <1>1 DEF Drop, Linked, Contiguous
<1>2. CASE ~ok
  <2>1. phase = "recover" \/ lost'
    BY <1>2 DEF Drop, Good, TypeOK
  <2> QED
    BY <1>2, <2>1, KeepsLinked DEF Drop, Unbroken, Good, TypeOK
<1> QED
  BY <1>1, <1>2

LEMMA StartLinked ==
  ASSUME NEW ok \in BOOLEAN, Good, Linked, Start(ok)
  PROVE  Linked'
BY KeepsLinked DEF Start, Unbroken

LEMMA StepLinked == Good /\ Linked /\ [Next]_vars => Linked'
<1> SUFFICES ASSUME Good, Linked, [Next]_vars PROVE Linked'
  OBVIOUS
<1>1. CASE ClockChange \/ UNCHANGED vars
  BY <1>1 DEF ClockChange, vars, Linked, Contiguous, Unbroken, Filled
<1> QED
  BY <1>1, TransmitLinked, AllocLinked, WriteQueuedLinked, WriteRefusedLinked,
     AllocTimeoutLinked, DropLinked, StartLinked
  DEF Next, Feed

(* What is sent is what was filled, in its order and with nothing left out    *)
(* between, for every depth of the queue: only a refused block that DROP does *)
(* not sweep away with the queue leaves a gap.                                *)
THEOREM SentContiguous == Spec => []Contiguous
<1>1. Init => Linked
  BY InitLinked
<1>2. Good /\ Linked /\ [Next]_vars => Linked'
  BY StepLinked
<1>3. Linked => Contiguous
  BY DEF Linked
<1> QED
  BY <1>1, <1>2, <1>3, Invariance, PTL DEF Spec
=============================================================================
