--------------------------- MODULE UsbFramingProofs ---------------------------
(* What UsbFraming promises, for every size of the header, the payloads, the *)
(* blocks, the batches and the ring.                                         *)
EXTENDS UsbFraming, SequenceTheorems, TLAPS

Byte == Nat \X Nat

(* The host waits for an idle parser, and no batch is refused.               *)
Patient == "hasty" \notin Faults /\ "refuse" \notin Faults

(***************************************************************************)
(* Sequences of bytes.                                                     *)
(***************************************************************************)

(* What Bytes returns.                                                       *)
LEMMA BytesProperties ==
  ASSUME NEW id \in Nat, NEW from \in Nat, NEW to \in Nat, from <= to
  PROVE  /\ Bytes(id, from, to) \in Seq(Byte)
         /\ Len(Bytes(id, from, to)) = to - from
         /\ \A i \in 1 .. (to - from) : Bytes(id, from, to)[i] = <<id, from + i>>
<1>1. Bytes(id, from, to) \in [1 .. (to - from) -> Byte]
  BY DEF Bytes, Byte
<1>2. Bytes(id, from, to) \in Seq(Byte)
  BY <1>1, to - from \in Nat, SeqDef
<1>3. Len(Bytes(id, from, to)) = to - from
  BY <1>1, <1>2, LenProperties DEF Bytes
<1> QED
  BY <1>2, <1>3 DEF Bytes

LEMMA BytesOnward ==
  ASSUME NEW id \in Nat, NEW from \in Nat, NEW n \in Nat
  PROVE  /\ Bytes(id, from, from + n) \in Seq(Byte)
         /\ Len(Bytes(id, from, from + n)) = n
         /\ \A i \in 1 .. n : Bytes(id, from, from + n)[i] = <<id, from + i>>
<1>1. from + n - from = n /\ from + n \in Nat
  OBVIOUS
<1>2. Bytes(id, from, from + n) = [i \in 1 .. n |-> <<id, from + i>>]
  BY <1>1 DEF Bytes
<1>3. Bytes(id, from, from + n) \in [1 .. n -> Byte]
  BY <1>2 DEF Byte
<1>4. Bytes(id, from, from + n) \in Seq(Byte)
  BY <1>3, SeqDef
<1>5. Len(Bytes(id, from, from + n)) = n
  BY <1>3, <1>4, <1>2, LenProperties
<1> QED
  BY <1>2, <1>4, <1>5

(* A sequence is told from Bytes slot by slot.                               *)
LEMMA BytesEqual ==
  ASSUME NEW id \in Nat, NEW from \in Nat, NEW to \in Nat, from <= to,
         NEW s \in Seq(Byte), Len(s) = to - from,
         \A i \in 1 .. Len(s) : s[i] = <<id, from + i>>
  PROVE  s = Bytes(id, from, to)
<1> DEFINE B == Bytes(id, from, to)
<1>1. /\ B \in Seq(Byte) /\ Len(B) = to - from
      /\ \A i \in 1 .. (to - from) : B[i] = <<id, from + i>>
  BY BytesProperties
<1> HIDE DEF B
<1>2. \A i \in 1 .. Len(s) : s[i] = B[i]
  BY <1>1
<1>3. s = B
  BY <1>1, <1>2, SeqEqual
<1> QED
  BY <1>3 DEF B

(* What stays in the ring when bytes are taken.                              *)
LEMMA RestProperties ==
  ASSUME ring \in Seq(Byte), NEW n \in 0 .. Len(ring)
  PROVE  /\ Rest(n) \in Seq(Byte) /\ Len(Rest(n)) = Len(ring) - n
         /\ \A i \in 1 .. (Len(ring) - n) : Rest(n)[i] = ring[n + i]
<1>1. Len(ring) \in Nat /\ \A i \in (n + 1) .. Len(ring) : ring[i] \in Byte
  BY LenProperties, ElementOfSeq
<1>2. /\ Rest(n) \in Seq(Byte)
      /\ Len(Rest(n)) = IF n + 1 <= Len(ring) THEN Len(ring) - (n + 1) + 1 ELSE 0
      /\ \A i \in 1 .. (Len(ring) - (n + 1) + 1) : Rest(n)[i] = ring[n + 1 + i - 1]
  BY <1>1, SubSeqProperties, n + 1 \in Int, Len(ring) \in Int DEF Rest
<1> QED
  BY <1>1, <1>2

(* What the callback appends: as many of the bytes as the ring has room for. *)
LEMMA StoredProperties ==
  ASSUME Types, NEW n \in Nat, UartCallback(n)
  PROVE  \E k \in 0 .. n :
           /\ k = n \/ Len(ring') = RingSize
           /\ n >= 1 /\ Len(ring) < RingSize => k >= 1
           /\ ring' \in Seq(Byte) /\ Len(ring') = Len(ring) + k
           /\ Len(ring') <= RingSize
           /\ \A i \in 1 .. Len(ring) : ring'[i] = ring[i]
           /\ \A i \in 1 .. k : ring'[Len(ring) + i] = <<host.id, host.sent + i>>
<1> DEFINE B == Bytes(host.id, host.sent, host.sent + n)
           k == IF n <= RingSize - Len(ring) THEN n ELSE RingSize - Len(ring)
<1>1. /\ host.id \in Nat /\ host.sent \in Nat
      /\ ring \in Seq(Byte) /\ Len(ring) \in Nat /\ Len(ring) <= RingSize
  BY LenProperties, FramingAssumption DEF Types, TypeOK, Byte
<1>2. /\ B \in Seq(Byte) /\ Len(B) = n
      /\ \A i \in 1 .. n : B[i] = <<host.id, host.sent + i>>
  <2>1. host.id \in Nat /\ host.sent \in Nat
    BY <1>1
  <2>2. \A id, from \in Nat :
          /\ Bytes(id, from, from + n) \in Seq(Byte)
          /\ Len(Bytes(id, from, from + n)) = n
          /\ \A i \in 1 .. n : Bytes(id, from, from + n)[i] = <<id, from + i>>
    BY BytesOnward
  <2> QED
    BY <2>1, <2>2
<1>3. k \in 0 .. n
  BY <1>1, FramingAssumption
<1> HIDE DEF B
<1>4. \A i \in 1 .. k : B[i] \in Byte
  BY <1>2, <1>3, ElementOfSeq
<1>5. Stored(B) = SubSeq(B, 1, k)
  BY <1>2 DEF Stored
<1> HIDE DEF k
<1>6. /\ Stored(B) \in Seq(Byte) /\ Len(Stored(B)) = k
      /\ \A i \in 1 .. k : Stored(B)[i] = <<host.id, host.sent + i>>
  <2>1. /\ Stored(B) \in Seq(Byte)
        /\ Len(Stored(B)) = IF 1 <= k THEN k - 1 + 1 ELSE 0
        /\ \A i \in 1 .. (k - 1 + 1) : Stored(B)[i] = B[1 + i - 1]
    BY <1>3, <1>4, <1>5, SubSeqProperties
  <2> QED
    BY <1>2, <1>3, <2>1
<1>7. ring' = ring \o Stored(B)
  BY DEF UartCallback, B
<1>8. /\ ring' \in Seq(Byte) /\ Len(ring') = Len(ring) + k
      /\ \A i \in 1 .. (Len(ring) + k) : ring'[i] =
           IF i <= Len(ring) THEN ring[i] ELSE Stored(B)[i - Len(ring)]
  BY <1>1, <1>6, <1>7, ConcatProperties
<1>9. \A i \in 1 .. Len(ring) : ring'[i] = ring[i]
  BY <1>1, <1>3, <1>8
<1>10. \A i \in 1 .. k : ring'[Len(ring) + i] = <<host.id, host.sent + i>>
  <2> SUFFICES ASSUME NEW i \in 1 .. k
               PROVE  ring'[Len(ring) + i] = <<host.id, host.sent + i>>
    OBVIOUS
  <2>1. /\ Len(ring) + i \in 1 .. (Len(ring) + k) /\ ~(Len(ring) + i <= Len(ring))
        /\ Len(ring) + i - Len(ring) = i
    BY <1>1, <1>3
  <2>2. ring'[Len(ring) + i] = Stored(B)[i]
    BY <1>8, <2>1
  <2> QED
    BY <1>6, <2>2
<1>11. /\ k = n \/ Len(ring) + k = RingSize
       /\ n >= 1 /\ Len(ring) < RingSize => k >= 1
       /\ Len(ring) + k <= RingSize
  BY <1>1, FramingAssumption DEF k
<1> QED
  BY <1>3, <1>8, <1>9, <1>10, <1>11

(***************************************************************************)
(* Types.                                                                  *)
(***************************************************************************)

LEMMA LengthNat ==
  ASSUME NEW m \in Messages
  PROVE  Length(m) \in Nat /\ Length(m) >= Hdr + m.payload
<1>1. Block * m.raw \in Nat
  BY FramingAssumption DEF Messages
<1> QED
  BY <1>1, FramingAssumption DEF Length, Messages

LEMMA InitTypes == Init => Types
<1> SUFFICES ASSUME Init PROVE Types
  OBVIOUS
<1> USE FramingAssumption
<1>1. host = [id |-> 0, payload |-> 0, raw |-> 0, sent |-> Length(NoMessage), stalled |-> FALSE]
  BY DEF Init, Idle, NoMessage, Message
<1>2. Length(NoMessage) = Hdr + 0 + Block * 0 /\ Length(host) = Hdr + 0 + Block * 0
  BY <1>1 DEF Length, NoMessage, Message
<1>3. Block * 0 = 0
  OBVIOUS
<1>4. ring \in Seq(Byte) /\ Len(ring) = 0
  BY EmptySeq DEF Init
<1>5. TypeOK
  BY <1>1, <1>2, <1>3, <1>4 DEF Init, TypeOK
<1> QED
  BY <1>1, <1>2, <1>3, <1>4, <1>5 DEF Init, Types, Byte, Messages

LEMMA HostSendTypes ==
  ASSUME NEW p \in Nat, NEW r \in Nat, Types, HostSend(p, r)
  PROVE  Types'
<1> USE FramingAssumption
<1>1. host.id + 1 \in Nat /\ (host.id + 1) % Ids \in 0 .. (Ids - 1)
  <2>1. host.id \in Nat
    BY DEF Types, Messages
  <2> QED
    BY <2>1
<1>2. host' = [id |-> (host.id + 1) % Ids, payload |-> p, raw |-> r, sent |-> 0,
               stalled |-> FALSE]
  BY DEF HostSend, Message
<1>3. host' \in Messages
  BY <1>1, <1>2 DEF Messages
<1>4. Length(host') \in Nat
  BY <1>3, LengthNat
<1>5. TypeOK'
  <2>1. host'.id \in 0 .. (Ids - 1) /\ host'.sent \in 0 .. Length(host')
    BY <1>1, <1>2, <1>4
  <2>2. owed' \in Int
    BY DEF Types, TypeOK, HostSend
  <2> QED
    BY <2>1, <2>2 DEF Types, TypeOK, HostSend, parser
<1> QED
  BY <1>3, <1>5 DEF Types, HostSend, parser

(* The host's message stays the one it is while it is sent.                  *)
LEMMA SameMessage ==
  ASSUME Types, NEW s \in 0 .. Length(host), NEW b \in BOOLEAN,
         host' = [host EXCEPT !.sent = s, !.stalled = b]
  PROVE  /\ host' \in Messages
         /\ host'.id = host.id /\ host'.payload = host.payload /\ host'.raw = host.raw
         /\ host'.sent = s /\ host'.stalled = b /\ Length(host') = Length(host)
<1>1. s \in Nat
  BY LengthNat DEF Types
<1>2. /\ host' \in Messages
      /\ host'.id = host.id /\ host'.payload = host.payload /\ host'.raw = host.raw
      /\ host'.sent = s /\ host'.stalled = b
  BY <1>1 DEF Types, Messages
<1> QED
  BY <1>2 DEF Length

(* The host pauses, goes on, or dies inside its message.                     *)
LEMMA HostStallsTypes ==
  ASSUME Types, HostStalls
  PROVE  /\ Types' /\ Length(host') = Length(host) /\ host'.stalled
         /\ host' = [host EXCEPT !.stalled = TRUE]
         /\ host'.id = host.id /\ host'.payload = host.payload
         /\ host'.raw = host.raw /\ host'.sent = host.sent
<1>1. host.sent \in 0 .. Length(host) /\ host' = [host EXCEPT !.sent = host.sent, !.stalled = TRUE]
  BY DEF HostStalls, Types, TypeOK
<1>2. /\ host' \in Messages
      /\ host'.id = host.id /\ host'.payload = host.payload /\ host'.raw = host.raw
      /\ host'.sent = host.sent /\ host'.stalled = TRUE /\ Length(host') = Length(host)
  BY <1>1, SameMessage
<1> QED
  BY <1>1, <1>2 DEF HostStalls, Types, TypeOK, parser

LEMMA HostResumesTypes ==
  ASSUME Types, HostResumes
  PROVE  /\ Types' /\ Length(host') = Length(host) /\ ~host'.stalled
         /\ host'.id = host.id /\ host'.payload = host.payload
         /\ host'.raw = host.raw /\ host'.sent = host.sent
<1>1. host.sent \in 0 .. Length(host) /\ host' = [host EXCEPT !.sent = host.sent, !.stalled = FALSE]
  BY DEF HostResumes, Types, TypeOK
<1>2. /\ host' \in Messages
      /\ host'.id = host.id /\ host'.payload = host.payload /\ host'.raw = host.raw
      /\ host'.sent = host.sent /\ host'.stalled = FALSE /\ Length(host') = Length(host)
  BY <1>1, SameMessage
<1> QED
  BY <1>1, <1>2 DEF HostResumes, Types, TypeOK

LEMMA HostDiesTypes ==
  ASSUME Types, HostDies
  PROVE  /\ Types' /\ Length(host') = Length(host) /\ host'.sent = Length(host)
         /\ host'.id = host.id /\ host'.payload = host.payload
         /\ host'.raw = host.raw
<1>1. Length(host) \in 0 .. Length(host)
  BY LengthNat DEF Types
<1>2. /\ host' \in Messages
      /\ host'.id = host.id /\ host'.payload = host.payload /\ host'.raw = host.raw
      /\ host'.sent = Length(host) /\ Length(host') = Length(host)
  BY <1>1, SameMessage DEF HostDies
<1>3. owed' \in Int
  BY DEF HostDies, Types, TypeOK
<1> QED
  BY <1>1, <1>2, <1>3 DEF HostDies, Types, TypeOK

(* The line delivers bytes.                                                  *)
LEMMA UartTypes ==
  ASSUME Types, NEW n \in Nat, UartCallback(n)
  PROVE  /\ Types' /\ Length(host') = Length(host) /\ host'.sent = host.sent + n
         /\ host'.id = host.id /\ host'.payload = host.payload
         /\ host'.raw = host.raw /\ host'.stalled = host.stalled
<1>1. Length(host) \in Nat
  BY LengthNat DEF Types
<1>2. host.sent + n \in 0 .. Length(host)
  BY <1>1 DEF UartCallback, Types, Messages
<1>3. host' = [host EXCEPT !.sent = host.sent + n, !.stalled = host.stalled]
      /\ host.stalled \in BOOLEAN
  BY DEF UartCallback, Types, Messages
<1>4. /\ host' \in Messages
      /\ host'.id = host.id /\ host'.payload = host.payload /\ host'.raw = host.raw
      /\ host'.sent = host.sent + n /\ host'.stalled = host.stalled
      /\ Length(host') = Length(host)
  BY <1>2, <1>3, SameMessage
<1>5. ring' \in Seq(Byte) /\ Len(ring') <= RingSize
  BY StoredProperties
<1> QED
  BY <1>2, <1>4, <1>5 DEF UartCallback, Types, TypeOK, parser, Byte

(* The steps of the parser leave the host alone.                             *)
LEMMA PollTypes ==
  ASSUME Types, UNCHANGED host, owed' \in Int,
         ring' \in Seq(Byte) /\ Len(ring') <= Len(ring),
         pc' \in {"poll", "payload", "drain", "blocks", "quiet"},
         need' \in 0 .. (Hdr + MaxPayload), left' \in Nat,
         seen' \subseteq {"cut", "phantom", "torn", "corrupt"},
         cur' \in [id : Nat, payload : Nat, raw : Nat],
         pc' = "blocks" => left' >= 1 /\ need' = Block
  PROVE  Types'
<1>1. Len(ring) <= RingSize /\ Len(ring) \in Nat /\ Len(ring') \in Nat
  BY LenProperties DEF Types, TypeOK
<1>2. Len(ring') <= RingSize
  BY <1>1, FramingAssumption
<1>3. TypeOK'
  BY <1>2 DEF Types, TypeOK, Length
<1> QED
  BY <1>3 DEF Types, Byte

LEMMA EmptyRing == ring' = <<>> /\ Types => ring' \in Seq(Byte) /\ Len(ring') <= Len(ring)
BY EmptySeq, LenProperties DEF Types

LEMMA RestTypes ==
  ASSUME Types, NEW n \in 0 .. Len(ring), ring' = Rest(n)
  PROVE  ring' \in Seq(Byte) /\ Len(ring') <= Len(ring) /\ Len(ring') = Len(ring) - n
<1>1. Len(ring) \in Nat /\ ring \in Seq(Byte)
  BY LenProperties DEF Types, Byte
<1> QED
  BY <1>1, RestProperties

(* A header announces a payload; only a true one announces a batch.          *)
LEMMA AnnouncedTypes ==
  ASSUME Types, NEW bytes, NEW c \in Announced(bytes)
  PROVE  c \in [id : Nat, payload : Nat, raw : Nat]
BY FramingAssumption DEF Announced, Types, Messages

LEMMA PollHeaderTypes ==
  ASSUME Types, NEW c, PollHeader(c)
  PROVE  Types'
<1> USE FramingAssumption
<1>1. c \in [id : Nat, payload : Nat, raw : Nat]
  BY AnnouncedTypes DEF PollHeader
<1>2. Len(ring) \in Nat /\ Hdr \in 0 .. Len(ring)
  BY LenProperties DEF Types, PollHeader
<1>3. ring' \in Seq(Byte) /\ Len(ring') <= Len(ring)
  BY <1>2, RestTypes DEF PollHeader
<1>4. need' \in 0 .. (Hdr + MaxPayload) /\ left' \in Nat /\ pc' \in {"payload", "drain"}
  BY <1>1 DEF PollHeader
<1>5. seen' \subseteq {"cut", "phantom", "torn", "corrupt"}
  BY DEF PollHeader, Types, TypeOK
<1> QED
  BY <1>1, <1>3, <1>4, <1>5, PollTypes DEF PollHeader, Types, TypeOK

LEMMA DrainTypes == Types /\ Drain => Types'
<1> SUFFICES ASSUME Types, Drain PROVE Types'
  OBVIOUS
<1>1. need \in Nat /\ Len(ring) \in Nat /\ left \in Nat
  BY LenProperties DEF Types, TypeOK
<1>2. CASE left > 0 /\ Len(ring) >= need
  <2>1. ring' \in Seq(Byte) /\ Len(ring') <= Len(ring)
    BY <1>1, <1>2, RestTypes DEF Drain
  <2>2. left' \in Nat /\ need' = need
    BY <1>1, <1>2 DEF Drain
  <2> QED
    BY <1>1, <1>2, <2>1, <2>2, PollTypes DEF Drain, Types, TypeOK
<1>3. CASE ~(left > 0 /\ Len(ring) >= need)
  <2>1. ring' \in Seq(Byte) /\ Len(ring') <= Len(ring)
    BY <1>3, EmptyRing DEF Drain
  <2> QED
    BY <1>3, <2>1, PollTypes DEF Drain, Types, TypeOK, Answer
<1> QED
  BY <1>2, <1>3

LEMMA PayloadTimeoutTypes == Types /\ PayloadTimeout => Types'
<1> SUFFICES ASSUME Types, PayloadTimeout PROVE Types'
  OBVIOUS
<1>1. ring' \in Seq(Byte) /\ Len(ring') <= Len(ring)
  BY EmptyRing DEF PayloadTimeout, AfterTimeout
<1> QED
  BY <1>1, PollTypes DEF PayloadTimeout, Types, TypeOK, Answer

LEMMA DispatchTypes == Types /\ Dispatch => Types'
<1> SUFFICES ASSUME Types, Dispatch PROVE Types'
  OBVIOUS
<1> USE FramingAssumption
<1>1. need \in 0 .. Len(ring)
  BY LenProperties DEF Types, TypeOK, Dispatch
<1>2. ring' \in Seq(Byte) /\ Len(ring') <= Len(ring)
  BY <1>1, RestTypes DEF Dispatch
<1>3. CASE cur.raw > 0 /\ pc' = "blocks" /\ need' = Block /\ left' = cur.raw /\ UNCHANGED owed
  <2>1. left' \in Nat /\ left' >= 1 /\ need' = Block /\ pc' = "blocks" /\ owed' \in Int
        /\ Block \in 0 .. (Hdr + MaxPayload)
    BY <1>3 DEF Types, TypeOK
  <2> QED
    BY <1>2, <2>1, PollTypes DEF Dispatch, Types, TypeOK
<1>4. CASE pc' = "poll" /\ Answer /\ UNCHANGED <<need, left>>
  BY <1>2, <1>4, PollTypes DEF Dispatch, Types, TypeOK, Answer
<1> QED
  BY <1>3, <1>4 DEF Dispatch

LEMMA BatchBlockTypes == Types /\ BatchBlock => Types'
<1> SUFFICES ASSUME Types, BatchBlock PROVE Types'
  OBVIOUS
<1> USE FramingAssumption
<1>1. need \in 0 .. Len(ring) /\ left \in Nat /\ left >= 1 /\ need = Block
  BY LenProperties DEF Types, TypeOK, BatchBlock, BlockCame
<1>2. ring' \in Seq(Byte) /\ Len(ring') <= Len(ring)
  BY <1>1, RestTypes DEF BatchBlock
<1>3. seen' \subseteq {"cut", "phantom", "torn", "corrupt"}
  BY DEF Types, TypeOK, BatchBlock, Torn
<1>4. /\ left' \in Nat /\ (pc' = "blocks" => left' >= 1) /\ pc' \in {"blocks", "poll"}
      /\ owed' \in Int
  <2>1. CASE left > 1
    BY <1>1, <2>1 DEF BatchBlock, Types, TypeOK
  <2>2. CASE left = 1
    BY <2>2 DEF BatchBlock, Types, TypeOK, Answer
  <2> QED
    BY <1>1, <2>1, <2>2
<1> QED
  BY <1>1, <1>2, <1>3, <1>4, PollTypes DEF BatchBlock, Types, TypeOK

LEMMA BatchFailsTypes == Types /\ BatchFails => Types'
<1> SUFFICES ASSUME Types, BatchFails PROVE Types'
  OBVIOUS
<1>1. need \in Nat /\ ring \in Seq(Byte) /\ Len(ring) \in Nat
  BY LenProperties DEF Types, TypeOK, Byte
<1>2. ring' \in Seq(Byte) /\ Len(ring') <= Len(ring)
  BY <1>1, RestTypes DEF BatchFails
<1> QED
  BY <1>2, PollTypes DEF BatchFails, Types, TypeOK, Answer, AfterFailure

LEMMA QuietTypes == Types /\ Quiet => Types'
<1> SUFFICES ASSUME Types, Quiet PROVE Types'
  OBVIOUS
<1>1. ring' \in Seq(Byte) /\ Len(ring') <= Len(ring)
  BY EmptyRing, LenProperties DEF Quiet, Types, Byte
<1> QED
  BY <1>1, PollTypes DEF Quiet, Types, TypeOK

LEMMA StepTypes == Types /\ [Next]_vars => Types'
<1> SUFFICES ASSUME Types, [Next]_vars PROVE Types'
  OBVIOUS
<1>1. CASE Host
  <2>1. ASSUME NEW p \in Payloads, HostSend(p, 0) PROVE Types'
    BY <2>1, HostSendTypes, FramingAssumption
  <2>2. ASSUME NEW n \in Counts, HostSend(Count, n) PROVE Types'
    BY <2>2, HostSendTypes, FramingAssumption DEF Count
  <2> QED
    BY <1>1, <2>1, <2>2, HostStallsTypes, HostResumesTypes, HostDiesTypes DEF Host
<1>2. CASE Line
  BY <1>2, UartTypes DEF Line
<1>3. CASE Poll
  BY <1>3, PollHeaderTypes, DrainTypes, PayloadTimeoutTypes, DispatchTypes,
     BatchBlockTypes, BatchFailsTypes, QuietTypes
  DEF Poll
<1>4. CASE UNCHANGED vars
  BY <1>4 DEF vars, parser, Types, TypeOK, Length
<1> QED
  BY <1>1, <1>2, <1>3, <1>4 DEF Next

LEMMA TypesInvariance == Spec => []Types
BY InitTypes, StepTypes, PTL DEF Spec

(* Whatever goes wrong on the line, the ring never holds more than its size, *)
(* no read asks for more than the block buffer holds, and no count of what   *)
(* is still to come goes below zero.                                         *)
THEOREM TypeCorrect == Spec => []TypeOK
BY TypesInvariance, PTL DEF Types

(***************************************************************************)
(* Counting bytes.                                                         *)
(***************************************************************************)

LEMMA RingFacts ==
  Types => /\ ring \in Seq(Byte) /\ Len(ring) \in Nat /\ Len(ring) <= RingSize
           /\ RingSize \in Nat /\ RingSize >= Hdr /\ Hdr \in Nat /\ Hdr >= 1
           /\ host.id \in Nat /\ host.sent \in Nat /\ host.payload \in Nat
           /\ host.raw \in Nat /\ Length(host) \in Nat
           /\ Length(host) >= Hdr + host.payload
           /\ need \in Nat /\ left \in Nat /\ host.sent <= Length(host)
           /\ owed \in Int
BY LenProperties, LengthNat, FramingAssumption DEF Types, TypeOK, Byte, Messages

(* Where the blocks still to come begin.                                     *)
LEMMA BlocksLeft ==
  ASSUME Types, left <= host.raw
  PROVE  /\ Length(host) - Block * left \in Nat
         /\ Length(host) - Block * left >= Hdr
         /\ Length(host) - Block * left
              = Hdr + host.payload + Block * (host.raw - left)
         /\ left >= 1 => Length(host) - Block * (left - 1)
                           = Length(host) - Block * left + Block
<1>1. \A b, l, r \in Nat : l <= r =>
        /\ b * l \in Nat /\ b * r \in Nat /\ b * (r - l) = b * r - b * l
        /\ b * (r - l) \in Nat
        /\ l >= 1 => b * (l - 1) = b * l - b
  OBVIOUS
<1>2. Block \in Nat /\ left \in Nat /\ host.raw \in Nat /\ host.payload \in Nat /\ Hdr \in Nat
  BY FramingAssumption, RingFacts
<1>3. Length(host) = Hdr + host.payload + Block * host.raw
  BY DEF Length
<1> QED
  BY <1>1, <1>2, <1>3

(* The callback keeps what was said of the message up to a position: what it *)
(* stores is what comes next, or something is lost.                          *)
LEMMA UartUpTo ==
  ASSUME Types, NEW n \in Nat, UartCallback(n), NEW from \in Nat, UpTo(from)
  PROVE  /\ from + Len(ring') <= host.sent + n
         /\ from + Len(ring') = host.sent + n =>
              ring' = Bytes(host.id, from, host.sent + n) /\ Intact(from)
<1> DEFINE to == host.sent + n
<1>1. PICK k \in 0 .. n :
        /\ ring' \in Seq(Byte) /\ Len(ring') = Len(ring) + k
        /\ \A i \in 1 .. Len(ring) : ring'[i] = ring[i]
        /\ \A i \in 1 .. k : ring'[Len(ring) + i] = <<host.id, host.sent + i>>
  BY StoredProperties
<1>2. /\ Len(ring) \in Nat /\ host.sent \in Nat /\ host.id \in Nat
      /\ from + Len(ring) <= host.sent
  BY RingFacts DEF UpTo
<1>3. from + Len(ring') <= to
  BY <1>1, <1>2
<1>4. ASSUME from + Len(ring') = to
      PROVE  ring' = Bytes(host.id, from, to) /\ Intact(from)
  <2>1. k = n /\ from + Len(ring) = host.sent
    <3>1. Len(ring') = Len(ring) + k
      BY <1>1
    <3>2. from + (Len(ring) + k) = host.sent + n
      BY <1>4, <3>1
    <3> QED
      BY <1>2, <3>2
  <2>2. \A i \in 1 .. Len(ring) : ring[i] = <<host.id, from + i>>
    <3>1. ring = Bytes(host.id, from, host.sent) /\ from <= host.sent
      BY <1>2, <2>1 DEF UpTo, Intact
    <3>2. \A i \in 1 .. (host.sent - from) :
            Bytes(host.id, from, host.sent)[i] = <<host.id, from + i>>
      BY <1>2, <3>1, BytesProperties
    <3>3. host.sent - from = Len(ring)
      BY <1>2, <2>1
    <3> QED
      BY <3>1, <3>2, <3>3
  <2>3. ASSUME NEW i \in 1 .. Len(ring') PROVE ring'[i] = <<host.id, from + i>>
    <3>1. CASE i <= Len(ring)
      <4>1. i \in 1 .. Len(ring)
        BY <1>1, <1>2, <3>1
      <4> QED
        BY <1>1, <2>2, <4>1
    <3>2. CASE i > Len(ring)
      <4>1. i - Len(ring) \in 1 .. k /\ Len(ring) + (i - Len(ring)) = i
        BY <1>1, <1>2, <3>2
      <4>2. ring'[i] = <<host.id, host.sent + (i - Len(ring))>>
        BY <1>1, <4>1
      <4>3. host.sent + (i - Len(ring)) = from + i
        BY <1>2, <2>1, <4>1
      <4> QED
        BY <4>2, <4>3
    <3> QED
      BY <1>1, <1>2, <3>1, <3>2
  <2>4. to \in Nat /\ from <= to /\ Len(ring') = to - from
    <3>1. Len(ring') = Len(ring) + k
      BY <1>1
    <3>2. from + Len(ring') = host.sent + n
      BY <1>4
    <3> QED
      BY <1>2, <3>1, <3>2
  <2> HIDE DEF to
  <2>5. ring' = Bytes(host.id, from, to)
    BY <1>1, <1>2, <2>3, <2>4, BytesEqual
  <2> QED
    BY <2>1, <2>5 DEF Intact
<1> QED
  BY <1>3, <1>4

(* Taking bytes moves the position.                                          *)
LEMMA TakeUpTo ==
  ASSUME Types, NEW from \in Nat, UpTo(from), NEW n \in 0 .. Len(ring),
         ring' = Rest(n), UNCHANGED host
  PROVE  /\ Len(ring') = Len(ring) - n
         /\ from + n + Len(ring') <= host'.sent
         /\ from + n + Len(ring') = host'.sent =>
              Intact(from) /\ ring' = Bytes(host'.id, from + n, host'.sent)
<1>1. /\ ring \in Seq(Byte) /\ Len(ring) \in Nat /\ host.sent \in Nat /\ host.id \in Nat
      /\ from + Len(ring) <= host.sent /\ n \in Nat
  BY RingFacts DEF UpTo
<1>2. /\ ring' \in Seq(Byte) /\ Len(ring') = Len(ring) - n
      /\ \A i \in 1 .. (Len(ring) - n) : ring'[i] = ring[n + i]
  BY <1>1, RestProperties
<1>3. ASSUME from + Len(ring) = host.sent
      PROVE  ring' = Bytes(host.id, from + n, host.sent)
  <2>1. ring = Bytes(host.id, from, host.sent) /\ from <= host.sent
    BY <1>1, <1>3 DEF UpTo, Intact
  <2>2. \A i \in 1 .. (host.sent - from) :
          Bytes(host.id, from, host.sent)[i] = <<host.id, from + i>>
    <3>1. host.id \in Nat /\ host.sent \in Nat /\ from \in Nat /\ from <= host.sent
      BY <1>1, <2>1
    <3> QED
      BY <3>1, BytesProperties
  <2>3. \A i \in 1 .. Len(ring) : ring[i] = <<host.id, from + i>>
    BY <1>1, <1>3, <2>1, <2>2
  <2>4. ASSUME NEW i \in 1 .. Len(ring') PROVE ring'[i] = <<host.id, from + n + i>>
    <3>1. n + i \in 1 .. Len(ring) /\ i \in 1 .. (Len(ring) - n)
          /\ from + (n + i) = from + n + i
      BY <1>1, <1>2
    <3>2. ring'[i] = ring[n + i]
      BY <1>2, <3>1
    <3>3. ring[n + i] = <<host.id, from + (n + i)>>
      BY <2>3, <3>1
    <3> QED
      BY <3>1, <3>2, <3>3
  <2> DEFINE at == from + n
  <2>5. at \in Nat /\ at <= host.sent /\ Len(ring') = host.sent - at
    BY <1>1, <1>2, <1>3
  <2>6. \A i \in 1 .. Len(ring') : ring'[i] = <<host.id, at + i>>
    BY <2>4
  <2> HIDE DEF at
  <2>7. ring' \in Seq(Byte)
    BY <1>2
  <2>8. ring' = Bytes(host.id, at, host.sent)
    BY <1>1, <2>5, <2>6, <2>7, BytesEqual
  <2> QED
    BY <2>8 DEF at
<1>4. from + n + Len(ring') = from + Len(ring)
  BY <1>1, <1>2
<1> QED
  BY <1>1, <1>2, <1>3, <1>4 DEF Intact

(***************************************************************************)
(* Keeping in step.                                                        *)
(***************************************************************************)

LEMMA InitFramed == Init => Framed
<1> SUFFICES ASSUME Init PROVE Framed
  OBVIOUS
<1>1. Types
  BY InitTypes
<1>2. /\ host.sent = Length(NoMessage) /\ host.payload = 0 /\ host.raw = 0
  BY DEF Init, Idle, NoMessage, Message
<1>3. Length(host) = Length(NoMessage)
  BY <1>2 DEF Length, NoMessage, Message
<1>4. Between
  BY <1>1, <1>2, <1>3, RingFacts DEF Between, Init, Silence
<1> QED
  BY <1>2, <1>4 DEF Init, Framed

LEMMA HostSendFramed ==
  ASSUME Patient, Types, Framed, NEW p \in Nat, NEW r \in Nat, r > 0 => p = Count,
         HostSend(p, r)
  PROVE  Framed'
<1>1. /\ "phantom" \notin seen /\ pc = "poll" /\ Len(ring) < Hdr
      /\ owed <= 0 /\ UNCHANGED <<ring, pc, cur, need, left, seen>>
      /\ owed' = owed + 1
  BY RingFacts DEF HostSend, Sending, Patient, Quiescent, parser
<1>2. host'.sent = 0 /\ host'.payload = p /\ host'.raw = r
  BY DEF HostSend, Message
<1>3. Types' /\ Types
  BY HostSendTypes
<1>4. CASE AtHeader
  BY <1>1, <1>4 DEF AtHeader
<1>5. CASE Between
  <2>1. ring = <<>> /\ Len(ring) = 0 /\ owed' = 1
    BY <1>1, <1>5, EmptySeq DEF Between
  <2>2. host'.id \in Nat
    BY <1>3 DEF Types, Messages
  <2>3. ring' = Bytes(host'.id, 0, 0)
    BY <1>1, <2>1 DEF Bytes
  <2>4. AtHeader'
    BY <1>1, <1>2, <2>1, <2>3 DEF AtHeader, UpTo, Intact
  <2> QED
    BY <1>1, <1>2, <2>4 DEF Framed
<1>6. CASE Astray
  <2>1. Len(ring) # 0
    BY <1>3, <1>6, RingFacts, EmptySeq DEF Astray
  <2>2. Astray'
    BY <1>1, <1>2, <1>6, <2>1 DEF Astray
  <2> QED
    BY <1>1, <1>2, <2>2 DEF Framed
<1> QED
  BY <1>1, <1>4, <1>5, <1>6 DEF Framed

(* The pauses of the host keep the message, the ring and the parser.         *)
LEMMA PauseFramed ==
  ASSUME Types, Framed, UNCHANGED <<owed, ring, pc, cur, need, left>>,
         host'.id = host.id, host'.payload = host.payload, host'.raw = host.raw,
         host'.sent = host.sent, Length(host') = Length(host),
         seen' = seen \/ seen' = seen \union {"cut"},
         pc = "poll" /\ Between => Silence' \/ "cut" \in seen'
  PROVE  Framed'
<1>1. AtHeader => AtHeader'
  BY DEF AtHeader, UpTo, Intact
<1>2. pc = "poll" /\ Between => Between'
  BY DEF Between
<1>3. Astray => Astray'
  BY DEF Astray
<1>4. InPayload => InPayload'
  BY DEF InPayload, Current, UpTo, Intact
<1>5. InDrain => InDrain'
  BY DEF InDrain
<1>6. InBlocks => InBlocks'
  BY DEF InBlocks, Current, UpTo, Intact
<1>7. InQuiet => InQuiet'
  BY DEF InQuiet
<1>8. Misled => Misled'
  BY DEF Misled
<1>9. /\ "phantom" \in seen' <=> "phantom" \in seen
      /\ "corrupt" \in seen' <=> "corrupt" \in seen
  OBVIOUS
<1> QED
  BY <1>1, <1>2, <1>3, <1>4, <1>5, <1>6, <1>7, <1>8, <1>9 DEF Framed

LEMMA HostStallsFramed == Types /\ Framed /\ HostStalls => Framed'
<1> SUFFICES ASSUME Types, Framed, HostStalls PROVE Framed'
  OBVIOUS
<1>1. Silence'
  BY HostStallsTypes DEF Silence
<1> QED
  BY <1>1, HostStallsTypes, PauseFramed DEF HostStalls, parser

LEMMA HostResumesFramed == Types /\ Framed /\ HostResumes => Framed'
<1> SUFFICES ASSUME Types, Framed, HostResumes PROVE Framed'
  OBVIOUS
<1>1. CASE pc = "poll"
  <2>1. Between => "cut" \in seen'
    BY <1>1 DEF HostResumes, Between
  <2> QED
    BY <2>1, HostResumesTypes, PauseFramed DEF HostResumes
<1>2. CASE pc # "poll"
  <2>1. UNCHANGED <<owed, ring, pc, cur, need, left, seen>>
    BY <1>2 DEF HostResumes
  <2> QED
    BY <1>2, <2>1, HostResumesTypes, PauseFramed
<1> QED
  BY <1>1, <1>2

LEMMA HostDiesFramed == Types /\ Framed /\ HostDies => Framed'
<1> SUFFICES ASSUME Types, Framed, HostDies PROVE Framed'
  OBVIOUS
<1>1. /\ host'.id = host.id /\ host'.payload = host.payload /\ host'.raw = host.raw
      /\ host'.sent = Length(host) /\ Length(host') = Length(host)
      /\ host.sent < Length(host) /\ UNCHANGED <<ring, pc, cur, need, left>>
  BY HostDiesTypes DEF HostDies
<1>2. /\ seen' = seen \/ seen' = seen \union {"cut"}
      /\ host.sent >= Hdr => owed' = owed
      /\ host.sent < Hdr => owed' = owed - 1
      /\ 0 < host.sent /\ host.sent < Hdr => "cut" \in seen'
  BY RingFacts DEF HostDies
<1>3. /\ Len(ring) \in Nat /\ Hdr \in Nat /\ Hdr >= 1 /\ host.sent \in Nat
      /\ Length(host) \in Nat /\ Length(host) >= Hdr /\ ring \in Seq(Byte)
      /\ Length(host) >= Hdr + host.payload /\ left \in Nat /\ host.payload \in Nat
      /\ Silence'
  BY <1>1, RingFacts DEF Silence
<1>4. AtHeader => AtHeader' \/ Between' \/ Astray'
  <2> SUFFICES ASSUME AtHeader PROVE AtHeader' \/ Between' \/ Astray'
    OBVIOUS
  <2>1. owed = 1 /\ Len(ring) <= host.sent /\ (Len(ring) = host.sent \/ Len(ring) >= Hdr)
    BY <1>3 DEF AtHeader, UpTo, Intact
  <2>2. CASE host.sent = 0
    <3>1. ring = <<>> /\ owed' = 0
      BY <1>2, <1>3, <2>1, <2>2, EmptySeq
    <3> QED
      BY <1>1, <1>3, <3>1 DEF Between
  <2>3. CASE 0 < host.sent /\ host.sent < Hdr
    <3>1. Len(ring) = host.sent /\ ring # <<>>
      BY <1>3, <2>1, <2>3, EmptySeq
    <3>2. \A i \in 1 .. Len(ring) : i > Hdr => ring[i][2] # 1
      BY <1>3, <2>3, <3>1
    <3> QED
      BY <1>1, <1>2, <1>3, <2>3, <3>1, <3>2 DEF Astray
  <2>4. CASE host.sent >= Hdr
    <3>1. owed' = 1 /\ Len(ring) >= Hdr /\ Len(ring) < host'.sent
      BY <1>1, <1>2, <1>3, <2>1, <2>4
    <3> QED
      BY <1>1, <1>3, <3>1 DEF AtHeader, UpTo, Intact
  <2> QED
    BY <1>3, <2>2, <2>3, <2>4
<1>5. Between => Between'
  BY <1>1, <1>2, <1>3 DEF Between
<1>6. Astray => Astray'
  BY <1>1, <1>2, <1>3 DEF Astray
<1>7. InPayload => InPayload'
  <2> SUFFICES ASSUME InPayload PROVE InPayload'
    OBVIOUS
  <2>1. Hdr + Len(ring) <= host.sent
    BY DEF InPayload, UpTo
  <2>2. owed' = owed /\ Hdr + Len(ring) < host'.sent /\ Hdr + Len(ring) <= host'.sent
    BY <1>1, <1>2, <1>3, <2>1
  <2> QED
    <3>1. UpTo(Hdr)'
      <4>1. Hdr + Len(ring') <= host'.sent /\ Hdr + Len(ring') # host'.sent
        BY <1>1, <1>3, <2>2
      <4> QED
        BY <4>1 DEF UpTo, Intact
    <3>2. "torn" \notin seen'
      BY <1>2 DEF InPayload
    <3> QED
      BY <1>1, <2>2, <3>1, <3>2 DEF InPayload, Current
<1>8. InDrain => InDrain'
  <2> SUFFICES ASSUME InDrain PROVE InDrain'
    OBVIOUS
  <2>1. left <= host.payload /\ Length(host) - left + Len(ring) <= host.sent
    BY DEF InDrain
  <2>2. owed' = owed /\ Length(host) - left + Len(ring) <= host'.sent
    BY <1>1, <1>2, <1>3, <2>1
  <2> QED
    BY <1>1, <2>2 DEF InDrain
<1>9. InBlocks => InBlocks'
  <2> SUFFICES ASSUME InBlocks PROVE InBlocks'
    OBVIOUS
  <2> DEFINE from == Length(host) - Block * left
  <2>1. from \in Nat /\ from >= Hdr
    BY BlocksLeft DEF InBlocks
  <2>2. from + Len(ring) <= host.sent
    BY DEF InBlocks, UpTo
  <2>3. from' = from
    BY <1>1
  <2> HIDE DEF from
  <2>4. owed' = owed /\ from + Len(ring) < host'.sent /\ from + Len(ring) <= host'.sent
    BY <1>1, <1>2, <1>3, <2>1, <2>2
  <2>5. owed' = owed /\ cur' = Current' /\ left' <= host'.raw
    BY <1>1, <2>4 DEF InBlocks, Current
  <2>6. UpTo(Length(host) - Block * left)' /\ ~Intact(Length(host) - Block * left)'
    <3>1. Length(host') - Block * left' = from
      BY <1>1 DEF from
    <3>2. from + Len(ring') <= host'.sent /\ from + Len(ring') # host'.sent
      BY <1>1, <1>3, <2>1, <2>4
    <3> QED
      BY <3>1, <3>2 DEF UpTo, Intact
  <2> QED
    BY <2>5, <2>6 DEF InBlocks
<1>10. InQuiet => InQuiet'
  BY <1>1, <1>2, <1>3 DEF InQuiet
<1>11. Misled => Misled'
  BY <1>1, <1>2, <1>3 DEF Misled
<1>12. /\ "phantom" \in seen' <=> "phantom" \in seen
       /\ "corrupt" \in seen' <=> "corrupt" \in seen
  BY <1>2
<1> QED
  BY <1>1, <1>4, <1>5, <1>6, <1>7, <1>8, <1>9, <1>10, <1>11, <1>12 DEF Framed

LEMMA UartFramed ==
  ASSUME Types, Framed, NEW n \in Nat, n >= 1, UartCallback(n)
  PROVE  Framed'
<1>1. /\ host'.id = host.id /\ host'.payload = host.payload /\ host'.raw = host.raw
      /\ host'.sent = host.sent + n /\ Length(host') = Length(host)
      /\ host.sent < Length(host) /\ ~host.stalled
      /\ UNCHANGED <<owed, pc, cur, need, left, seen>>
  <2>1. host.sent + n <= Length(host) /\ ~host.stalled
        /\ UNCHANGED <<owed, pc, cur, need, left, seen>>
    BY DEF UartCallback, parser
  <2>2. host.sent \in Nat /\ Length(host) \in Nat
    BY RingFacts
  <2>3. host.sent < Length(host)
    BY <2>1, <2>2
  <2> QED
    BY <2>1, <2>3, UartTypes
<1>2. PICK k \in 0 .. n :
           /\ k = n \/ Len(ring') = RingSize
           /\ Len(ring) < RingSize => k >= 1
           /\ ring' \in Seq(Byte) /\ Len(ring') = Len(ring) + k
           /\ \A i \in 1 .. Len(ring) : ring'[i] = ring[i]
           /\ \A i \in 1 .. k : ring'[Len(ring) + i] = <<host.id, host.sent + i>>
  BY StoredProperties
<1>3. /\ Len(ring) \in Nat /\ Hdr \in Nat /\ Hdr >= 1 /\ host.sent \in Nat
      /\ Length(host) \in Nat /\ Length(host) >= Hdr /\ ring \in Seq(Byte)
      /\ RingSize \in Nat /\ RingSize >= Hdr
  BY RingFacts
(* Each slot holds what it held, or the byte that comes next.                *)
<1>4. \A i \in 1 .. Len(ring') :
        IF i <= Len(ring) THEN i \in 1 .. Len(ring) /\ ring'[i] = ring[i]
        ELSE i - Len(ring) \in 1 .. k /\ ring'[i] = <<host.id, host.sent + (i - Len(ring))>>
  <2> SUFFICES ASSUME NEW i \in 1 .. Len(ring')
               PROVE  IF i <= Len(ring) THEN i \in 1 .. Len(ring) /\ ring'[i] = ring[i]
                      ELSE /\ i - Len(ring) \in 1 .. k
                           /\ ring'[i] = <<host.id, host.sent + (i - Len(ring))>>
    OBVIOUS
  <2>1. CASE i <= Len(ring)
    BY <1>2, <1>3, <2>1
  <2>2. CASE i > Len(ring)
    <3>1. i - Len(ring) \in 1 .. k /\ Len(ring) + (i - Len(ring)) = i
      BY <1>2, <1>3, <2>2
    <3>2. ring'[Len(ring) + (i - Len(ring))] = <<host.id, host.sent + (i - Len(ring))>>
      BY <1>2, <3>1
    <3>3. ~(i <= Len(ring))
      BY <1>3, <2>2
    <3> QED
      BY <3>1, <3>2, <3>3
  <2> QED
    BY <1>2, <1>3, <2>1, <2>2
<1>5. host.sent > 0 /\ (\A i \in 1 .. Len(ring) : ring[i][2] # 1) =>
        \A i \in 1 .. Len(ring') : ring'[i][2] # 1
  BY <1>3, <1>4
<1>6. Misled => Misled'
  BY <1>1, <1>3, <1>5 DEF Misled
<1>7. AtHeader => AtHeader'
  <2> SUFFICES ASSUME AtHeader PROVE AtHeader'
    OBVIOUS
  <2>1. UpTo(0)'
    BY <1>1, UartUpTo DEF AtHeader, UpTo, Intact
  <2>2. Intact(0)' \/ Len(ring') >= Hdr
    BY <1>1, <1>2, <1>3 DEF AtHeader, Intact
  <2>3. \A i \in 1 .. Len(ring') : i <= Hdr => ring'[i] = <<host'.id, i>>
    <3> SUFFICES ASSUME NEW i \in 1 .. Len(ring'), i <= Hdr
                 PROVE  ring'[i] = <<host.id, i>>
      BY <1>1
    <3>1. CASE i <= Len(ring)
      BY <1>4, <3>1 DEF AtHeader
    <3>2. CASE i > Len(ring)
      <4>1. Len(ring) = host.sent
        BY <1>3, <3>2 DEF AtHeader, Intact
      <4>2. ring'[i] = <<host.id, host.sent + (i - Len(ring))>>
        BY <1>3, <1>4, <3>2
      <4> QED
        BY <1>3, <4>1, <4>2
    <3> QED
      BY <1>3, <3>1, <3>2
  <2> QED
    BY <1>1, <2>1, <2>2, <2>3 DEF AtHeader
<1>8. Between => Astray'
  <2> SUFFICES ASSUME Between PROVE Astray'
    OBVIOUS
  <2>1. "cut" \in seen /\ Len(ring) = 0 /\ host.sent >= Hdr /\ k >= 1
    BY <1>1, <1>2, <1>3, EmptySeq DEF Between, Silence
  <2>2. Len(ring') = k /\ ring'[1] = <<host.id, host.sent + 1>> /\ ring' # <<>>
    BY <1>2, <2>1, EmptySeq
  <2>3. \A i \in 1 .. Len(ring') : ring'[i][2] # 1
    BY <1>3, <1>5, <2>1
  <2>4. 1 \in 1 .. Len(ring') /\ 1 <= Hdr /\ ring'[1][2] # 1
    BY <1>3, <2>1, <2>2, <2>3
  <2> QED
    BY <1>1, <1>3, <2>1, <2>2, <2>3, <2>4 DEF Astray
<1>9. Astray => Astray'
  <2> SUFFICES ASSUME Astray PROVE Astray'
    OBVIOUS
  <2>1. ring' # <<>> /\ Len(ring) >= 1 /\ Len(ring') >= Len(ring)
    BY <1>2, <1>3, EmptySeq DEF Astray
  <2>2. \A i \in 1 .. Len(ring') : i > Hdr => ring'[i][2] # 1
    <3>1. CASE host.sent = 0
      <4> SUFFICES ASSUME NEW i \in 1 .. Len(ring'), i > Hdr PROVE ring'[i][2] # 1
        OBVIOUS
      <4>1. Len(ring) < Hdr
        BY <3>1 DEF Astray
      <4>2. ~(i <= Len(ring))
        BY <1>3, <4>1
      <4>3. ring'[i][2] = host.sent + (i - Len(ring)) /\ i - Len(ring) \in 1 .. k
        BY <1>4, <4>2
      <4>4. i - Len(ring) > 1
        BY <1>3, <4>1
      <4> QED
        BY <3>1, <4>3, <4>4
    <3>2. CASE host.sent > 0
      <4> SUFFICES ASSUME NEW i \in 1 .. Len(ring'), i > Hdr PROVE ring'[i][2] # 1
        OBVIOUS
      <4>1. CASE i <= Len(ring)
        <5>1. ring'[i] = ring[i] /\ i \in 1 .. Len(ring)
          BY <1>4, <4>1
        <5> QED
          BY <5>1 DEF Astray
      <4>2. CASE ~(i <= Len(ring))
        <5>1. ring'[i][2] = host.sent + (i - Len(ring)) /\ i - Len(ring) \in 1 .. k
          BY <1>4, <4>2
        <5> QED
          BY <1>3, <3>2, <5>1
      <4> QED
        BY <4>1, <4>2
    <3> QED
      BY <1>3, <3>1, <3>2
  <2>3. \E i \in 1 .. Len(ring') : i <= Hdr /\ ring'[i][2] # i
    <3>1. CASE \E i \in 1 .. Len(ring) : i <= Hdr /\ ring[i][2] # i
      BY <1>2, <1>3, <2>1, <3>1
    <3>2. CASE Len(ring) < Hdr /\ host.sent # Len(ring)
      <4>1. k >= 1 /\ Len(ring) + 1 \in 1 .. Len(ring') /\ Len(ring) + 1 <= Hdr
        BY <1>2, <1>3, <3>2
      <4>2. ring'[Len(ring) + 1] = <<host.id, host.sent + 1>>
        BY <1>2, <4>1
      <4>3. host.sent + 1 # Len(ring) + 1
        BY <1>3, <3>2
      <4> QED
        BY <4>1, <4>2, <4>3
    <3>3. host.sent # Length(host)
      BY <1>1, <1>3
    <3> QED
      BY <3>1, <3>2, <3>3 DEF Astray
  <2> QED
    BY <1>1, <1>3, <2>1, <2>2, <2>3 DEF Astray
<1>10. InPayload => InPayload'
  <2> SUFFICES ASSUME InPayload PROVE InPayload'
    OBVIOUS
  <2>1. UpTo(Hdr)'
    BY <1>1, <1>3, UartUpTo DEF InPayload, UpTo, Intact
  <2> QED
    BY <1>1, <2>1 DEF InPayload, Current
<1>11. InDrain => InDrain'
  <2> SUFFICES ASSUME InDrain PROVE InDrain'
    OBVIOUS
  <2>1. Length(host) - left + Len(ring) <= host.sent /\ left \in Nat
    BY RingFacts DEF InDrain
  <2>2. Len(ring') = Len(ring) + k
    BY <1>2
  <2>3. Length(host) - left + Len(ring') <= host.sent + n
    BY <1>3, <2>1, <2>2
  <2> QED
    BY <1>1, <2>3 DEF InDrain
<1>12. InBlocks => InBlocks'
  <2> SUFFICES ASSUME InBlocks PROVE InBlocks'
    OBVIOUS
  <2> DEFINE from == Length(host) - Block * left
  <2>1. from \in Nat /\ UpTo(from) /\ ("torn" \in seen => ~Intact(from))
    BY BlocksLeft DEF InBlocks
  <2> HIDE DEF from
  <2>2. /\ from + Len(ring') <= host.sent + n
        /\ from + Len(ring') = host.sent + n =>
             ring' = Bytes(host.id, from, host.sent + n) /\ Intact(from)
    BY <2>1, UartUpTo
  <2>3. UpTo(Length(host) - Block * left)'
        /\ ("torn" \in seen' => ~Intact(Length(host) - Block * left)')
    BY <1>1, <2>1, <2>2 DEF UpTo, Intact, from
  <2> QED
    BY <1>1, <2>3 DEF InBlocks, Current
<1>13. InQuiet => InQuiet'
  BY <1>1, <1>3 DEF InQuiet
<1> QED
  BY <1>1, <1>6, <1>7, <1>8, <1>9, <1>10, <1>11, <1>12, <1>13 DEF Framed

(***************************************************************************)
(* The steps of the parser.                                                *)
(***************************************************************************)

(* The message has been answered and the ring is empty.                      *)
LEMMA AnsweredFramed ==
  ASSUME Types, Framed, UNCHANGED host, "phantom" \notin seen,
         seen' \subseteq seen \union {"torn"},
         owed' = 0, ring' = <<>>, pc' = "poll", host.sent >= Hdr,
         Silence \/ "cut" \in seen, "cut" \in seen => "cut" \in seen'
  PROVE  Framed'
<1>1. Between'
  BY DEF Between, Silence, Length
<1>2. "phantom" \notin seen' /\ "corrupt" \notin seen'
  BY DEF Framed
<1> QED
  BY <1>1, <1>2 DEF Framed

(* A misled parser takes what it finds for plain commands.                   *)
LEMMA MisledRest ==
  ASSUME Types, Misled, NEW n \in 0 .. Len(ring), ring' = Rest(n) \/ ring' = <<>>,
         UNCHANGED host, cur'.raw = 0, pc' \in {"poll", "payload", "drain"},
         "cut" \in seen'
  PROVE  Misled'
<1>1. Len(ring) \in Nat /\ ring \in Seq(Byte) /\ n \in Nat
  BY RingFacts
<1>2. \A i \in 1 .. Len(ring') : ring'[i][2] # 1
  <2>1. CASE ring' = <<>>
    BY <2>1, EmptySeq
  <2>2. CASE ring' = Rest(n)
    <3>1. /\ Len(ring') = Len(ring) - n
          /\ \A i \in 1 .. (Len(ring) - n) : ring'[i] = ring[n + i]
      BY <1>1, <2>2, RestProperties
    <3>2. ASSUME NEW i \in 1 .. Len(ring') PROVE ring'[i][2] # 1
      <4>1. n + i \in 1 .. Len(ring) /\ i \in 1 .. (Len(ring) - n)
        BY <1>1, <3>1
      <4> QED
        BY <3>1, <4>1 DEF Misled
    <3> QED
      BY <3>2
  <2> QED
    BY <2>1, <2>2
<1> QED
  BY <1>2 DEF Misled

(* Behind a header that is no header, no first byte of a message is left.    *)
LEMMA AstrayRest ==
  ASSUME Types, Astray, Len(ring) >= Hdr, ring' = Rest(Hdr),
         UNCHANGED host, cur'.raw = 0, pc' \in {"poll", "payload", "drain"},
         "cut" \in seen'
  PROVE  Misled'
<1>1. Len(ring) \in Nat /\ ring \in Seq(Byte) /\ Hdr \in Nat /\ Hdr >= 1 /\ host.sent \in Nat
  BY RingFacts
<1>2. /\ Len(ring') = Len(ring) - Hdr
      /\ \A i \in 1 .. (Len(ring) - Hdr) : ring'[i] = ring[Hdr + i]
  <2>1. Hdr \in 0 .. Len(ring)
    BY <1>1
  <2> QED
    BY <1>1, <2>1, RestProperties
<1>3. ASSUME NEW i \in 1 .. Len(ring') PROVE ring'[i][2] # 1
  <2>1. Hdr + i \in 1 .. Len(ring) /\ i \in 1 .. (Len(ring) - Hdr) /\ Hdr + i > Hdr
    BY <1>1, <1>2
  <2> QED
    BY <1>2, <2>1 DEF Astray
<1>4. host'.sent > 0
  BY <1>1 DEF Astray
<1> QED
  BY <1>3, <1>4 DEF Misled

(* The first bytes of the ring are a header exactly when each is in its slot *)
(* and they are of one message.                                              *)
LEMMA HeaderBytes ==
  ASSUME Types, Len(ring) >= Hdr
  PROVE  LET first == SubSeq(ring, 1, Hdr)
         IN  /\ IsHeader(first) => \A i \in 1 .. Hdr : ring[i][2] = i
             /\ (\A i \in 1 .. Hdr : ring[i] = <<host.id, i>>) => IsHeader(first)
<1> DEFINE first == SubSeq(ring, 1, Hdr)
<1>1. /\ Len(ring) \in Nat /\ ring \in Seq(Byte) /\ Hdr \in Nat /\ Hdr >= 1
      /\ host.id \in Nat
  BY RingFacts
<1>2. \A i \in 1 .. Hdr : ring[i] \in Byte
  BY <1>1, ElementOfSeq
<1>3. /\ first \in Seq(Byte) /\ Len(first) = Hdr
      /\ \A i \in 1 .. Hdr : first[i] = ring[i]
  <2>1. /\ first \in Seq(Byte)
        /\ Len(first) = IF 1 <= Hdr THEN Hdr - 1 + 1 ELSE 0
        /\ \A i \in 1 .. (Hdr - 1 + 1) : first[i] = ring[1 + i - 1]
    BY <1>1, <1>2, SubSeqProperties
  <2> QED
    BY <1>1, <2>1
<1> HIDE DEF first
<1>4. ASSUME IsHeader(first) PROVE \A i \in 1 .. Hdr : ring[i][2] = i
  <2> DEFINE id == first[1][1]
  <2>1. id \in Nat
    BY <1>1, <1>2, <1>3 DEF Byte
  <2>2. first = Bytes(id, 0, Hdr)
    BY <1>4 DEF IsHeader
  <2> HIDE DEF id
  <2>3. \A i \in 1 .. (Hdr - 0) : Bytes(id, 0, Hdr)[i] = <<id, 0 + i>>
    <3>1. 0 \in Nat /\ Hdr \in Nat /\ 0 <= Hdr
      BY <1>1
    <3> QED
      BY <2>1, <3>1, BytesProperties
  <2> QED
    BY <1>1, <1>3, <2>2, <2>3
<1>5. ASSUME \A i \in 1 .. Hdr : ring[i] = <<host.id, i>> PROVE IsHeader(first)
  <2>1. first[1][1] = host.id
    BY <1>1, <1>3, <1>5
  <2>2. first = Bytes(host.id, 0, Hdr)
    <3>1. Len(first) = Hdr - 0 /\ \A i \in 1 .. Len(first) : first[i] = <<host.id, 0 + i>>
      <4>1. Len(first) = Hdr /\ Hdr - 0 = Hdr /\ \A i \in 1 .. Hdr : 0 + i = i
        BY <1>1, <1>3
      <4>2. \A i \in 1 .. Hdr : first[i] = <<host.id, i>>
        BY <1>3, <1>5
      <4> QED
        BY <4>1, <4>2
    <3>2. 0 \in Nat /\ 0 <= Hdr
      BY <1>1
    <3> QED
      BY <1>1, <1>3, <3>1, <3>2, BytesEqual
  <2> QED
    BY <2>1, <2>2 DEF IsHeader
<1> QED
  BY <1>4, <1>5 DEF first

LEMMA PollHeaderFramed ==
  ASSUME Types, Framed, NEW c, PollHeader(c)
  PROVE  Framed'
<1> DEFINE true == IsHeader(SubSeq(ring, 1, Hdr))
<1>1. /\ Len(ring) \in Nat /\ Hdr \in Nat /\ Hdr >= 1 /\ Hdr \in 0 .. Len(ring)
      /\ host.sent \in Nat /\ Len(ring) >= Hdr /\ pc = "poll"
      /\ UNCHANGED <<host, owed>> /\ ring' = Rest(Hdr) /\ cur' = c
  BY RingFacts DEF PollHeader
<1>2. /\ c \in Announced(SubSeq(ring, 1, Hdr))
      /\ seen' = (seen \ {"torn"}) \union (IF true THEN {} ELSE {"phantom"})
      /\ pc' \in {"payload", "drain"}
  BY DEF PollHeader
<1>3. "corrupt" \notin seen' /\ (host'.raw > 0 => host'.payload = Count)
  BY <1>1, <1>2 DEF Framed
<1>4. CASE Misled
  <2>1. 1 \in 1 .. Hdr /\ 1 \in 1 .. Len(ring) /\ ring[1][2] # 1
    BY <1>1, <1>4 DEF Misled
  <2>2. ~true
    BY <1>1, <2>1, HeaderBytes
  <2>3. cur'.raw = 0
    BY <1>1, <1>2, <2>2 DEF Announced
  <2>4. Misled' /\ "phantom" \in seen'
    BY <1>1, <1>2, <1>4, <2>2, <2>3, MisledRest DEF Misled
  <2> QED
    BY <1>3, <2>4 DEF Framed
<1>5. CASE Astray
  <2>1. \E i \in 1 .. Hdr : ring[i][2] # i
    BY <1>1, <1>5 DEF Astray
  <2>2. ~true
    BY <1>1, <2>1, HeaderBytes
  <2>3. cur'.raw = 0
    BY <1>1, <1>2, <2>2 DEF Announced
  <2>4. "cut" \in seen'
    BY <1>2, <1>5 DEF Astray
  <2>5. Misled' /\ "phantom" \in seen'
    BY <1>1, <1>2, <1>5, <2>2, <2>3, <2>4, AstrayRest
  <2> QED
    BY <1>3, <2>5 DEF Framed
<1>6. CASE AtHeader /\ "phantom" \notin seen
  <2>1. true
    <3>1. \A i \in 1 .. Hdr : ring[i] = <<host.id, i>>
      BY <1>1, <1>6 DEF AtHeader
    <3> QED
      BY <1>1, <3>1, HeaderBytes
  <2>2. cur' = Current /\ c = Current
    BY <1>1, <1>2, <2>1 DEF Announced, Current
  <2>3. /\ Hdr + Len(ring') <= host'.sent
        /\ Hdr + Len(ring') = host'.sent => ring' = Bytes(host'.id, Hdr, host'.sent)
    <3>1. /\ 0 + Hdr + Len(ring') <= host'.sent
          /\ 0 + Hdr + Len(ring') = host'.sent =>
               Intact(0) /\ ring' = Bytes(host'.id, 0 + Hdr, host'.sent)
      BY <1>1, <1>6, TakeUpTo DEF AtHeader
    <3>2. 0 + Hdr = Hdr
      BY <1>1
    <3> QED
      BY <3>1, <3>2
  <2>4. UpTo(Hdr)' /\ owed' = 1 /\ "torn" \notin seen' /\ "phantom" \notin seen'
    BY <1>1, <1>2, <1>6, <2>1, <2>3 DEF UpTo, Intact, AtHeader
  <2>5. CASE host.payload > MaxPayload
    <3>1. pc' = "drain" /\ left' = host.payload /\ need' = 1
      BY <2>2, <2>5 DEF PollHeader, Current
    <3>2. host.raw = 0 /\ Length(host) = Hdr + host.payload
      <4>1. host.payload # Count
        BY <2>5, FramingAssumption, RingFacts DEF Count
      <4>2. host.raw = 0
        BY <4>1, RingFacts DEF Framed
      <4>3. Hdr + host.payload + Block * 0 = Hdr + host.payload
        BY FramingAssumption, RingFacts
      <4> QED
        BY <4>2, <4>3 DEF Length
    <3>3. Len(ring') \in Nat /\ host.payload \in Nat
      BY <1>1, RestTypes, RingFacts
    <3>4. Length(host') - left' + Len(ring') <= host'.sent
      BY <1>1, <2>3, <3>1, <3>2, <3>3
    <3>5. InDrain'
      BY <1>1, <2>4, <3>1, <3>2, <3>3, <3>4 DEF InDrain
    <3> QED
      BY <1>3, <2>4, <3>1, <3>5 DEF Framed
  <2>6. CASE ~(host.payload > MaxPayload)
    <3>1. pc' = "payload" /\ need' = host.payload
      BY <2>2, <2>6 DEF PollHeader, Current
    <3>2. host.payload <= MaxPayload
      BY <2>6, FramingAssumption, RingFacts
    <3>3. InPayload'
      BY <1>1, <2>2, <2>4, <3>1, <3>2 DEF InPayload, Current
    <3> QED
      BY <1>3, <2>4, <3>1, <3>3 DEF Framed
  <2> QED
    BY <2>5, <2>6
<1>7. ~Between
  BY <1>1, EmptySeq DEF Between
<1> QED
  BY <1>1, <1>4, <1>5, <1>6, <1>7 DEF Framed

LEMMA DrainFramed == Types /\ Framed /\ Drain => Framed'
<1> SUFFICES ASSUME Types, Framed, Drain PROVE Framed'
  OBVIOUS
<1>1. /\ Len(ring) \in Nat /\ left \in Nat /\ need \in Nat /\ owed \in Int
      /\ host.sent \in Nat /\ Length(host) \in Nat /\ host.payload \in Nat
      /\ Hdr \in Nat /\ Length(host) >= Hdr + host.payload
      /\ host.sent <= Length(host)
  BY RingFacts
<1>2. pc = "drain" /\ UNCHANGED <<host, cur, seen>>
  BY DEF Drain
<1>3. CASE left > 0 /\ Len(ring) >= need
  <2>1. ring' = Rest(need) /\ left' = left - 1 /\ UNCHANGED <<owed, pc, need>>
        /\ need \in 0 .. Len(ring)
    BY <1>1, <1>3 DEF Drain
  <2>2. Misled => Misled'
    BY <1>2, <2>1, MisledRest DEF Misled
  <2>3. ASSUME InDrain PROVE InDrain'
    <3>1. Len(ring') = Len(ring) - 1
      BY <2>1, <2>3, RestTypes DEF InDrain
    <3>2. Length(host) - left + Len(ring) <= host.sent /\ left <= host.payload
      BY <2>3 DEF InDrain
    <3>3. Length(host) - (left - 1) + Len(ring') <= host.sent /\ left - 1 <= host.payload
      BY <1>1, <3>1, <3>2
    <3> QED
      BY <1>2, <2>1, <2>3, <3>3 DEF InDrain, Length
  <2> QED
    BY <1>2, <2>1, <2>2, <2>3 DEF Framed
<1>4. CASE ~(left > 0 /\ Len(ring) >= need)
  <2>1. ring' = <<>> /\ pc' = "poll" /\ owed' = owed - 1 /\ (left = 0 \/ Silence)
    BY <1>1, <1>4 DEF Drain, Answer
  <2>2. CASE "phantom" \in seen
    <3>1. Misled'
      BY <1>1, <1>2, <2>1, <2>2, MisledRest DEF Misled, Framed
    <3> QED
      BY <1>2, <2>2, <3>1 DEF Framed
  <2>3. CASE "phantom" \notin seen
    <3>1. InDrain
      BY <1>2, <2>3 DEF Framed
    <3>2. owed' = 0 /\ host.sent >= Hdr /\ (left = 0 => host.sent = Length(host))
      BY <1>1, <2>1, <3>1 DEF InDrain
    <3>3. Silence
      BY <2>1, <3>2 DEF Silence
    <3> QED
      BY <1>2, <2>1, <2>3, <3>2, <3>3, AnsweredFramed
  <2> QED
    BY <2>2, <2>3
<1> QED
  BY <1>3, <1>4

LEMMA PayloadTimeoutFramed == Types /\ Framed /\ PayloadTimeout => Framed'
<1> SUFFICES ASSUME Types, Framed, PayloadTimeout PROVE Framed'
  OBVIOUS
<1>1. /\ pc = "payload" /\ UNCHANGED <<host, cur, seen>> /\ Silence
      /\ ring' = <<>> /\ pc' = "poll" /\ owed' = owed - 1
  BY DEF PayloadTimeout, GivenUp, AfterTimeout, Answer
<1>2. CASE "phantom" \in seen
  <2>1. 0 \in 0 .. Len(ring)
    BY RingFacts
  <2>2. Misled'
    BY <1>1, <1>2, <2>1, MisledRest DEF Misled, Framed
  <2> QED
    BY <1>1, <1>2, <2>2 DEF Framed
<1>3. CASE "phantom" \notin seen
  <2>1. owed' = 0 /\ Hdr + Len(ring) <= host.sent
    BY <1>1, <1>3 DEF Framed, InPayload, UpTo
  <2>2. host.sent >= Hdr
    BY <2>1, RingFacts
  <2> QED
    BY <1>1, <1>3, <2>1, <2>2, AnsweredFramed
<1> QED
  BY <1>2, <1>3

LEMMA DispatchFramed == Patient /\ Types /\ Framed /\ Dispatch => Framed'
<1> SUFFICES ASSUME Patient, Types, Framed, Dispatch PROVE Framed'
  OBVIOUS
<1>1. /\ pc = "payload" /\ UNCHANGED <<host, cur, seen>> /\ ring' = Rest(need)
      /\ Len(ring) >= need
  BY DEF Dispatch
<1>2. /\ Len(ring) \in Nat /\ need \in 0 .. Len(ring) /\ need \in Nat
      /\ host.sent \in Nat /\ Hdr \in Nat /\ Hdr >= 1 /\ host.sent <= Length(host)
      /\ host.payload \in Nat /\ host.raw \in Nat /\ Length(host) \in Nat
      /\ cur.raw \in Nat
  BY <1>1, RingFacts DEF Types
<1>3. CASE "phantom" \in seen
  <2>1. Misled /\ cur.raw = 0
    BY <1>3 DEF Framed, Misled
  <2>2. pc' = "poll"
    BY <2>1 DEF Dispatch
  <2>3. Misled'
    BY <1>1, <1>2, <2>1, <2>2, MisledRest DEF Misled
  <2> QED
    BY <1>1, <1>3, <2>3 DEF Framed
<1>4. CASE "phantom" \notin seen
  <2>1. InPayload
    BY <1>1, <1>4 DEF Framed
  <2>2. /\ cur.raw = host.raw /\ need = host.payload /\ owed = 1 /\ "torn" \notin seen
        /\ UpTo(Hdr) /\ Hdr + Len(ring) <= host.sent
    BY <2>1 DEF InPayload, Current, UpTo
  <2>3. /\ Len(ring') = Len(ring) - need
        /\ Hdr + need + Len(ring') <= host'.sent
        /\ Hdr + need + Len(ring') = host'.sent =>
             Intact(Hdr) /\ ring' = Bytes(host'.id, Hdr + need, host'.sent)
    BY <1>1, <1>2, <2>2, TakeUpTo
  <2>4. CASE host.raw > 0
    <3>1. pc' = "blocks" /\ need' = Block /\ left' = host.raw /\ owed' = 1
      BY <2>2, <2>4 DEF Dispatch, Patient
    <3>2. Length(host) - Block * host.raw = Hdr + need
      <4>1. Block * host.raw \in Nat
        BY <1>2, FramingAssumption
      <4> QED
        BY <1>2, <2>2, <4>1 DEF Length
    <3>3. Length(host') - Block * left' = Hdr + need
      BY <1>1, <3>1, <3>2
    <3>4. UpTo(Length(host) - Block * left)'
      BY <2>3, <3>3 DEF UpTo, Intact
    <3>5. cur' = Current' /\ left' <= host'.raw /\ "torn" \notin seen'
      BY <1>1, <1>2, <2>1, <2>2, <3>1 DEF InPayload, Current
    <3>6. InBlocks'
      BY <3>1, <3>4, <3>5 DEF InBlocks
    <3> QED
      BY <1>1, <1>4, <3>1, <3>6 DEF Framed
  <2>5. CASE host.raw = 0
    <3>1. pc' = "poll" /\ owed' = 0
      BY <2>2, <2>5 DEF Dispatch, Answer
    <3>2. Length(host) = Hdr + need
      <4>1. Length(host) = Hdr + host.payload + Block * 0 /\ Block * 0 = 0
        BY <2>5, FramingAssumption DEF Length
      <4> QED
        BY <1>2, <2>2, <4>1
    <3>3. Len(ring) = need /\ host.sent = Length(host) /\ host.sent >= Hdr
      BY <1>1, <1>2, <2>2, <3>2
    <3>4. ring' = <<>>
      <4>1. Len(ring') = 0 /\ ring' \in Seq(Byte)
        BY <1>1, <1>2, <2>3, <3>3, RestTypes
      <4> QED
        BY <4>1, EmptySeq
    <3> QED
      BY <1>1, <1>4, <3>1, <3>3, <3>4, AnsweredFramed DEF Silence
  <2> QED
    BY <1>2, <2>4, <2>5
<1> QED
  BY <1>3, <1>4

(* A block of a batch: the next one, or one that comes after a loss; and     *)
(* after a loss the last block does not fill.                                *)
LEMMA BatchBlockFramed == Types /\ Framed /\ BatchBlock => Framed'
<1> SUFFICES ASSUME Types, Framed, BatchBlock PROVE Framed'
  OBVIOUS
<1> DEFINE from == Length(host) - Block * left
<1>1. /\ pc = "blocks" /\ UNCHANGED <<host, cur, need>> /\ ring' = Rest(need)
      /\ left' = left - 1 /\ Len(ring) >= need /\ need = Block /\ left >= 1
  BY DEF BatchBlock, BlockCame, Types
<1>2. /\ Len(ring) \in Nat /\ Block \in 0 .. Len(ring) /\ Block \in Nat /\ Block >= 1
      /\ host.sent \in Nat /\ Hdr \in Nat /\ left \in Nat /\ host.id \in Nat
      /\ host.sent <= Length(host) /\ Length(host) \in Nat /\ ring \in Seq(Byte)
  BY <1>1, FramingAssumption, RingFacts
<1>3. "phantom" \notin seen /\ InBlocks /\ "corrupt" \notin seen
  BY <1>1 DEF Framed, Misled
<1>4. /\ from \in Nat /\ from >= Hdr /\ UpTo(from)
      /\ "torn" \in seen => ~Intact(from)
      /\ Due = Bytes(host.id, from, from + Block)
      /\ Length(host) - Block * (left - 1) = from + Block
  <2>1. /\ from \in Nat /\ from >= Hdr
        /\ from = Hdr + host.payload + Block * (host.raw - left)
        /\ Length(host) - Block * (left - 1) = from + Block
    BY <1>1, <1>3, BlocksLeft DEF InBlocks
  <2>2. Due = Bytes(host.id, from, from + Block)
    BY <1>3, <2>1 DEF Due, InBlocks, Current
  <2> QED
    BY <1>3, <2>1, <2>2 DEF InBlocks
<1> HIDE DEF from
<1>5. /\ Len(ring') = Len(ring) - Block
      /\ from + Block + Len(ring') <= host'.sent
      /\ from + Block + Len(ring') = host'.sent =>
           Intact(from) /\ ring' = Bytes(host'.id, from + Block, host'.sent)
  BY <1>1, <1>2, <1>4, TakeUpTo
(* Unless something was lost the block is the one that was due.              *)
<1>6. Intact(from) => Taken = Due
  <2> SUFFICES ASSUME Intact(from) PROVE Taken = Due
    OBVIOUS
  <2>1. ring = Bytes(host.id, from, host.sent) /\ from <= host.sent
        /\ host.sent - from = Len(ring)
    BY <1>2, <1>4 DEF UpTo, Intact
  <2>2. \A i \in 1 .. (host.sent - from) :
          Bytes(host.id, from, host.sent)[i] = <<host.id, from + i>>
    BY <1>2, <1>4, <2>1, BytesProperties
  <2>3. \A i \in 1 .. Len(ring) : ring[i] = <<host.id, from + i>>
    BY <2>1, <2>2
  <2>4. Taken = SubSeq(ring, 1, Block)
    BY <1>1 DEF Taken
  <2>5. /\ Taken \in Seq(Byte)
        /\ Len(Taken) = IF 1 <= Block THEN Block - 1 + 1 ELSE 0
        /\ \A i \in 1 .. (Block - 1 + 1) : Taken[i] = ring[1 + i - 1]
    <3>1. \A i \in 1 .. Block : ring[i] \in Byte
      BY <1>2, ElementOfSeq
    <3> QED
      BY <1>2, <2>4, <3>1, SubSeqProperties
  <2> DEFINE to == from + Block
  <2>6. /\ to \in Nat /\ from <= to /\ Len(Taken) = to - from
        /\ \A i \in 1 .. Len(Taken) : Taken[i] = <<host.id, from + i>>
    <3>1. to \in Nat /\ from <= to /\ Block = to - from
      BY <1>2, <1>4
    <3>2. Len(Taken) = Block
      BY <1>2, <2>5
    <3>3. ASSUME NEW i \in 1 .. Block PROVE Taken[i] = <<host.id, from + i>>
      <4>1. i \in 1 .. (Block - 1 + 1) /\ 1 + i - 1 = i /\ i \in 1 .. Len(ring)
        BY <1>2
      <4>2. Taken[i] = ring[i]
        BY <2>5, <4>1
      <4> QED
        BY <2>3, <4>1, <4>2
    <3> QED
      BY <3>1, <3>2, <3>3
  <2>7. Due = Bytes(host.id, from, to)
    BY <1>4
  <2> HIDE DEF to
  <2>8. Taken = Bytes(host.id, from, to)
    BY <1>2, <1>4, <2>5, <2>6, BytesEqual
  <2> QED
    BY <2>7, <2>8
<1>7. Intact(from) => Torn = seen /\ "torn" \notin seen
  BY <1>4, <1>6 DEF Torn
<1>8. "phantom" \notin Torn /\ "corrupt" \notin Torn /\ Torn \subseteq seen \union {"torn"}
      /\ ("cut" \in seen => "cut" \in Torn)
  BY <1>3 DEF Torn
<1>9. CASE left > 1
  <2>1. seen' = Torn /\ UNCHANGED <<owed, pc>>
    BY <1>9 DEF BatchBlock
  <2>2. Length(host') - Block * left' = from + Block
    BY <1>1, <1>4
  <2>3. UpTo(Length(host) - Block * left)'
    BY <1>5, <2>2 DEF UpTo, Intact
  <2>4. "torn" \in seen' => ~Intact(Length(host) - Block * left)'
    BY <1>5, <1>7, <2>1, <2>2 DEF Intact
  <2>5. owed' = 1 /\ cur' = Current' /\ left' <= host'.raw
    <3>1. owed = 1 /\ cur = Current /\ left <= host.raw
      BY <1>3 DEF InBlocks
    <3>2. cur' = cur /\ host' = host /\ owed' = owed
      BY <1>1, <2>1
    <3>3. Current' = Current
      BY <3>2 DEF Current
    <3>4. host.raw \in Nat /\ left' <= host.raw
      BY <1>1, <1>2, <3>1, RingFacts
    <3> QED
      BY <3>1, <3>2, <3>3, <3>4
  <2>6. InBlocks'
    BY <2>3, <2>4, <2>5 DEF InBlocks
  <2> QED
    BY <1>1, <1>3, <1>8, <2>1, <2>6 DEF Framed
<1>10. CASE left = 1
  <2>1. from + Block = Length(host) /\ from + Len(ring) <= host.sent
    BY <1>2, <1>4, <1>10 DEF UpTo
  <2>2. Len(ring) = Block /\ host.sent = Length(host) /\ Intact(from)
    <3>1. from + Len(ring) = host.sent /\ host.sent = Length(host) /\ Len(ring) = Block
      <4>1. from \in Nat /\ from + Block = Length(host) /\ Len(ring) >= Block
        BY <1>1, <1>4, <2>1
      <4>2. from + Len(ring) <= host.sent /\ host.sent <= Length(host)
        BY <1>2, <2>1
      <4> QED
        BY <1>2, <4>1, <4>2
    <3> QED
      BY <3>1 DEF Intact
  <2>3. seen' = seen /\ pc' = "poll" /\ owed' = 0
    BY <1>3, <1>7, <1>10, <2>2 DEF BatchBlock, Answer, InBlocks
  <2>4. ring' = <<>>
    <3>1. Len(ring') = 0 /\ ring' \in Seq(Byte)
      BY <1>1, <1>2, <1>5, <2>2, RestTypes
    <3> QED
      BY <3>1, EmptySeq
  <2>5. host.sent >= Hdr
    BY <1>2, <1>4, <2>1, <2>2
  <2> QED
    BY <1>1, <1>3, <2>2, <2>3, <2>4, <2>5, AnsweredFramed DEF Silence
<1> QED
  BY <1>1, <1>2, <1>9, <1>10

LEMMA BatchFailsFramed == Types /\ Framed /\ BatchFails => Framed'
<1> SUFFICES ASSUME Types, Framed, BatchFails PROVE Framed'
  OBVIOUS
<1>1. pc = "blocks" /\ pc' = "quiet" /\ owed' = owed - 1 /\ UNCHANGED <<host, seen>>
  BY DEF BatchFails, AfterFailure, Answer
<1>2. "phantom" \notin seen /\ InBlocks
  BY <1>1 DEF Framed, Misled
<1>3. owed' = 0 /\ host.sent >= Hdr
  <2> DEFINE from == Length(host) - Block * left
  <2>1. from \in Nat /\ from >= Hdr
    BY <1>2, BlocksLeft DEF InBlocks
  <2>2. from + Len(ring) <= host.sent /\ owed = 1
    BY <1>2 DEF InBlocks, UpTo
  <2> HIDE DEF from
  <2> QED
    BY <1>1, <2>1, <2>2, RingFacts
<1>4. InQuiet'
  BY <1>1, <1>3 DEF InQuiet
<1> QED
  BY <1>1, <1>2, <1>4 DEF Framed

LEMMA QuietFramed == Types /\ Framed /\ Quiet => Framed'
<1> SUFFICES ASSUME Types, Framed, Quiet PROVE Framed'
  OBVIOUS
<1>1. pc = "quiet" /\ UNCHANGED <<host, owed, seen>> /\ "phantom" \notin seen /\ InQuiet
  BY DEF Quiet, Framed, Misled
<1>2. CASE ring # <<>>
  <2>1. pc' = pc
    BY <1>2 DEF Quiet
  <2> QED
    BY <1>1, <2>1 DEF Framed, InQuiet
<1>3. CASE ring = <<>>
  <2>1. ring' = <<>> /\ pc' = "poll" /\ Silence
    BY <1>3 DEF Quiet
  <2> QED
    BY <1>1, <2>1, AnsweredFramed DEF InQuiet
<1> QED
  BY <1>2, <1>3

LEMMA StepFramed == Patient /\ Types /\ Framed /\ [Next]_vars => Framed'
<1> SUFFICES ASSUME Patient, Types, Framed, [Next]_vars PROVE Framed'
  OBVIOUS
<1>1. CASE Host
  <2>1. ASSUME NEW p \in Payloads, HostSend(p, 0) PROVE Framed'
    BY <2>1, HostSendFramed, FramingAssumption
  <2>2. ASSUME NEW n \in Counts, HostSend(Count, n) PROVE Framed'
    <3>1. n \in Nat /\ Count \in Nat
      BY FramingAssumption DEF Count
    <3> QED
      BY <2>2, <3>1, HostSendFramed
  <2> QED
    BY <1>1, <2>1, <2>2, HostStallsFramed, HostResumesFramed, HostDiesFramed DEF Host
<1>2. CASE Line
  <2>1. PICK n \in 1 .. Length(host) : UartCallback(n)
    BY <1>2 DEF Line
  <2>2. n \in Nat /\ n >= 1
    BY <2>1, RingFacts
  <2> QED
    BY <2>1, <2>2, UartFramed
<1>3. CASE Poll
  BY <1>3, PollHeaderFramed, DrainFramed, PayloadTimeoutFramed, DispatchFramed,
     BatchBlockFramed, BatchFailsFramed, QuietFramed
  DEF Poll
<1>4. CASE UNCHANGED vars
  BY <1>4 DEF vars, parser, Framed, Misled, AtHeader, Between, Astray, Silence,
              InPayload, InDrain, InBlocks, InQuiet, Current, UpTo, Intact, Length
<1> QED
  BY <1>1, <1>2, <1>3, <1>4 DEF Next

LEMMA FramedInvariance == ASSUME Patient PROVE Spec => []Framed
BY InitFramed, StepFramed, TypesInvariance, PTL DEF Spec

(* The parser takes for a header only what the host sent as one, for every   *)
(* size of the ring and every way the line, the card or the host fail,       *)
(* unless the host was cut off inside a message.                             *)
THEOREM HeadersTrue == ASSUME Patient PROVE Spec => []NoPhantom
<1>1. Framed => NoPhantom
  BY DEF Framed, Misled, NoPhantom
<1> QED
  BY <1>1, FramedInvariance, PTL

(* A batch answered OK is the one the host sent, byte for byte, although the *)
(* ring may be smaller than a batch and drops what it has no room for.       *)
THEOREM BatchesWhole == ASSUME Patient PROVE Spec => []BatchWhole
<1>1. Framed => BatchWhole
  BY DEF Framed, BatchWhole
<1> QED
  BY <1>1, FramedInvariance, PTL

(* Until the host is cut off each message has one answer at most, and none   *)
(* comes before its message.                                                 *)
THEOREM AnsweredOnce == ASSUME Patient PROVE Spec => []OneAnswer
<1>1. Types /\ Framed => OneAnswer
  <2> SUFFICES ASSUME Types, Framed PROVE OneAnswer
    OBVIOUS
  <2>1. pc \in {"poll", "payload", "drain", "blocks", "quiet"}
    BY DEF Types, TypeOK
  <2> QED
    BY <2>1 DEF Framed, Misled, AtHeader, Between, Astray, InPayload, InDrain,
                InBlocks, InQuiet, OneAnswer
<1> QED
  BY <1>1, FramedInvariance, TypesInvariance, PTL

=============================================================================
