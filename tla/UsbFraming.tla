------------------------------ MODULE UsbFraming ------------------------------
(***************************************************************************)
(* How commands come off the USB serial line (usb.c): the receive callback *)
(* uart_cb puts what arrives into the ring g_rx_rb, and on the main thread *)
(* usb_cdc_poll takes a header, then the payload it announces, and for     *)
(* SONG_MULTIBLOCK the raw blocks behind the payload.  Nothing on the line *)
(* marks where a command begins: the parser is in step with the host only  *)
(* as long as both count the same bytes.                                   *)
(*                                                                         *)
(* A byte is <<message, position>>.  The host (rome, external) sends one   *)
(* message, reads the answer, and sends the next.  What a command does is  *)
(* SongStore's subject; here it is answered.                               *)
(***************************************************************************)
EXTENDS Integers, Sequences

CONSTANTS
  Ids,        \* bound: messages are numbered modulo Ids
  Hdr,        \* bytes of a header: five
  MaxPayload, \* sizeof(s_block_buf): 512
  Block,      \* bytes of a raw block: 512
  RingSize,   \* bytes of g_rx_rb: 65536
  Payloads,   \* PAYLOAD_LEN of the plain commands the host sends
  Counts,     \* blocks of a SONG_MULTIBLOCK
  Faults      \* what goes wrong in this instance

Count == 1    \* the payload of SONG_MULTIBLOCK; two bytes, here one

ASSUME FramingAssumption ==
  /\ Ids \in Nat \ {0, 1} /\ Hdr \in Nat \ {0} /\ Block \in Nat \ {0}
  /\ RingSize \in Nat /\ RingSize >= Hdr + MaxPayload
  /\ MaxPayload \in Nat /\ MaxPayload >= Count /\ MaxPayload >= Block
  /\ Payloads \subseteq Nat /\ Counts \subseteq Nat \ {0}
  /\ Faults \subseteq {"card", "refuse", "late", "dies", "hasty"}

VARIABLES
  host,   \* the message the host is sending, or NoMessage
  owed,   \* messages sent less answers given
  ring,   \* g_rx_rb
  pc,     \* where usb_cdc_poll is
  cur,    \* the command whose header it took
  need,   \* bytes of the next usb_read_bytes
  left,   \* blocks of the batch, or bytes to drain, still to come
  seen    \* history: "cut", the host was cut off from a message (see HostDies
          \* and HostResumes); "phantom", other bytes were taken for a header;
          \* "torn", for a block of the batch; "corrupt", and it was answered OK

vars == <<host, owed, ring, pc, cur, need, left, seen>>
parser == <<pc, cur, need, left, seen>>

Message(id, payload, raw) ==
  [id |-> id, payload |-> payload, raw |-> raw, sent |-> 0, stalled |-> FALSE]
NoMessage == Message(0, 0, 0)
Length(m) == Hdr + m.payload + Block * m.raw
Sending == owed > 0 \/ host.sent < Length(host)
Idle == [NoMessage EXCEPT !.sent = Length(NoMessage)]
Bytes(id, from, to) == [i \in 1 .. (to - from) |-> <<id, from + i>>]

(***************************************************************************)
(* The host and the line.                                                  *)
(***************************************************************************)

\* rome sends the next command when the last one is answered; after an ERR, or
\* when it is started again, it lets the device finish (hasty, it does not).
\* Bound: nothing is sent once bytes have been misread.
Quiescent == pc = "poll" /\ Len(ring) < Hdr
HostSend(payload, raw) ==
  /\ ~Sending /\ "phantom" \notin seen
  /\ Quiescent \/ "hasty" \in Faults
  /\ host' = Message((host.id + 1) % Ids, payload, raw)
  /\ owed' = owed + 1
  /\ UNCHANGED <<ring, parser>>

\* uart_cb: what the ring has room for is claimed and stored; with the ring
\* full the FIFO is drained to nowhere, to keep USB flowing.
StoreAll(bytes) == bytes        \* mutant: the claim not bounded by the space
Stored(bytes) ==
  SubSeq(bytes, 1, IF Len(bytes) <= RingSize - Len(ring)
                     THEN Len(bytes) ELSE RingSize - Len(ring))
UartCallback(n) ==
  /\ host.sent + n <= Length(host) /\ ~host.stalled
  /\ ring' = ring \o Stored(Bytes(host.id, host.sent, host.sent + n))
  /\ host' = [host EXCEPT !.sent = @ + n]
  /\ UNCHANGED <<owed, parser>>

\* The host pauses inside a message, for longer than the device waits.
HostStalls ==
  /\ "late" \in Faults
  /\ 0 < host.sent /\ host.sent < Length(host) /\ ~host.stalled
  /\ host' = [host EXCEPT !.stalled = TRUE]
  /\ UNCHANGED <<owed, ring, parser>>

\* ... and goes on with it, although the device may have given it up.
HostResumes ==
  /\ host.stalled
  /\ host' = [host EXCEPT !.stalled = FALSE]
  /\ seen' = IF owed = 0 /\ pc = "poll" THEN seen \union {"cut"} ELSE seen
  /\ UNCHANGED <<owed, ring, pc, cur, need, left>>

\* The host program dies inside a message.  DTR drops, which aborts an upload
\* but touches neither the ring nor a read in progress: a header that is not
\* complete stays in the ring and is never answered.
HostDies ==
  /\ "dies" \in Faults
  /\ host.sent < Length(host)
  /\ host' = [host EXCEPT !.sent = Length(host), !.stalled = FALSE]
  /\ owed' = IF host.sent < Hdr THEN owed - 1 ELSE owed
  /\ seen' = IF 0 < host.sent /\ host.sent < Hdr THEN seen \union {"cut"} ELSE seen
  /\ UNCHANGED <<ring, pc, cur, need, left>>

\* Nothing more is coming for longer than any wait of the parser.
Silence == host.sent = Length(host) \/ host.stalled

(***************************************************************************)
(* usb_cdc_poll.                                                           *)
(***************************************************************************)

\* send_ok, send_err.
Answer == owed' = owed - 1

Taken == SubSeq(ring, 1, IF need <= Len(ring) THEN need ELSE Len(ring))
Rest(n) == SubSeq(ring, n + 1, Len(ring))

\* The bytes are a header: the first of one message, and all of them.
IsHeader(bytes) == bytes = Bytes(bytes[1][1], 0, Hdr)

\* A header announces the payload the host put there; other bytes taken for
\* one announce anything.
Announced(bytes) ==
  IF IsHeader(bytes)
    THEN {[id |-> host.id, payload |-> host.payload, raw |-> host.raw]}
    ELSE {[id |-> host.id, payload |-> p, raw |-> 0] :
            p \in Payloads \union {0, MaxPayload + 1}}

\* Fewer than five bytes: wait.  Otherwise the header, and what follows it: a
\* payload to read, one too long to be read, or none.
PollHeader(c) ==
  /\ pc = "poll" /\ Len(ring) >= Hdr
  /\ c \in Announced(SubSeq(ring, 1, Hdr))
  /\ ring' = Rest(Hdr)
  /\ cur' = c
  /\ seen' = (seen \ {"torn"}) \union
             (IF IsHeader(SubSeq(ring, 1, Hdr)) THEN {} ELSE {"phantom"})
  /\ IF c.payload > MaxPayload
       THEN pc' = "drain" /\ need' = 1 /\ left' = c.payload
       ELSE pc' = "payload" /\ need' = c.payload /\ left' = 0
  /\ UNCHANGED <<host, owed>>

\* An oversized payload is read to its end in pieces, or to the first silence;
\* then the ring is reset.
Drain ==
  /\ pc = "drain"
  /\ IF left > 0 /\ Len(ring) >= need
       THEN /\ ring' = Rest(need) /\ left' = left - 1
            /\ UNCHANGED <<owed, pc>>
       ELSE /\ left = 0 \/ Silence
            /\ ring' = <<>> /\ left' = 0
            /\ pc' = "poll" /\ Answer
  /\ UNCHANGED <<host, cur, need, seen>>

\* A payload that does not come: its rest must not be the next command.
KeepRing == ring                \* mutant: ring_buf_reset forgotten
AfterTimeout == <<>>
WaitForever == FALSE            \* mutant: usb_read_bytes without its timeout
GivenUp == Len(ring) < need /\ Silence
PayloadTimeout ==
  /\ pc = "payload" /\ GivenUp
  /\ ring' = AfterTimeout
  /\ pc' = "poll" /\ Answer
  /\ UNCHANGED <<host, cur, need, left, seen>>

\* dispatch, and the tests of handle_song_multiblock: a batch that is refused
\* is answered at once.
Dispatch ==
  /\ pc = "payload" /\ Len(ring) >= need
  /\ ring' = Rest(need)
  /\ \/ /\ cur.raw > 0
        /\ pc' = "blocks" /\ need' = Block /\ left' = cur.raw
        /\ UNCHANGED owed
     \/ /\ cur.raw > 0 => "refuse" \in Faults
        /\ pc' = "poll" /\ Answer
        /\ UNCHANGED <<need, left>>
  /\ UNCHANGED <<host, cur, seen>>

\* The bytes of the next block, as the host numbered them.
Due == LET from == Hdr + cur.payload + Block * (cur.raw - left)
       IN  Bytes(cur.id, from, from + Block)
Torn == IF Taken = Due THEN seen ELSE seen \union {"torn"}

\* A block read and written; the last one answers for the batch.
BlockAssumed == Len(ring) >= need \/ Silence  \* mutant: a short read taken as a block
BlockCame == Len(ring) >= need
BatchBlock ==
  /\ pc = "blocks" /\ BlockCame
  /\ ring' = Rest(need)
  /\ left' = left - 1
  /\ IF left > 1
       THEN seen' = Torn /\ UNCHANGED <<owed, pc>>
       ELSE /\ seen' = IF "torn" \in Torn THEN Torn \union {"corrupt"} ELSE Torn
            /\ pc' = "poll" /\ Answer
  /\ UNCHANGED <<host, cur, need>>

\* The block does not come, or cannot be written: upload_abort, ERR, and the
\* rest of the batch is swallowed until the line is quiet.
PollOn == "poll"                \* mutant: back to polling at once
AfterFailure == "quiet"
BatchFails ==
  /\ pc = "blocks"
  /\ \/ GivenUp /\ UNCHANGED ring
     \/ Len(ring) >= need /\ "card" \in Faults /\ ring' = Rest(need)
  /\ pc' = AfterFailure /\ Answer
  /\ UNCHANGED <<host, cur, need, left, seen>>

\* ring_buf_reset as long as anything comes; ten polls without end it.
Quiet ==
  /\ pc = "quiet"
  /\ IF ring # <<>> THEN ring' = <<>> /\ UNCHANGED pc
     ELSE Silence /\ pc' = "poll" /\ UNCHANGED ring
  /\ UNCHANGED <<host, owed, cur, need, left, seen>>

(***************************************************************************)
(* The specification.                                                      *)
(***************************************************************************)

Init ==
  /\ host = Idle /\ owed = 0 /\ ring = <<>>
  /\ pc = "poll" /\ cur = [id |-> 0, payload |-> 0, raw |-> 0]
  /\ need = 0 /\ left = 0 /\ seen = {}

Host ==
  \/ \E p \in Payloads : HostSend(p, 0)
  \/ \E n \in Counts : HostSend(Count, n)
  \/ HostStalls \/ HostResumes \/ HostDies

Line == \E n \in 1 .. Length(host) : UartCallback(n)

Poll ==
  \/ \E p \in Payloads \union {0, Count, MaxPayload + 1},
        n \in Counts \union {0} :
       PollHeader([id |-> host.id, payload |-> p, raw |-> n])
  \/ Drain \/ PayloadTimeout \/ Dispatch \/ BatchBlock \/ BatchFails \/ Quiet

Next == Host \/ Line \/ Poll

Spec == Init /\ [][Next]_vars

\* The main loop polls for ever and every wait in it has a timeout; the host
\* goes on sending what it has begun.
FairSpec == Spec /\ WF_vars(Poll) /\ WF_vars(Line)

(***************************************************************************)
(* Properties.                                                             *)
(***************************************************************************)

TypeOK ==
  /\ host.id \in 0 .. (Ids - 1) /\ host.sent \in 0 .. Length(host)
  /\ owed \in Int /\ Len(ring) <= RingSize
  /\ pc \in {"poll", "payload", "drain", "blocks", "quiet"}
  /\ need \in 0 .. (Hdr + MaxPayload) /\ left \in Nat
  /\ seen \subseteq {"cut", "phantom", "torn", "corrupt"}

\* The parser never takes for a header what the host did not send as one:
\* whatever fails in the batch before it, however far the host outran the ring,
\* and though the host dies inside a payload or a batch.  Only a header cut
\* short, and a message resumed after the device gave it up, are misread.
NoPhantom == "phantom" \in seen => "cut" \in seen

\* A batch that was answered OK is the batch the host sent, byte for byte,
\* though the callback throws away what the ring cannot hold.
BatchWhole == "corrupt" \notin seen

\* A message is answered once: "OK (one ACK for all)".
OneAnswer == "cut" \in seen \/ owed \in {0, 1}

\* A message is answered, however its sender or the card fail, unless it stops
\* for good inside it.
Answered == owed > 0 ~> owed <= 0 \/ host.stalled

(***************************************************************************)
(* The inductive invariants behind them, the second one of a host that is  *)
(* not "hasty" and of batches that are not "refused".                      *)
(***************************************************************************)

Messages == [id : Nat, payload : Nat, raw : Nat, sent : Nat, stalled : BOOLEAN]
Types ==
  /\ TypeOK
  /\ host \in Messages
  /\ cur \in [id : Nat, payload : Nat, raw : Nat]
  /\ ring \in Seq(Nat \X Nat)
  /\ pc = "blocks" => left >= 1 /\ need = Block

\* The parser has taken the message up to a position.  Behind it the ring
\* holds the rest of what was sent, or less: then something was lost.
Intact(from) == from + Len(ring) = host.sent
UpTo(from) ==
  /\ from + Len(ring) <= host.sent
  /\ Intact(from) => ring = Bytes(host.id, from, host.sent)

\* The header due is that of the message being sent.  The ring has room for it.
AtHeader ==
  /\ owed = 1 /\ UpTo(0)
  /\ \A i \in 1 .. Len(ring) : i <= Hdr => ring[i] = <<host.id, i>>
  /\ Intact(0) \/ Len(ring) >= Hdr

\* The message was answered, and either it is at its end or it was given up.
Between ==
  /\ owed = 0 /\ ring = <<>> /\ host.sent >= Hdr
  /\ Silence \/ "cut" \in seen

\* The next five bytes are no header, or will not be one when they are there:
\* somewhere in them the position is not that of the slot.
Astray ==
  /\ "cut" \in seen /\ ring # <<>>
  /\ host.sent = 0 => Len(ring) < Hdr
  /\ \A i \in 1 .. Len(ring) : i > Hdr => ring[i][2] # 1
  /\ \/ \E i \in 1 .. Len(ring) : i <= Hdr /\ ring[i][2] # i
     \/ Len(ring) < Hdr /\ (host.sent = Length(host) \/ host.sent # Len(ring))

Current == [id |-> host.id, payload |-> host.payload, raw |-> host.raw]
InPayload ==
  /\ owed = 1 /\ cur = Current /\ need = host.payload /\ need <= MaxPayload
  /\ UpTo(Hdr) /\ "torn" \notin seen
InDrain ==
  /\ owed = 1 /\ need = 1 /\ host.raw = 0 /\ left <= host.payload
  /\ Length(host) - left + Len(ring) <= host.sent

\* A block is torn only when bytes were lost: then the last one never fills.
InBlocks ==
  /\ owed = 1 /\ cur = Current /\ left <= host.raw
  /\ UpTo(Length(host) - Block * left)
  /\ "torn" \in seen => ~Intact(Length(host) - Block * left)
InQuiet == owed = 0 /\ host.sent >= Hdr

\* Once bytes were misread no first byte of a message is left to be read, so
\* nothing is ever taken for a header or a batch again.
Misled ==
  /\ "cut" \in seen /\ host.sent > 0 /\ cur.raw = 0
  /\ pc \in {"poll", "payload", "drain"}
  /\ \A i \in 1 .. Len(ring) : ring[i][2] # 1

Framed ==
  /\ "corrupt" \notin seen
  /\ host.raw > 0 => host.payload = Count
  /\ "phantom" \in seen => Misled
  /\ "phantom" \notin seen =>
       /\ pc = "poll" => AtHeader \/ Between \/ Astray
       /\ pc = "payload" => InPayload
       /\ pc = "drain" => InDrain
       /\ pc = "blocks" => InBlocks
       /\ pc = "quiet" => InQuiet

=============================================================================
