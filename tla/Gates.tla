-------------------------------- MODULE Gates -------------------------------
(* What the function button and the track buttons mean together.  Function   *)
(* held for HoldTicks switches off, and on again; with a track button it     *)
(* gates that stem; a track button alone mutes (tap) or solos (hold).  The   *)
(* UI thread reads both in rounds that main cannot interrupt; main reads     *)
(* function in steps of its loop, between which the UI runs, and knows of    *)
(* gates only by two flags.                                                  *)
EXTENDS Integers

CONSTANTS Stems,     \* the four stems, one track button each
          HoldTicks, \* ticks of 3 s, the hold that switches off and on
          SoloTicks, \* ticks of 250 ms, the hold that solos
          Gestures,  \* "soloFirst": function goes down in a solo;
                     \* "fnFirst": function goes up before the gated tracks
          Starved    \* main may miss a change of function for lack of time

ASSUME GatesAssumption ==
  /\ HoldTicks \in Nat \ {0}
  /\ SoloTicks \in Nat \ {0}
  /\ Gestures \subseteq {"soloFirst", "fnFirst"}
  /\ Starved \in BOOLEAN

VARIABLES device,    \* "gate" (woken, not booted), "on", "closing" or "off"
          fn,        \* the function button is down
          press,     \* of that press, since it or boot (history): ticks, and
                     \* whether the UI saw it with a track
          ladder,    \* debounce of the track mask: trk_pending, _pend_cnt, _stable
          tap,       \* trk_held, trk_soloed, trk_last and ticks since the press
          muted,     \* s_stem_muted
          solo,      \* s_solo_mask
          gate,      \* s_gate_mask
          gesture,   \* s_gate_gesture
          tainted,   \* s_fn_hold_tainted
          gated,     \* the tracks held have been gated (history)
          mp         \* main: where it is, fn_raw_now, fn_raw_prev, the ticks of
                     \* the power hold, an upload, a request of the host
vars == <<device, fn, press, ladder, tap, muted, solo, gate, gesture, tainted,
          gated, mp>>
stems == <<muted, solo, gate>>

None == -1
Masks == SUBSET Stems
Later(n, top) == IF n < top THEN n + 1 ELSE n

NoPress == [for |-> 0, used |-> FALSE]
NewLadder == [pending |-> {}, cnt |-> 0, stable |-> {}]
NewTap == [held |-> FALSE, soloed |-> FALSE, last |-> {}, for |-> 0]
NewMain == [at |-> "look", now |-> FALSE, prev |-> FALSE, hold |-> None,
            uploading |-> FALSE, request |-> FALSE]

\* RAM after boot.
Init ==
  /\ device = "on"
  /\ fn = FALSE
  /\ press = NoPress
  /\ ladder = NewLadder
  /\ tap = NewTap
  /\ muted = {} /\ solo = {} /\ gate = {}
  /\ gesture = FALSE
  /\ tainted = FALSE
  /\ gated = FALSE
  /\ mp = NewMain

(* ------------------------------- the fingers ----------------------------- *)

\* Main has seen the button as it is, or need not before the next change.
Seen == Starved \/ (device = "on" => mp.now = fn /\ mp.prev = fn)

Press == /\ ~fn
         /\ Seen
         /\ device # "gate" \/ Starved
         /\ tap.held /\ tap.soloed => "soloFirst" \in Gestures
         /\ fn' = TRUE
         /\ press' = NoPress
         /\ UNCHANGED <<device, ladder, tap, stems, gesture, tainted, gated, mp>>

Release == /\ fn
           /\ Seen
           /\ device = "on" /\ gated => "fnFirst" \in Gestures
           /\ fn' = FALSE
           /\ UNCHANGED <<device, press, ladder, tap, stems, gesture, tainted,
                          gated, mp>>

\* A tick is long against main's way from its look to its decision.
Tick == /\ Starved \/ mp.at \notin {"clear", "hold"}
        /\ press' = IF fn THEN [press EXCEPT !.for = Later(@, HoldTicks)]
                    ELSE press
        /\ tap' = IF tap.held THEN [tap EXCEPT !.for = Later(@, SoloTicks)]
                  ELSE tap
        /\ mp' = IF mp.hold # None THEN [mp EXCEPT !.hold = Later(@, HoldTicks)]
                 ELSE mp
        /\ UNCHANGED <<device, fn, ladder, stems, gesture, tainted, gated>>

(* ------------------------------ the UI thread ---------------------------- *)

\* The debounce of the decoded mask: an equal sample counts up to 3, another
\* one down; at 0 the candidate changes, at 3 it is accepted.
Sampled(raw) ==
  LET same == raw = ladder.pending
      cnt == IF same THEN Later(ladder.cnt, 3)
             ELSE IF ladder.cnt > 0 THEN ladder.cnt - 1 ELSE 0
      candidate == IF ~same /\ cnt = 0 THEN raw ELSE ladder.pending
  IN  [pending |-> candidate, cnt |-> cnt,
       stable |-> IF cnt = 3 THEN candidate ELSE ladder.stable]

\* Every round of the UI thread begins with a sample of the tracks; cur of the
\* code is ladder'.stable.
Samples == /\ device = "on"
           /\ \E raw \in Masks : ladder' = Sampled(raw)
           /\ UNCHANGED <<device, fn, mp>>

Ungated == gate' = {} /\ gesture' = FALSE /\ UNCHANGED <<tainted, press>>

TapKept == tap   \* mutant: the tap goes on under the gate
TapAfterGate == NewTap

\* Function and tracks: the stems are gated, and the tap is forgotten.
GateRound == /\ Samples
             /\ fn
             /\ ladder'.stable # {}
             /\ gate' = ladder'.stable
             /\ gesture' = TRUE
             /\ tainted' = TRUE
             /\ tap' = TapAfterGate
             /\ press' = [press EXCEPT !.used = TRUE]
             /\ gated' = TRUE
             /\ UNCHANGED <<muted, solo>>

\* Tracks alone: long enough, and the solo follows the buttons.
HeldTap(cur) ==
  LET t == IF tap.held THEN tap ELSE [NewTap EXCEPT !.held = TRUE]
  IN  [t EXCEPT !.last = cur, !.soloed = t.soloed \/ t.for = SoloTicks]

HoldRound == /\ Samples
             /\ ~fn
             /\ ladder'.stable # {}
             /\ Ungated
             /\ tap' = HeldTap(ladder'.stable)
             /\ solo' = IF tap'.soloed THEN ladder'.stable ELSE solo
             /\ UNCHANGED <<muted, gated>>

\* All tracks are up: a solo ends, a tap turns its stems on or off.
SoloKept == solo   \* mutant: the solo outlives the hold
SoloAfterLift == IF tap.soloed THEN {} ELSE solo
MutedAfterLift == IF tap.soloed THEN muted
                  ELSE (muted \ tap.last) \cup (tap.last \ muted)

LiftRound == /\ Samples
             /\ ladder'.stable = {}
             /\ tap.held
             /\ Ungated
             /\ tap' = NewTap
             /\ solo' = SoloAfterLift
             /\ muted' = MutedAfterLift
             /\ gated' = FALSE

IdleRound == /\ Samples
             /\ ladder'.stable = {}
             /\ ~tap.held
             /\ Ungated
             /\ gated' = FALSE
             /\ UNCHANGED <<tap, muted, solo>>

(* ------------------------------- main's loop ----------------------------- *)

MainAt(at) == device = "on" /\ mp.at = at

\* main reads the button...
Look == /\ MainAt("look")
        /\ mp' = [mp EXCEPT !.at = "clear", !.now = fn]
        /\ UNCHANGED <<device, fn, press, ladder, tap, stems, gesture, tainted,
                       gated>>

\* ... clears the taint on the edge of a release...
ClearedNever == FALSE   \* mutant: the taint is for ever
Cleared == mp.prev /\ ~mp.now

Clear == /\ MainAt("clear")
         /\ tainted' = (tainted /\ ~Cleared)
         /\ mp' = [mp EXCEPT !.at = "hold", !.prev = mp.now]
         /\ UNCHANGED <<device, fn, press, ladder, tap, stems, gesture, gated>>

\* ... and lets a hold without a gate grow, switch off, or end.
HostOff == mp.request /\ ~mp.uploading
FnDownTainted == mp.now /\ ~gesture   \* mutant: the taint is not looked at
FnDown == mp.now /\ ~gesture /\ ~tainted

SwitchOff == /\ MainAt("hold")
             /\ HostOff \/ (FnDown /\ ~mp.uploading /\ mp.hold = HoldTicks)
             /\ device' = "closing"
             /\ mp' = [NewMain EXCEPT !.hold = 0]
             /\ UNCHANGED <<fn, press, ladder, tap, stems, gesture, tainted, gated>>

HoldGrows == /\ MainAt("hold")
             /\ ~HostOff
             /\ FnDown /\ ~mp.uploading
             /\ mp.hold < HoldTicks
             /\ mp' = [mp EXCEPT !.at = "poll",
                                 !.hold = IF @ = None THEN 0 ELSE @]
             /\ UNCHANGED <<device, fn, press, ladder, tap, stems, gesture,
                            tainted, gated>>

HoldEnds == /\ MainAt("hold")
            /\ ~HostOff
            /\ ~FnDown \/ mp.uploading
            /\ mp' = [mp EXCEPT !.at = "poll", !.hold = None]
            /\ UNCHANGED <<device, fn, press, ladder, tap, stems, gesture,
                           tainted, gated>>

\* usb_cdc_poll: uploads begin and end, the host may ask for power off.
Poll == /\ MainAt("poll")
        /\ \E up \in BOOLEAN, ask \in {mp.request, TRUE} :
             mp' = [mp EXCEPT !.at = "look", !.uploading = up, !.request = ask]
        /\ UNCHANGED <<device, fn, press, ladder, tap, stems, gesture, tainted,
                       gated>>

(* -------------------------------- power ---------------------------------- *)

Fresh == /\ ladder' = NewLadder
         /\ tap' = NewTap
         /\ muted' = {} /\ solo' = {} /\ gate' = {}
         /\ gesture' = FALSE
         /\ tainted' = FALSE
         /\ gated' = FALSE

\* SYSTEM OFF follows the release of the button, or 3 s without one.
Closed == /\ device = "closing"
          /\ ~fn \/ mp.hold = HoldTicks
          /\ device' = "off"
          /\ mp' = NewMain
          /\ Fresh
          /\ UNCHANGED <<fn, press>>

\* The button wakes the chip; the power-on gate counts from here.
Wake == /\ device = "off"
        /\ fn
        /\ device' = "gate"
        /\ mp' = [NewMain EXCEPT !.hold = 0]
        /\ UNCHANGED <<fn, press, ladder, tap, stems, gesture, tainted, gated>>

\* Released early: back to SYSTEM OFF, perhaps after a look at the battery.
GateFails == /\ device = "gate"
             /\ ~fn
             /\ device' = "off"
             /\ mp' = NewMain
             /\ UNCHANGED <<fn, press, ladder, tap, stems, gesture, tainted,
                            gated>>

HeldAtAll == mp.hold # None   \* mutant: the hold is not timed
HeldLongEnough == mp.hold = HoldTicks
Boot == /\ device = "gate"
        /\ fn
        /\ HeldLongEnough
        /\ device' = "on"
        /\ mp' = NewMain
        /\ Fresh
        /\ press' = NoPress
        /\ UNCHANGED fn

Ui == GateRound \/ HoldRound \/ LiftRound \/ IdleRound
Main == Look \/ Clear \/ SwitchOff \/ HoldGrows \/ HoldEnds \/ Poll
Power == Closed \/ Wake \/ GateFails \/ Boot

Next == Press \/ Release \/ Tick \/ Ui \/ Main \/ Power

\* Time passes between main's loops too, the UI thread has the highest priority,
\* and main runs whenever the feed thread sleeps.
Fairness == SF_vars(Tick) /\ WF_vars(Ui) /\ WF_vars(Main)

Spec == Init /\ [][Next]_vars /\ Fairness

(* ------------------------------- properties ------------------------------ *)

\* Every variable has its type.
TypeOK ==
  /\ device \in {"gate", "on", "closing", "off"}
  /\ fn \in BOOLEAN
  /\ press \in [for : 0..HoldTicks, used : BOOLEAN]
  /\ ladder \in [pending : Masks, cnt : 0..3, stable : Masks]
  /\ tap \in [held : BOOLEAN, soloed : BOOLEAN, last : Masks, for : 0..SoloTicks]
  /\ muted \in Masks /\ solo \in Masks /\ gate \in Masks
  /\ gesture \in BOOLEAN
  /\ tainted \in BOOLEAN
  /\ gated \in BOOLEAN
  /\ mp \in [at : {"look", "clear", "hold", "poll"}, now : BOOLEAN,
             prev : BOOLEAN, hold : {None} \cup 0..HoldTicks,
             uploading : BOOLEAN, request : BOOLEAN]

\* Unless the host asks, the device goes off only for one press of function of
\* the full time that has never been part of a gate gesture (main.c 246-252,
\* 849-858), whatever the UI thread sets while main looks.
PowerOffMeant ==
  [][device = "on" /\ device' = "closing" /\ ~mp.request
       => press.for = HoldTicks /\ ~press.used]_vars

\* The device starts only for one press of the full time (main.c 613-634).
PowerOnMeant ==
  [][device = "gate" /\ device' = "on" => fn /\ press.for = HoldTicks]_vars

\* What is heard of the stems, before the faders.
Audible == (IF solo # {} THEN solo ELSE Stems \ muted) \ gate

\* Solo and gate last as long as the buttons: with every track up, the stems
\* that are not muted are heard (main.c 316-317, 368-372).
AllBack == device = "on" /\ ladder.stable = {} => Audible = Stems \ muted

\* A track press that gated its stem is no tap and no solo (main.c 370-371).
GateIsNoTap ==
  [][device = "on" /\ gated => muted' = muted /\ (solo' = solo \/ solo' = {})]_vars

\* A plain hold switches off: function cannot stay down for ever with neither a
\* gate gesture nor an upload (main.c 849-858).
Held == device = "on" /\ fn /\ ~press.used /\ ~mp.uploading
PowerOffWorks == []<>~Held
=============================================================================
