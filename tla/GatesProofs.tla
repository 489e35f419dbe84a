----------------------------- MODULE GatesProofs ----------------------------
(* What Gates promises of the buttons, for every set of stems and every      *)
(* length of hold.                                                           *)
EXTENDS Gates, TLAPS

(* --------------------------------- types --------------------------------- *)

LEMMA LaterInRange ==
  ASSUME NEW top \in Nat, NEW n \in 0..top
  PROVE  Later(n, top) \in 0..top
BY DEF Later

LEMMA SampledType ==
  ASSUME TypeOK, NEW raw \in Masks
  PROVE  Sampled(raw) \in [pending : Masks, cnt : 0..3, stable : Masks]
<1>1. Later(ladder.cnt, 3) \in 0..3
  BY LaterInRange DEF TypeOK
<1>2. {} \in Masks
  BY DEF Masks
<1> QED BY <1>1, <1>2 DEF TypeOK, Sampled

PressType == [for : 0..HoldTicks, used : BOOLEAN]
LadderType == [pending : Masks, cnt : 0..3, stable : Masks]
TapType == [held : BOOLEAN, soloed : BOOLEAN, last : Masks, for : 0..SoloTicks]
MainType == [at : {"look", "clear", "hold", "poll"}, now : BOOLEAN,
             prev : BOOLEAN, hold : {None} \cup 0..HoldTicks,
             uploading : BOOLEAN, request : BOOLEAN]

LEMMA NewTypes ==
  /\ {} \in Masks
  /\ NoPress \in PressType
  /\ NewLadder \in LadderType
  /\ NewTap \in TapType
  /\ NewMain \in MainType
  /\ [NewMain EXCEPT !.hold = 0] \in MainType
<1>1. 0 \in 0..HoldTicks /\ 0 \in 0..SoloTicks /\ 0 \in 0..3
  BY GatesAssumption
<1>2. {} \in Masks
  BY DEF Masks
<1>3. NewMain \in MainType
  BY DEF NewMain, MainType
<1>4. [NewMain EXCEPT !.hold = 0] \in MainType
  BY <1>1, <1>3 DEF MainType
<1> QED
  BY <1>1, <1>2, <1>3, <1>4 DEF NoPress, NewLadder, NewTap, PressType, LadderType,
                               TapType

\* Every variable has its type, whatever is pressed and whatever main misses.
THEOREM Typing == Spec => []TypeOK
<1> DEFINE Rest == /\ device \in {"gate", "on", "closing", "off"}
                   /\ fn \in BOOLEAN
                   /\ muted \in Masks /\ solo \in Masks /\ gate \in Masks
                   /\ gesture \in BOOLEAN
                   /\ tainted \in BOOLEAN
                   /\ gated \in BOOLEAN
           Types == /\ Rest
                    /\ press \in PressType
                    /\ ladder \in LadderType
                    /\ tap \in TapType
                    /\ mp \in MainType
<1>t. TypeOK <=> Types
  BY DEF TypeOK, PressType, LadderType, TapType, MainType
<1>1. Init => Types
  BY NewTypes DEF Init
<1>2. Types /\ [Next]_vars => Types'
  <2> SUFFICES ASSUME Types, [Next]_vars PROVE Types'
    OBVIOUS
  <2>1. CASE Press
    BY <2>1, NewTypes DEF Press, stems
  <2>2. CASE Release
    BY <2>2 DEF Release, stems
  <2>3. CASE Tick
    <3>1. Later(press.for, HoldTicks) \in 0..HoldTicks
      BY LaterInRange, GatesAssumption DEF PressType
    <3>2. Later(tap.for, SoloTicks) \in 0..SoloTicks
      BY LaterInRange, GatesAssumption DEF TapType
    <3>3. mp.hold # None => Later(mp.hold, HoldTicks) \in 0..HoldTicks
      BY LaterInRange, GatesAssumption DEF MainType
    <3>4. press' \in PressType
      BY <2>3, <3>1 DEF Tick, PressType
    <3>5. tap' \in TapType
      BY <2>3, <3>2 DEF Tick, TapType
    <3>6. mp' \in MainType
      BY <2>3, <3>3 DEF Tick, MainType
    <3> QED BY <2>3, <3>4, <3>5, <3>6 DEF Tick, stems
  <2>4. ASSUME Samples
        PROVE  /\ ladder' \in LadderType
               /\ ladder'.stable \in Masks
               /\ UNCHANGED <<device, fn, mp>>
    <3>1. ladder' \in LadderType
      BY <2>4, <1>t, SampledType DEF Samples, LadderType
    <3> QED BY <2>4, <3>1 DEF Samples, LadderType
  <2>5. CASE GateRound
    <3>1. press' \in PressType
      BY <2>5 DEF GateRound, PressType
    <3> QED BY <2>5, <2>4, <3>1, NewTypes DEF GateRound, TapAfterGate
  <2>6. CASE HoldRound
    <3>1. ladder'.stable \in Masks
      BY <2>6, <2>4 DEF HoldRound
    <3>2. HeldTap(ladder'.stable) \in TapType
      <4>1. [NewTap EXCEPT !.held = TRUE] \in TapType
        BY NewTypes DEF TapType
      <4>2. \A t \in TapType, b \in BOOLEAN :
              [t EXCEPT !.last = ladder'.stable, !.soloed = b] \in TapType
        BY <3>1 DEF TapType
      <4>3. \A t \in TapType : (t.soloed \/ t.for = SoloTicks) \in BOOLEAN
        OBVIOUS
      <4> QED BY <4>1, <4>2, <4>3 DEF HeldTap
    <3> QED BY <2>6, <2>4, <3>1, <3>2, NewTypes DEF HoldRound, Ungated
  <2>7. CASE LiftRound
    <3>1. MutedAfterLift \in Masks /\ SoloAfterLift \in Masks
      BY NewTypes DEF MutedAfterLift, SoloAfterLift, Masks, TapType
    <3> QED BY <2>7, <2>4, <3>1, NewTypes DEF LiftRound, Ungated
  <2>8. CASE IdleRound
    BY <2>8, <2>4, NewTypes DEF IdleRound, Ungated
  <2>9. CASE Look
    <3>1. mp' \in MainType
      BY <2>9 DEF Look, MainType
    <3> QED BY <2>9, <3>1 DEF Look, stems
  <2>10. CASE Clear
    <3>1. mp' \in MainType
      BY <2>10 DEF Clear, MainType
    <3> QED BY <2>10, <3>1 DEF Clear, stems
  <2>11. CASE SwitchOff
    BY <2>11, NewTypes DEF SwitchOff, stems
  <2>12. CASE HoldGrows \/ HoldEnds
    <3>2. (IF mp.hold = None THEN 0 ELSE mp.hold) \in {None} \cup 0..HoldTicks
      BY GatesAssumption DEF MainType
    <3>1. mp' \in MainType
      BY <2>12, <3>2 DEF HoldGrows, HoldEnds, MainType
    <3> QED BY <2>12, <3>1 DEF HoldGrows, HoldEnds, stems
  <2>13. CASE Poll
    <3>1. mp' \in MainType
      BY <2>13 DEF Poll, MainType
    <3> QED BY <2>13, <3>1 DEF Poll, stems
  <2>14. CASE Power
    BY <2>14, NewTypes DEF Power, Closed, Wake, GateFails, Boot, Fresh, stems
  <2>15. CASE UNCHANGED vars
    BY <2>15 DEF vars, stems
  <2> QED
    BY <2>1, <2>2, <2>3, <2>5, <2>6, <2>7, <2>8, <2>9, <2>10, <2>11, <2>12,
       <2>13, <2>14, <2>15 DEF Next, Ui, Main
<1> QED BY <1>t, <1>1, <1>2, PTL DEF Spec

(* ------------------------------- power holds ----------------------------- *)

\* While main sees every change of function: a press that main has seen or may
\* still see keeps its taint once it was part of a gesture; main clears only
\* after a release; and a hold that main counts is no longer than the press.
PressKnown ==
  device = "on" =>
    /\ (fn \/ mp.now) /\ press.used => tainted
    /\ mp.at = "clear" /\ ~mp.now /\ mp.prev => ~fn
    /\ mp.at \in {"look", "poll"} /\ ~mp.now => mp.hold = None
    /\ mp.now /\ (fn \/ mp.at \in {"clear", "hold"}) => mp.hold <= press.for

\* The power-on gate counts within one press.
WakeKnown == device = "gate" /\ fn => mp.hold <= press.for

LEMMA PressKnownInv ==
  ASSUME ~Starved
  PROVE  Spec => [](PressKnown /\ WakeKnown)
<1> USE GatesAssumption DEF None
<1>1. Init => PressKnown /\ WakeKnown
  BY DEF Init, PressKnown, WakeKnown, NewMain, NoPress
<1>2. TypeOK /\ PressKnown /\ WakeKnown /\ [Next]_vars
        => (PressKnown /\ WakeKnown)'
  <2> SUFFICES ASSUME TypeOK, PressKnown, WakeKnown, [Next]_vars
               PROVE  PressKnown' /\ WakeKnown'
    OBVIOUS
  <2> USE DEF TypeOK, PressKnown, WakeKnown
  <2>1. CASE Press
    BY <2>1 DEF Press, Seen, NoPress, stems
  <2>2. CASE Release
    BY <2>2 DEF Release, stems
  <2>3. CASE Tick
    BY <2>3 DEF Tick, Later, stems
  <2>4. CASE GateRound
    BY <2>4 DEF GateRound, Samples
  <2>5. CASE HoldRound \/ LiftRound \/ IdleRound
    BY <2>5 DEF HoldRound, LiftRound, IdleRound, Samples, Ungated
  <2>6. CASE Look
    BY <2>6 DEF Look, MainAt, stems
  <2>7. CASE Clear
    BY <2>7 DEF Clear, Cleared, MainAt, stems
  <2>8. CASE SwitchOff
    BY <2>8 DEF SwitchOff
  <2>12. CASE HoldEnds
    BY <2>12 DEF HoldEnds, MainAt, stems
  <2>13. CASE Poll
    BY <2>13 DEF Poll, MainAt, stems
  <2>11. CASE HoldGrows
    <3>1. mp.hold = None \/ mp.hold \in 0..HoldTicks
      OBVIOUS
    <3>2. press.for \in 0..HoldTicks
      OBVIOUS
    <3> QED BY <2>11, <3>1, <3>2 DEF HoldGrows, FnDown, MainAt, stems
  <2>9. CASE Power
    BY <2>9 DEF Power, Closed, Wake, GateFails, Boot, Fresh, NewMain, NoPress,
                stems
  <2>10. CASE UNCHANGED vars
    BY <2>10 DEF vars, stems
  <2> QED
    BY <2>1, <2>2, <2>3, <2>4, <2>5, <2>6, <2>7, <2>8, <2>9, <2>10,
       <2>11, <2>12, <2>13 DEF Next, Ui, Main
<1> QED BY <1>1, <1>2, Typing, PTL DEF Spec

\* Only a press of the full time that was never part of a gate gesture switches
\* the device off, as long as main sees every change of function: the taint of
\* main.c 246-252 and the hold of 862-876 are enough.
THEOREM PowerOffSafe ==
  ASSUME ~Starved
  PROVE  Spec => PowerOffMeant
<1>1. TypeOK /\ PressKnown /\ [Next]_vars =>
        [device = "on" /\ device' = "closing" /\ ~mp.request
           => press.for = HoldTicks /\ ~press.used]_vars
  <2> SUFFICES ASSUME TypeOK, PressKnown, Next, device = "on",
                      device' = "closing", ~mp.request
               PROVE  press.for = HoldTicks /\ ~press.used
    BY DEF vars
  <2>1. SwitchOff
    BY DEF Next, Press, Release, Tick, Ui, GateRound, HoldRound, LiftRound,
           IdleRound, Samples, Main, Look, Clear, HoldGrows, HoldEnds, Poll, Power,
           Closed, Wake, GateFails, Boot
  <2> QED
    BY <2>1, GatesAssumption
       DEF SwitchOff, HostOff, FnDown, MainAt, PressKnown, TypeOK, None
<1> QED BY <1>1, Typing, PressKnownInv, PTL DEF Spec, PowerOffMeant

\* The device starts only for one press of the full time.
THEOREM PowerOnSafe ==
  ASSUME ~Starved
  PROVE  Spec => PowerOnMeant
<1>1. TypeOK /\ WakeKnown /\ [Next]_vars =>
        [device = "gate" /\ device' = "on" => fn /\ press.for = HoldTicks]_vars
  <2> SUFFICES ASSUME TypeOK, WakeKnown, Next, device = "gate", device' = "on"
               PROVE  fn /\ press.for = HoldTicks
    BY DEF vars
  <2>1. Boot
    BY DEF Next, Press, Release, Tick, Ui, GateRound, HoldRound, LiftRound,
           IdleRound, Samples, Main, MainAt, Look, Clear, SwitchOff, HoldGrows,
           HoldEnds, Poll, Power, Closed, Wake, GateFails
  <2> QED
    BY <2>1, GatesAssumption DEF Boot, HeldLongEnough, WakeKnown, TypeOK, None
<1> QED BY <1>1, Typing, PressKnownInv, PTL DEF Spec, PowerOnMeant

(* ------------------------------ solo and gate ---------------------------- *)

\* A solo belongs to a hold the UI thread still follows, a gate and a tap to
\* tracks that are down.
SoloOwned ==
  device = "on" =>
    /\ solo # {} => tap.held /\ tap.soloed
    /\ fn => ~(tap.held /\ tap.soloed)
    /\ tap.held \/ gate # {} => ladder.stable # {}

\* When function never goes down in a solo, every stem that is not muted is
\* heard again once the tracks are up.
THEOREM SoloMomentary ==
  ASSUME "soloFirst" \notin Gestures
  PROVE  Spec => []AllBack
<1>1. Init => SoloOwned
  BY DEF Init, SoloOwned, NewTap
<1>2. TypeOK /\ SoloOwned /\ [Next]_vars => SoloOwned'
  <2> SUFFICES ASSUME TypeOK, SoloOwned, [Next]_vars PROVE SoloOwned'
    OBVIOUS
  <2> USE DEF TypeOK, SoloOwned
  <2>1. CASE Press \/ Release
    BY <2>1 DEF Press, Release, stems
  <2>2. CASE Tick
    BY <2>2 DEF Tick, stems
  <2>3. CASE GateRound
    BY <2>3 DEF GateRound, Samples, TapAfterGate, NewTap
  <2>4. CASE HoldRound
    BY <2>4 DEF HoldRound, Samples, Ungated, HeldTap, NewTap
  <2>5. CASE LiftRound \/ IdleRound
    BY <2>5 DEF LiftRound, IdleRound, Samples, Ungated, NewTap, SoloAfterLift
  <2>6. CASE Main
    BY <2>6 DEF Main, Look, Clear, SwitchOff, HoldGrows, HoldEnds, Poll, MainAt,
                stems
  <2>7. CASE Power
    BY <2>7 DEF Power, Closed, Wake, GateFails, Boot, Fresh, NewTap, stems
  <2>8. CASE UNCHANGED vars
    BY <2>8 DEF vars, stems
  <2> QED BY <2>1, <2>2, <2>3, <2>4, <2>5, <2>6, <2>7, <2>8 DEF Next, Ui
<1>3. SoloOwned => AllBack
  BY DEF SoloOwned, AllBack, Audible
<1> QED BY <1>1, <1>2, <1>3, Typing, PTL DEF Spec

\* Tracks that were gated stay gated, and are no tap, while function is down.
GateOwned == device = "on" /\ gated => fn /\ ~tap.held

\* When function comes up after the tracks, a press that gated its stem turns no
\* stem on or off and starts no solo.
THEOREM GateNoTap ==
  ASSUME "fnFirst" \notin Gestures
  PROVE  Spec => GateIsNoTap
<1>1. Init => GateOwned
  BY DEF Init, GateOwned
<1>2. GateOwned /\ [Next]_vars => GateOwned'
  <2> SUFFICES ASSUME GateOwned, [Next]_vars PROVE GateOwned'
    OBVIOUS
  <2> USE DEF GateOwned
  <2>1. CASE Press \/ Release
    BY <2>1 DEF Press, Release
  <2>2. CASE Tick
    BY <2>2 DEF Tick
  <2>3. CASE GateRound
    BY <2>3 DEF GateRound, Samples, TapAfterGate, NewTap
  <2>4. CASE HoldRound \/ LiftRound \/ IdleRound
    BY <2>4 DEF HoldRound, LiftRound, IdleRound, Samples
  <2>5. CASE Main
    BY <2>5 DEF Main, Look, Clear, SwitchOff, HoldGrows, HoldEnds, Poll
  <2>6. CASE Power
    BY <2>6 DEF Power, Closed, Wake, GateFails, Boot, Fresh
  <2>7. CASE UNCHANGED vars
    BY <2>7 DEF vars
  <2> QED BY <2>1, <2>2, <2>3, <2>4, <2>5, <2>6, <2>7 DEF Next, Ui
<1>3. GateOwned /\ [Next]_vars =>
        [device = "on" /\ gated
           => muted' = muted /\ (solo' = solo \/ solo' = {})]_vars
  BY DEF GateOwned, Next, Press, Release, Tick, Ui, GateRound, HoldRound,
         LiftRound, IdleRound, Main, Look, Clear, SwitchOff, HoldGrows, HoldEnds,
         Poll, Power, Closed, Wake, GateFails, Boot, vars, stems
<1> QED BY <1>1, <1>2, <1>3, PTL DEF Spec, GateIsNoTap
=============================================================================
