----------------------------- MODULE OutputProofs ---------------------------
(* What Output promises of the volume and of where the sound goes, for every *)
(* number of levels.                                                         *)
EXTENDS Output, SequenceTheorems, WellFoundedInduction, TLAPS

(* ----------------------------- calls and writes -------------------------- *)

RegisterNames == Registers \cup {Detect}
Calls == Seq(Operations)

LEMMA RegisterTypes ==
  /\ \A r \in RegisterNames : r[1] \in Chips /\ r[2] \in Pages
  /\ Registers \subseteq RegisterNames
  /\ Levels \subseteq Values /\ Muted \in Values /\ Unmuted \in Values
  /\ 0 \in Levels /\ MaxVol \in Levels /\ DefaultVol \in Levels
  /\ {HpCtl, MixerA, MixerB, SpkVol, SpkDriver, SpkDac, Detect} \subseteq RegisterNames
BY OutputAssumption
   DEF RegisterNames, Registers, Detect, HpCtl, MixerA, MixerB, SpkVol, SpkDriver,
       SpkDac, Chips, Pages, Levels, Values

LEMMA WriteType ==
  ASSUME NEW r \in RegisterNames, NEW v \in Values
  PROVE  Write(r, v) \in Operations
BY DEF Write, Operations, RegisterNames

\* A call keeps the writes it is made of.
LEMMA CallType ==
  ASSUME NEW q \in Calls, q # << >>
  PROVE  Call(q) \in Calls
<1>1. 1 \in 1..Len(q)
  BY DEF Calls
<1>2. q[1] \in Operations
  BY <1>1, ElementOfSeq DEF Calls
<1>3. [q[1] EXCEPT !.first = TRUE] \in Operations
  BY <1>2 DEF Operations
<1>4. Call(q) = [q EXCEPT ![1] = [q[1] EXCEPT !.first = TRUE]]
  BY DEF Call
<1> QED BY <1>1, <1>3, <1>4, ExceptSeq DEF Calls

\* What the driver's functions send are writes of modelled registers.
LEMMA DriverTypes ==
  /\ << >> \in Calls
  /\ HeadphonesPresent \in Calls
  /\ PowerDownWrites \in Calls
  /\ \A hp \in BOOLEAN : MuteOld(hp) \in Calls
  /\ \A hp \in BOOLEAN, l \in Levels : /\ ApplyStep(hp, l) \in Calls
                                       /\ UnmuteNew(hp, l) \in Calls
                                       /\ BootRoute(hp, l) \in Calls
<1> USE RegisterTypes
<1>1. << >> \in Calls
  BY DEF Calls
<1>2. \A w1 \in Operations : <<w1>> \in Calls /\ <<w1>> # << >>
  BY DEF Calls
<1>3. \A w1, w2 \in Operations : <<w1, w2>> \in Calls /\ <<w1, w2>> # << >>
  BY DEF Calls
<1>4. \A w1, w2, w3 \in Operations :
        <<w1, w2, w3>> \in Calls /\ <<w1, w2, w3>> # << >>
  BY DEF Calls
<1>5. \A q1, q2 \in Calls : q1 \o q2 \in Calls
  BY ConcatProperties DEF Calls
<1>6. \A v \in {Muted, Unmuted} : HeadphoneMute(v) \in Calls
  BY <1>2, WriteType, CallType DEF HeadphoneMute
<1>7. \A l \in Levels : SpeakerVolume(l) \in Calls /\ HeadphoneVolume(l) \in Calls
  <2> TAKE l \in Levels
  <2>1. /\ Write(SpkVol, l) \in Operations
        /\ Write(MixerA, l) \in Operations
        /\ Write(MixerB, l) \in Operations
    BY WriteType
  <2>2. <<Write(SpkVol, l)>> \in Calls /\ <<Write(SpkVol, l)>> # << >>
    BY <2>1, <1>2
  <2>3. /\ <<Write(MixerA, l), Write(MixerB, l)>> \in Calls
        /\ <<Write(MixerA, l), Write(MixerB, l)>> # << >>
    BY <2>1, <1>3
  <2> QED BY <2>2, <2>3, CallType DEF SpeakerVolume, HeadphoneVolume
<1>8. SpeakerMute \in Calls
  <2>1. /\ Write(SpkVol, 0) \in Operations
        /\ Write(SpkDac, Muted) \in Operations
        /\ Write(SpkDriver, Muted) \in Operations
    BY WriteType
  <2> QED BY <2>1, <1>4, CallType DEF SpeakerMute
<1>9. SpeakerUnmute \in Calls
  <2>1. /\ Write(SpkVol, MaxVol) \in Operations
        /\ Write(SpkDac, Unmuted) \in Operations
        /\ Write(SpkDriver, Unmuted) \in Operations
    BY WriteType
  <2> QED BY <2>1, <1>4, CallType DEF SpeakerUnmute
<1>10. HeadphonesPresent \in Calls
  <2>1. Write(Detect, Muted) \in Operations
    BY WriteType
  <2> QED BY <2>1, <1>2, CallType DEF HeadphonesPresent
<1>11. PowerDownWrites \in Calls
  <2>1. Write(SpkVol, 0) \in Operations
    BY WriteType
  <2>2. Call(<<Write(SpkVol, 0)>>) \in Calls
    BY <2>1, <1>2, CallType
  <2> QED BY <2>2, <1>5, <1>6 DEF PowerDownWrites
<1>12. \A l \in Levels : HpApplyLevel(l) \in Calls
  BY <1>5, <1>6, <1>7 DEF HpApplyLevel
<1>13. \A hp \in BOOLEAN : MuteOld(hp) \in Calls
  BY <1>6, <1>8 DEF MuteOld
<1>14. \A hp \in BOOLEAN, l \in Levels : /\ ApplyStep(hp, l) \in Calls
                                         /\ UnmuteNew(hp, l) \in Calls
  BY <1>5, <1>7, <1>9, <1>12 DEF ApplyStep, UnmuteNew
<1>15. \A hp \in BOOLEAN, l \in Levels : BootRoute(hp, l) \in Calls
  BY <1>5, <1>7, <1>8, <1>9, <1>12 DEF BootRoute
<1> QED BY <1>1, <1>10, <1>11, <1>13, <1>14, <1>15

\* A set of naturals that is not empty has a least element.
LEMMA LeastStart ==
  ASSUME NEW S, S \subseteq Nat, S # {}
  PROVE  \E i \in S : \A j \in S : i <= j
<1> DEFINE R == OpToRel(<, Nat)
<1>1. IsWellFoundedOn(R, Nat)
  BY NatLessThanWellFounded
<1>2. PICK i \in S : \A j \in S : ~(<<j, i>> \in R)
  BY <1>1, WFMin
<1>3. \A j \in S : ~(j < i)
  BY <1>2 DEF OpToRel
<1>4. \A j \in S : i <= j
  <2> HIDE DEF R
  <2> QED BY <1>3
<1> QED BY <1>4

\* Going on in a sequence of writes, or leaving out a failed call, keeps the type.
LEMMA LeftType ==
  ASSUME NEW q \in Calls, q # << >>
  PROVE  q[1] \in Operations /\ Left(q) \in Calls /\ Rest(q) \in Calls
<1>1. 1 \in 1..Len(q)
  BY DEF Calls
<1>2. q[1] \in Operations
  BY <1>1, ElementOfSeq DEF Calls
<1>3. \A a \in {"test", "note", "data"} : [q EXCEPT ![1].at = a] \in Calls
  <2> TAKE a \in {"test", "note", "data"}
  <2>1. [q[1] EXCEPT !.at = a] \in Operations
    BY <1>2 DEF Operations
  <2> QED BY <1>1, <2>1, ExceptSeq DEF Calls
<1>4. Tail(q) \in Calls
  BY HeadTailProperties DEF Calls
<1>5. AfterTest(q[1]) \in {"test", "note", "data"}
  BY DEF AfterTest
<1>6. q[1].at \in {"test", "note", "data"}
  BY <1>2 DEF Operations
<1>7. Left(q) \in Calls
  BY <1>3, <1>4, <1>5, <1>6 DEF Left
<1>8. Rest(q) \in Calls
  <2> DEFINE starts == {i \in 2..Len(q) : q[i].first}
             m == CHOOSE i \in starts : \A j \in starts : i <= j
  <2>1. CASE starts = {}
    BY <2>1 DEF Rest, Calls
  <2>2. CASE starts # {}
    <3>1. \E i \in starts : \A j \in starts : i <= j
      <4>1. starts \subseteq Nat
        OBVIOUS
      <4>2. PICK k \in starts : TRUE
        BY <2>2
      <4> QED BY <2>2, <4>1, LeastStart
    <3>2. m \in starts
      BY <3>1
    <3>3. m \in Int /\ Len(q) \in Int /\ m >= 2
      BY <3>2 DEF Calls
    <3>4. \A i \in m..Len(q) : q[i] \in Operations
      BY <3>3, ElementOfSeq DEF Calls
    <3>5. SubSeq(q, m, Len(q)) \in Calls
      BY <3>3, <3>4, SubSeqProperties DEF Calls
    <3> QED BY <2>2, <3>5 DEF Rest
  <2> QED BY <2>1, <2>2
<1> QED BY <1>2, <1>7, <1>8

(* ---------------------------------- types -------------------------------- *)

MainPlaces == {"boot", "start", "top", "read", "write", "jack", "apply", "usb",
               "down", "wait", "off"}
MainStates == [at : MainPlaces, next : {"top", "jack", "down"},
               level : Levels \cup {NoVol}, failed : BOOLEAN, todo : Calls]
UiStates == [at : {"idle", "keys"}, key : Keys, released : BOOLEAN, todo : Calls]

LEMMA GotoType ==
  ASSUME mp \in MainStates, NEW a \in MainPlaces
  PROVE  /\ Goto(a) \in MainStates
         /\ \A n \in {"top", "jack", "down"} : [Goto(a) EXCEPT !.next = n] \in MainStates
         /\ \A f \in BOOLEAN : [Goto(a) EXCEPT !.failed = f] \in MainStates
         /\ \A q \in Calls : [Goto(a) EXCEPT !.todo = q] \in MainStates
<1> DEFINE todo == CASE a = "jack" -> HeadphonesPresent
                     [] a = "down" -> PowerDownWrites
                     [] OTHER -> << >>
<1>1. todo \in Calls
  BY DriverTypes
<1>2. Goto(a) = [mp EXCEPT !.at = a, !.next = "top", !.level = NoVol, !.todo = todo]
  BY DEF Goto
<1> HIDE DEF todo
<1>3. Goto(a) \in MainStates
  BY <1>1, <1>2 DEF MainStates
<1> QED BY <1>3 DEF MainStates

\* A write of a driver's call moves values of the chips' types.
LEMMA ChipTypes ==
  ASSUME TypeOK, NEW op \in Operations, Proceeds(op) \/ Fails(op)
  PROVE  /\ cache' \in [Chips -> Pages]
         /\ page' \in [Chips -> Pages]
         /\ regs' \in [Registers -> Values]
         /\ wedged' \in BOOLEAN
<1>1. op.reg \in RegisterNames /\ op.val \in Values
  BY DEF Operations, RegisterNames
<1>2. op.reg[1] \in Chips /\ op.reg[2] \in Pages /\ NoPage \in Pages
  BY <1>1, RegisterTypes DEF Pages
<1>3. CASE Fails(op)
  BY <1>2, <1>3 DEF Fails, TypeOK
<1>4. CASE Proceeds(op)
  <2>1. op.at \in {"test", "note", "data"}
    BY DEF Operations
  <2>2. CASE Tested(op) /\ UNCHANGED wedged
    BY <1>2, <2>2 DEF Tested, TypeOK
  <2>3. CASE Noted(op) /\ UNCHANGED wedged
    BY <1>2, <2>3 DEF Noted, TypeOK
  <2>4. CASE Written(op) /\ UNCHANGED wedged
    BY <1>1, <2>4 DEF Written, TypeOK
  <2> QED BY <1>4, <2>1, <2>2, <2>3, <2>4 DEF Proceeds
<1> QED BY <1>3, <1>4

\* Every variable keeps its type.
THEOREM Typing == Spec => []TypeOK
<1>1. Init => TypeOK
  <2> SUFFICES ASSUME Init PROVE TypeOK
    OBVIOUS
  <2>1. SilentRegs \in [Registers -> Values]
    BY RegisterTypes DEF SilentRegs
  <2>2. << >> \in Seq(Operations)
    BY DriverTypes DEF Calls
  <2>3. ui \in [at : {"idle", "keys"}, key : Keys, released : BOOLEAN,
                todo : Seq(Operations)]
    BY <2>2 DEF Init, Keys
  <2>4. mp \in [at : MainPlaces, next : {"top", "jack", "down"},
                level : Levels \cup {NoVol}, failed : BOOLEAN,
                todo : Seq(Operations)]
    BY <2>2 DEF Init, MainPlaces
  <2>5. jack \in [raw : BOOLEAN, cnt : 0..2]
    BY DEF Init
  <2>6. /\ cache \in [Chips -> Pages] /\ page \in [Chips -> Pages]
        /\ regs \in [Registers -> Values]
    BY <2>1 DEF Init, Pages
  <2>7. /\ vol \in Levels /\ dirty \in BOOLEAN /\ saved \in Levels \cup {NoVol}
        /\ hpOut \in BOOLEAN /\ activity \in {"idle", "play", "upload"}
        /\ wedged \in BOOLEAN
    BY RegisterTypes DEF Init
  <2> QED BY <2>3, <2>4, <2>5, <2>6, <2>7 DEF TypeOK, MainPlaces
<1>2. TypeOK /\ [Next]_vars => TypeOK'
  <2> SUFFICES ASSUME TypeOK, [Next]_vars PROVE TypeOK'
    OBVIOUS
  <2>m. mp \in MainStates
    BY DEF TypeOK, MainStates, MainPlaces, Calls
  <2>u. ui \in UiStates
    BY DEF TypeOK, UiStates, Calls
  <2>s. SilentRegs \in [Registers -> Values]
    BY RegisterTypes DEF SilentRegs
  <2>1. CASE UiKeys
    <3>1. PICK key \in Keys, repeat \in BOOLEAN, looping \in BOOLEAN :
            LET l == IF looping THEN vol ELSE Stepped(key, repeat, vol)
            IN  /\ vol' = l
                /\ ui' = [at |-> "keys", key |-> key,
                          released |-> ToSave(key),
                          todo |-> IF l = vol \/ mp.at = "wait" THEN << >>
                                   ELSE ApplyStep(hpOut, l)]
      BY <2>1 DEF UiKeys
    <3>2. Stepped(key, repeat, vol) \in Levels
      BY OutputAssumption DEF Stepped, Levels, TypeOK, Keys
    <3>3. vol' \in Levels
      BY <3>1, <3>2 DEF TypeOK
    <3>4. ToSave(key) \in BOOLEAN
      BY DEF ToSave
    <3>5. ApplyStep(hpOut, vol') \in Calls /\ << >> \in Calls
      BY <3>3, DriverTypes DEF TypeOK
    <3>6. ui' \in UiStates
      BY <3>1, <3>4, <3>5 DEF UiStates
    <3> QED BY <2>1, <3>3, <3>6 DEF UiKeys, TypeOK, UiStates, Calls, chips
  <2>2. CASE UiDone
    <3>1. ui' \in UiStates /\ dirty' \in BOOLEAN
      BY <2>2, <2>u DEF UiDone, UiStates, TypeOK
    <3> QED BY <2>2, <3>1 DEF UiDone, TypeOK, UiStates, Calls, chips
  <2>3. CASE UiTransfer
    <3>1. ui.todo \in Calls /\ ui.todo # << >>
      BY <2>3, <2>u DEF UiTransfer, UiStates
    <3>2. /\ ui.todo[1] \in Operations
          /\ Left(ui.todo) \in Calls
          /\ Rest(ui.todo) \in Calls
      BY <3>1, LeftType
    <3>3. ui' \in UiStates
      BY <2>3, <2>u, <3>2 DEF UiTransfer, UiStates
    <3>4. Proceeds(ui.todo[1]) \/ Fails(ui.todo[1])
      BY <2>3 DEF UiTransfer
    <3> QED BY <2>3, <3>2, <3>3, <3>4, ChipTypes DEF UiTransfer, TypeOK, UiStates, Calls
  <2>4. CASE MainTransfer
    <3>1. mp.todo \in Calls /\ mp.todo # << >>
      BY <2>4, <2>m DEF MainTransfer, MainStates
    <3>2. /\ mp.todo[1] \in Operations
          /\ Left(mp.todo) \in Calls
          /\ Rest(mp.todo) \in Calls
      BY <3>1, LeftType
    <3>3. mp' \in MainStates
      BY <2>4, <2>m, <3>2 DEF MainTransfer, MainStates
    <3>4. Proceeds(mp.todo[1]) \/ Fails(mp.todo[1])
      BY <2>4 DEF MainTransfer
    <3> QED BY <2>4, <3>2, <3>3, <3>4, ChipTypes
            DEF MainTransfer, TypeOK, MainStates, MainPlaces, Calls
  <2>5. CASE Top
    <3>1. mp' \in MainStates
      BY <2>5, <2>m, GotoType DEF Top, MainPlaces
    <3> QED BY <2>5, <3>1 DEF Top, TypeOK, MainStates, MainPlaces, Calls, chips
  <2>6. CASE PowerOff
    <3>1. mp' \in MainStates
      BY <2>6, <2>m, GotoType DEF PowerOff, MainPlaces
    <3> QED BY <2>6, <3>1 DEF PowerOff, TypeOK, MainStates, MainPlaces, Calls, chips
  <2>7. CASE FlushRead
    <3>0. mp.next \in MainPlaces
      BY <2>m DEF MainStates, MainPlaces
    <3>1. mp' \in MainStates
      <4>1. CASE mp' = [mp EXCEPT !.at = "write", !.level = vol]
        BY <2>m, <4>1 DEF MainStates, MainPlaces, TypeOK
      <4>2. CASE mp' = [Goto(mp.next) EXCEPT !.failed = TRUE]
        BY <2>m, <3>0, <4>2, GotoType
      <4> QED BY <2>7, <4>1, <4>2 DEF FlushRead
    <3> QED BY <2>7, <3>1 DEF FlushRead, TypeOK, MainStates, MainPlaces, Calls, chips
  <2>8. CASE FlushWrite
    <3>0. mp.next \in MainPlaces /\ mp.level \in Levels \cup {NoVol}
      BY <2>m DEF MainStates, MainPlaces
    <3>1. mp' \in MainStates
      BY <2>8, <2>m, <3>0, GotoType DEF FlushWrite
    <3>2. saved' \in Levels \cup {NoVol} /\ dirty' \in BOOLEAN
      BY <2>8, <3>0 DEF FlushWrite, TypeOK
    <3> QED BY <2>8, <3>1, <3>2
            DEF FlushWrite, TypeOK, MainStates, MainPlaces, Calls, chips
  <2>9. CASE JackSeen
    <3>1. PICK raw \in BOOLEAN :
            /\ jack' = [raw |-> raw, cnt |-> Counted(raw)]
            /\ wedged' \in BOOLEAN
            /\ IF Counted(raw) = 2 /\ raw # hpOut
                 THEN /\ hpOut' = raw
                      /\ mp' = [mp EXCEPT !.at = "apply", !.todo = MuteOld(raw)]
                 ELSE /\ mp' = Goto("usb")
                      /\ UNCHANGED hpOut
      BY <2>9 DEF JackSeen, TypeOK
    <3>2. Counted(raw) \in 0..2
      BY DEF Counted, TypeOK
    <3>3. MuteOld(raw) \in Calls
      BY DriverTypes
    <3>4. Goto("usb") \in MainStates
      BY <2>m, GotoType DEF MainPlaces
    <3>5. [mp EXCEPT !.at = "apply", !.todo = MuteOld(raw)] \in MainStates
      BY <2>m, <3>3 DEF MainStates, MainPlaces
    <3>6. mp' \in MainStates /\ hpOut' \in BOOLEAN
      BY <3>1, <3>4, <3>5 DEF TypeOK
    <3> QED BY <2>9, <3>1, <3>2, <3>6
            DEF JackSeen, TypeOK, MainStates, MainPlaces, Calls, chips
  <2>10. CASE Apply
    <3>1. UnmuteNew(hpOut, vol) \in Calls
      BY DriverTypes DEF TypeOK
    <3>2. mp' \in MainStates
      BY <2>10, <2>m, <3>1, GotoType DEF Apply, MainPlaces
    <3> QED BY <2>10, <3>2 DEF Apply, TypeOK, MainStates, MainPlaces, Calls, chips
  <2>11. CASE Usb
    <3>1. mp' \in MainStates
      BY <2>11, <2>m, GotoType DEF Usb, MainPlaces
    <3> QED BY <2>11, <3>1 DEF Usb, TypeOK, MainStates, MainPlaces, Calls, chips
  <2>12. CASE PoweredDown
    <3>1. mp' \in MainStates
      BY <2>12, <2>m, GotoType DEF PoweredDown, MainPlaces
    <3> QED BY <2>12, <2>s, <3>1
            DEF PoweredDown, TypeOK, MainStates, MainPlaces, Calls
  <2>13. CASE SystemOff
    <3>1. mp' \in MainStates
      BY <2>13, <2>m, GotoType DEF SystemOff, MainPlaces
    <3> QED BY <2>13, <3>1 DEF SystemOff, TypeOK, MainStates, MainPlaces, Calls, chips
  <2>14. CASE Boot
    <3>1. PICK ok \in BOOLEAN, present \in BOOLEAN :
            /\ vol' = IF ok THEN Restored(saved) ELSE DefaultVol
            /\ hpOut' = present
            /\ jack' = [raw |-> present, cnt |-> 0]
            /\ mp' = [at |-> "start", next |-> "top", level |-> NoVol,
                      failed |-> ~ok, todo |-> BootRoute(hpOut', vol')]
      BY <2>14 DEF Boot
    <3>2. vol' \in Levels
      BY <3>1, RegisterTypes DEF Restored, TypeOK
    <3>3. BootRoute(hpOut', vol') \in Calls /\ << >> \in Calls
      BY <3>1, <3>2, DriverTypes
    <3>4. mp' \in MainStates
      BY <3>1, <3>3 DEF MainStates, MainPlaces
    <3>5. ui' \in UiStates
      BY <2>14, <3>3 DEF Boot, UiStates, Keys
    <3>6. /\ cache' \in [Chips -> Pages] /\ page' \in [Chips -> Pages]
          /\ regs' \in [Registers -> Values]
      BY <2>14, <2>s DEF Boot, Pages
    <3>7. /\ dirty' \in BOOLEAN /\ activity' \in {"idle", "play", "upload"}
          /\ wedged' \in BOOLEAN /\ saved' = saved
      BY <2>14 DEF Boot
    <3>8. hpOut' \in BOOLEAN /\ jack' \in [raw : BOOLEAN, cnt : 0..2]
      BY <3>1
    <3> QED BY <3>2, <3>4, <3>5, <3>6, <3>7, <3>8
            DEF TypeOK, MainStates, MainPlaces, UiStates, Calls
  <2>15. CASE Started
    <3>1. mp' \in MainStates
      BY <2>15, <2>m, GotoType DEF Started, MainPlaces
    <3> QED BY <2>15, <3>1 DEF Started, TypeOK, MainStates, MainPlaces, Calls, chips
  <2>16. CASE UNCHANGED vars
    BY <2>16 DEF vars, TypeOK
  <2> QED BY <2>1, <2>2, <2>3, <2>4, <2>5, <2>6, <2>7, <2>8, <2>9, <2>10, <2>11,
             <2>12, <2>13, <2>14, <2>15, <2>16 DEF Next
<1> QED BY <1>1, <1>2, PTL DEF Spec

(* ---------------------------- the volume is kept ------------------------- *)

\* Without preemption the UI is in a round only where main lets it begin one;
\* a level under way to the disk is the volume; a level that is neither is due.
VolumeInv ==
  /\ ui.at = "idle" => ~ui.released
  /\ ui.at = "keys" => mp.at \in {"top", "read", "jack", "usb"}
  /\ mp.at = "write" => mp.level = vol
  /\ ui.key = "none" /\ ~mp.failed => dirty \/ ui.released \/ saved \in {NoVol, vol}
  /\ mp.at \in {"down", "wait", "off"} /\ ~mp.failed => ~dirty

LEMMA VolumeInvStep ==
  ASSUME Races = {}, TypeOK, VolumeInv, [Next]_vars
  PROVE  VolumeInv'
<1>m. /\ mp \in MainStates /\ ui \in UiStates
  BY DEF TypeOK, MainStates, MainPlaces, UiStates, Calls
<1>b. \A q : Between(q) => q = << >>
  BY DEF Between
<1>t. MainTurn => ui.at = "idle"
  BY <1>b DEF MainTurn
<1>g. \A a \in MainPlaces : /\ Goto(a).at = a
                            /\ Goto(a).failed = mp.failed
  BY <1>m DEF Goto, MainStates
<1>f. \A a \in MainPlaces : \A f \in BOOLEAN :
        /\ [Goto(a) EXCEPT !.failed = f].at = a
        /\ [Goto(a) EXCEPT !.failed = f].failed = f
  BY <1>m, <1>g DEF Goto, MainStates
<1>q. \A a \in MainPlaces : \A n, q :
        /\ [Goto(a) EXCEPT !.next = n].at = a
        /\ [Goto(a) EXCEPT !.next = n].failed = mp.failed
        /\ [Goto(a) EXCEPT !.todo = q].at = a
        /\ [Goto(a) EXCEPT !.todo = q].failed = mp.failed
  BY <1>m, <1>g DEF Goto, MainStates
<1>1. CASE UiKeys
  <2>1. mp.at \in {"top", "read", "jack", "usb"}
    BY <1>1, <1>m DEF UiKeys, UiTurn, Running, MainStates, MainPlaces
  <2>2. PICK key \in Keys, repeat \in BOOLEAN, looping \in BOOLEAN :
          /\ vol' = IF looping THEN vol ELSE Stepped(key, repeat, vol)
          /\ ui'.at = "keys" /\ ui'.key = key /\ ui'.released = ToSave(key)
    BY <1>1 DEF UiKeys
  <2>3. key = "none" => vol' = vol
    BY <2>2 DEF Stepped
  <2>4. key = "none" /\ ui.key # "none" => ui'.released
    BY <2>2 DEF ToSave
  <2>5. ui.at = "idle"
    BY <1>1 DEF UiKeys
  <2>6. mp' = mp /\ dirty' = dirty /\ saved' = saved
    BY <1>1 DEF UiKeys
  <2> QED BY <2>1, <2>2, <2>3, <2>4, <2>5, <2>6 DEF VolumeInv
<1>2. CASE UiDone
  <2>1. /\ ui'.at = "idle" /\ ~ui'.released /\ ui'.key = ui.key
        /\ dirty' = (dirty \/ ui.released)
        /\ mp' = mp /\ saved' = saved /\ vol' = vol
    BY <1>2, <1>m DEF UiDone, UiStates
  <2>2. ui.at = "keys"
    BY <1>2 DEF UiDone
  <2> QED BY <2>1, <2>2 DEF VolumeInv
<1>3. CASE UiTransfer
  <2>1. /\ ui'.at = ui.at /\ ui'.released = ui.released /\ ui'.key = ui.key
        /\ UNCHANGED <<mp, dirty, saved, vol>>
    BY <1>3, <1>m DEF UiTransfer, UiStates
  <2> QED BY <2>1 DEF VolumeInv
<1>4. CASE MainTransfer
  <2>1. /\ mp'.at = mp.at /\ mp'.failed = mp.failed /\ mp'.level = mp.level
        /\ UNCHANGED <<ui, dirty, saved, vol>>
    BY <1>4, <1>m DEF MainTransfer, MainStates
  <2> QED BY <2>1 DEF VolumeInv
<1>5. CASE Top
  <2>1. /\ mp'.at \in {"read", "jack"} /\ mp'.failed = mp.failed
        /\ UNCHANGED <<ui, dirty, saved, vol>>
    BY <1>5, <1>g, <1>q DEF Top, MainPlaces
  <2>2. ui.at = "idle"
    BY <1>5, <1>t DEF Top, MainAt
  <2> QED BY <2>1, <2>2 DEF VolumeInv
<1>6. CASE PowerOff
  <2>1. /\ IF dirty THEN mp'.at = "read" ELSE mp'.at = "down"
        /\ mp'.failed = mp.failed
        /\ UNCHANGED <<ui, dirty, saved, vol>>
    BY <1>6, <1>g, <1>q DEF PowerOff, MainPlaces
  <2>2. ui.at = "idle"
    BY <1>6, <1>t DEF PowerOff, MainAt
  <2>3. dirty \in BOOLEAN
    BY DEF TypeOK
  <2> QED BY <2>1, <2>2, <2>3 DEF VolumeInv
<1>7. CASE FlushRead
  <2>1. mp.next \in MainPlaces /\ mp.next # "write"
    BY <1>m DEF MainStates, MainPlaces
  <2>2. /\ \/ mp'.at = "write" /\ mp'.level = vol /\ mp'.failed = mp.failed
           \/ mp'.at # "write" /\ mp'.failed
        /\ UNCHANGED <<ui, dirty, saved, vol>>
    <3>1. CASE mp' = [mp EXCEPT !.at = "write", !.level = vol]
      BY <1>7, <1>m, <3>1 DEF FlushRead, MainStates
    <3>2. CASE mp' = [Goto(mp.next) EXCEPT !.failed = TRUE]
      BY <1>7, <1>f, <2>1, <3>2 DEF FlushRead
    <3> QED BY <1>7, <3>1, <3>2 DEF FlushRead
  <2>3. ui.at = "idle"
    BY <1>7, <1>t DEF FlushRead, MainAt
  <2> QED BY <2>2, <2>3 DEF VolumeInv
<1>8. CASE FlushWrite
  <2>1. mp.next \in MainPlaces /\ mp.next # "write"
    BY <1>m DEF MainStates, MainPlaces
  <2>2. mp.level = vol /\ ui.at = "idle"
    BY <1>8, <1>t DEF FlushWrite, MainAt, VolumeInv
  <2>3. CASE saved' = mp.level /\ dirty' = FALSE /\ mp' = [Goto(mp.next) EXCEPT !.failed = FALSE]
    <3>1. /\ mp'.at # "write" /\ ~mp'.failed
          /\ UNCHANGED <<ui, vol>>
      BY <1>8, <1>f, <2>1, <2>3 DEF FlushWrite
    <3> QED BY <2>2, <2>3, <3>1 DEF VolumeInv
  <2>4. CASE mp' = [Goto(mp.next) EXCEPT !.failed = TRUE]
    <3>1. /\ mp'.at # "write" /\ mp'.failed
          /\ UNCHANGED <<ui, vol>>
      BY <1>8, <1>f, <2>1, <2>4 DEF FlushWrite
    <3> QED BY <2>2, <3>1 DEF VolumeInv
  <2> QED BY <1>8, <2>3, <2>4 DEF FlushWrite
<1>9. CASE JackSeen
  <2>1. /\ mp'.at \in {"apply", "usb"} /\ mp'.failed = mp.failed
        /\ UNCHANGED <<ui, dirty, saved, vol>>
    BY <1>9, <1>g, <1>m DEF JackSeen, MainPlaces, MainStates
  <2>2. ui.at = "idle"
    BY <1>9, <1>t DEF JackSeen
  <2> QED BY <2>1, <2>2 DEF VolumeInv
<1>10. CASE Apply
  <2>1. /\ mp'.at = "usb" /\ mp'.failed = mp.failed
        /\ UNCHANGED <<ui, dirty, saved, vol>>
    BY <1>10, <1>q DEF Apply, MainPlaces
  <2>2. ui.at = "idle"
    BY <1>10, <1>t DEF Apply, MainAt
  <2> QED BY <2>1, <2>2 DEF VolumeInv
<1>11. CASE Usb
  <2>1. /\ mp'.at = "top" /\ mp'.failed = mp.failed
        /\ UNCHANGED <<ui, dirty, vol>>
        /\ saved' \in {saved, NoVol}
    BY <1>11, <1>g DEF Usb, MainPlaces
  <2>2. ui.at = "idle"
    BY <1>11, <1>t DEF Usb, MainAt
  <2> QED BY <2>1, <2>2 DEF VolumeInv
<1>12. CASE PoweredDown
  <2>1. /\ mp'.at = "wait" /\ mp'.failed = mp.failed /\ mp.at = "down"
        /\ UNCHANGED <<ui, dirty, saved, vol>>
    BY <1>12, <1>g DEF PoweredDown, MainPlaces, MainAt
  <2>2. ui.at = "idle"
    BY <1>12, <1>t DEF PoweredDown, MainAt
  <2> QED BY <2>1, <2>2 DEF VolumeInv
<1>13. CASE SystemOff
  <2>1. /\ mp'.at = "off" /\ mp'.failed = mp.failed /\ mp.at = "wait"
        /\ UNCHANGED <<ui, dirty, saved, vol>>
    BY <1>13, <1>g DEF SystemOff, MainPlaces, MainAt
  <2>2. ui.at = "idle"
    BY <1>13, <1>t DEF SystemOff, MainAt
  <2> QED BY <2>1, <2>2 DEF VolumeInv
<1>14. CASE Boot
  <2>1. PICK ok \in BOOLEAN : /\ vol' = IF ok THEN Restored(saved) ELSE DefaultVol
                              /\ mp'.at = "start" /\ mp'.failed = ~ok
    BY <1>14 DEF Boot
  <2>2. /\ ui'.at = "idle" /\ ~ui'.released /\ saved' = saved
    BY <1>14 DEF Boot
  <2>3. ok => saved' = NoVol \/ saved' = vol'
    BY <2>1, <2>2 DEF Restored
  <2> QED BY <2>1, <2>2, <2>3 DEF VolumeInv
<1>15. CASE Started
  <2>1. /\ mp'.at = "top" /\ mp'.failed = mp.failed
        /\ UNCHANGED <<ui, dirty, saved, vol>>
    BY <1>15, <1>g DEF Started, MainPlaces
  <2>2. ui.at = "idle"
    BY <1>15, <1>t DEF Started, MainAt
  <2> QED BY <2>1, <2>2 DEF VolumeInv
<1>16. CASE UNCHANGED vars
  BY <1>16 DEF vars, VolumeInv
<1> QED BY <1>1, <1>2, <1>3, <1>4, <1>5, <1>6, <1>7, <1>8, <1>9, <1>10, <1>11,
           <1>12, <1>13, <1>14, <1>15, <1>16 DEF Next

\* Where the UI thread does not preempt main, the level the user left is saved,
\* or due, or back after a boot, for every number of levels and every failure of
\* the card, the bus or the supply.
THEOREM VolumeSafe == ASSUME Races = {} PROVE Spec => []VolumeKept
<1>1. Init => VolumeInv
  BY DEF Init, VolumeInv
<1>2. TypeOK /\ VolumeInv /\ [Next]_vars => VolumeInv'
  BY VolumeInvStep
<1>3. VolumeInv => VolumeKept
  BY DEF VolumeInv, VolumeKept
<1> QED BY <1>1, <1>2, <1>3, Typing, PTL DEF Spec

(* ------------------------- what a driver call leaves --------------------- *)

Fresh(q) == \A i \in 1..Len(q) : q[i].at = "test"

\* No register is another one.
LEMMA RegistersDiffer ==
  /\ HpCtl # MixerA /\ HpCtl # MixerB /\ MixerA # MixerB
  /\ SpkDriver # SpkDac /\ SpkDriver # SpkVol /\ SpkDac # SpkVol
  /\ \A s \in {SpkDriver, SpkDac, SpkVol} : s # HpCtl /\ s # MixerA /\ s # MixerB
  /\ Detect \notin Registers
BY DEF HpCtl, MixerA, MixerB, SpkDriver, SpkDac, SpkVol, Detect, Registers

\* A call of one write, ...
LEMMA CallOf1 ==
  ASSUME NEW r, NEW v
  PROVE  LET q == Call(<<Write(r, v)>>)
         IN  Len(q) = 1 /\ q[1].reg = r /\ q[1].val = v /\ q[1].at = "test"
BY DEF Call, Write

\* ... of two ...
LEMMA CallOf2 ==
  ASSUME NEW r1, NEW v1, NEW r2, NEW v2
  PROVE  LET q == Call(<<Write(r1, v1), Write(r2, v2)>>)
         IN  /\ Len(q) = 2
             /\ q[1].reg = r1 /\ q[1].val = v1 /\ q[1].at = "test"
             /\ q[2].reg = r2 /\ q[2].val = v2 /\ q[2].at = "test"
BY DEF Call, Write

\* ... and of three.
LEMMA CallOf3 ==
  ASSUME NEW r1, NEW v1, NEW r2, NEW v2, NEW r3, NEW v3
  PROVE  LET q == Call(<<Write(r1, v1), Write(r2, v2), Write(r3, v3)>>)
         IN  /\ Len(q) = 3
             /\ q[1].reg = r1 /\ q[1].val = v1 /\ q[1].at = "test"
             /\ q[2].reg = r2 /\ q[2].val = v2 /\ q[2].at = "test"
             /\ q[3].reg = r3 /\ q[3].val = v3 /\ q[3].at = "test"
BY DEF Call, Write

\* A concatenation has the elements of both.
LEMMA Joined ==
  ASSUME NEW p \in Calls, NEW q \in Calls
  PROVE  /\ Len(p \o q) = Len(p) + Len(q)
         /\ \A i \in 1..Len(p) : (p \o q)[i] = p[i]
         /\ \A i \in 1..Len(q) : (p \o q)[Len(p) + i] = q[i]
BY ConcatProperties DEF Calls

\* Two calls, one after the other.
LEMMA JoinedCalls ==
  ASSUME NEW p \in Calls, NEW q \in Calls
  PROVE  /\ Fresh(p) /\ Fresh(q) => Fresh(p \o q)
         /\ \A r : Spares(p, r) /\ Spares(q, r) => Spares(p \o q, r)
         /\ \A r, v : Writes(q, r, v) => Writes(p \o q, r, v)
         /\ \A r, v : Writes(p, r, v) /\ Spares(q, r) => Writes(p \o q, r, v)
<1>1. Len(p) \in Nat /\ Len(q) \in Nat
  BY DEF Calls
<1>2. /\ Len(p \o q) = Len(p) + Len(q)
      /\ \A i \in 1..Len(p) : (p \o q)[i] = p[i]
      /\ \A i \in 1..Len(q) : (p \o q)[Len(p) + i] = q[i]
  BY Joined
<1>3. ASSUME NEW k \in 1..Len(p \o q)
      PROVE  \/ k \in 1..Len(p) /\ (p \o q)[k] = p[k]
             \/ \E i \in 1..Len(q) : k = Len(p) + i /\ (p \o q)[k] = q[i]
  <2>1. CASE k <= Len(p)
    BY <1>1, <1>2, <2>1
  <2>2. CASE k > Len(p)
    <3>1. k - Len(p) \in 1..Len(q) /\ k = Len(p) + (k - Len(p))
      BY <1>1, <1>2, <2>2
    <3> QED
      BY <1>2, <3>1
  <2> QED
    BY <1>1, <1>2, <2>1, <2>2
<1>4. Fresh(p) /\ Fresh(q) => Fresh(p \o q)
  BY <1>3 DEF Fresh
<1>5. \A r : Spares(p, r) /\ Spares(q, r) => Spares(p \o q, r)
  BY <1>3 DEF Spares
<1>6. ASSUME NEW r, NEW v, Writes(q, r, v) PROVE Writes(p \o q, r, v)
  <2>1. PICK i \in 1..Len(q) : /\ q[i].reg = r /\ q[i].val = v
                               /\ \A j \in (i + 1)..Len(q) : q[j].reg # r
    BY <1>6 DEF Writes
  <2>2. Len(p) + i \in 1..Len(p \o q) /\ (p \o q)[Len(p) + i] = q[i]
    BY <1>1, <1>2
  <2>3. ASSUME NEW j \in ((Len(p) + i) + 1)..Len(p \o q) PROVE (p \o q)[j].reg # r
    <3>1. j - Len(p) \in (i + 1)..Len(q) /\ j - Len(p) \in 1..Len(q)
          /\ j = Len(p) + (j - Len(p))
      BY <1>1, <1>2
    <3>2. (p \o q)[j] = q[j - Len(p)]
      BY <1>2, <3>1
    <3> QED
      BY <2>1, <3>1, <3>2
  <2> QED
    BY <2>1, <2>2, <2>3 DEF Writes
<1>7. ASSUME NEW r, NEW v, Writes(p, r, v), Spares(q, r) PROVE Writes(p \o q, r, v)
  <2>1. PICK i \in 1..Len(p) : /\ p[i].reg = r /\ p[i].val = v
                               /\ \A j \in (i + 1)..Len(p) : p[j].reg # r
    BY <1>7 DEF Writes
  <2>2. i \in 1..Len(p \o q) /\ (p \o q)[i] = p[i]
    BY <1>1, <1>2
  <2>3. ASSUME NEW j \in (i + 1)..Len(p \o q) PROVE (p \o q)[j].reg # r
    <3>1. j \in 1..Len(p \o q)
      BY <1>1, <1>2
    <3>2. CASE j \in 1..Len(p)
      <4>1. j \in (i + 1)..Len(p)
        BY <1>1, <3>2
      <4> QED
        BY <1>2, <2>1, <3>2, <4>1
    <3>3. CASE \E k \in 1..Len(q) : (p \o q)[j] = q[k]
      BY <1>7, <3>3 DEF Spares
    <3> QED
      BY <1>3, <3>1, <3>2, <3>3
  <2> QED
    BY <2>1, <2>2, <2>3 DEF Writes
<1> QED
  BY <1>4, <1>5, <1>6, <1>7

\* What the last of one, two or three writes leaves.
LEMMA Few ==
  ASSUME NEW q, Len(q) \in 1..3
  PROVE  /\ Writes(q, q[Len(q)].reg, q[Len(q)].val)
         /\ \A r : Spares(q, r) <=> \A i \in 1..Len(q) : q[i].reg # r
         /\ Len(q) = 2 /\ q[1].reg # q[2].reg => Writes(q, q[1].reg, q[1].val)
         /\ Len(q) = 3 /\ q[2].reg # q[3].reg => Writes(q, q[2].reg, q[2].val)
<1>1. Writes(q, q[Len(q)].reg, q[Len(q)].val)
  <2>1. Len(q) \in 1..Len(q) /\ \A j \in (Len(q) + 1)..Len(q) : FALSE
    OBVIOUS
  <2> QED
    BY <2>1 DEF Writes
<1>2. ASSUME Len(q) = 2, q[1].reg # q[2].reg PROVE Writes(q, q[1].reg, q[1].val)
  <2>1. 1 \in 1..Len(q) /\ \A j \in (1 + 1)..Len(q) : j = 2
    BY <1>2
  <2> QED
    BY <1>2, <2>1 DEF Writes
<1>3. ASSUME Len(q) = 3, q[2].reg # q[3].reg PROVE Writes(q, q[2].reg, q[2].val)
  <2>1. 2 \in 1..Len(q) /\ \A j \in (2 + 1)..Len(q) : j = 3
    BY <1>3
  <2> QED
    BY <1>3, <2>1 DEF Writes
<1> QED
  BY <1>1, <1>2, <1>3 DEF Spares

\* The speaker's calls.
LEMMA SpeakerCalls ==
  /\ SpeakerMute \in Calls /\ SpeakerUnmute \in Calls
  /\ \A l \in Levels : SpeakerVolume(l) \in Calls /\ Fresh(SpeakerVolume(l))
                       /\ \A r \in Registers \ {SpkVol} : Spares(SpeakerVolume(l), r)
  /\ Fresh(SpeakerMute) /\ Writes(SpeakerMute, SpkDriver, Muted)
  /\ Fresh(SpeakerUnmute) /\ Writes(SpeakerUnmute, SpkDriver, Unmuted)
  /\ Writes(SpeakerUnmute, SpkDac, Unmuted)
  /\ \A r \in {HpCtl, MixerA, MixerB} : Spares(SpeakerMute, r) /\ Spares(SpeakerUnmute, r)
<1> DEFINE mute == SpeakerMute
           unmute == SpeakerUnmute
<1>1. /\ Write(SpkVol, 0) \in Operations /\ Write(SpkVol, MaxVol) \in Operations
      /\ Write(SpkDac, Muted) \in Operations /\ Write(SpkDac, Unmuted) \in Operations
      /\ Write(SpkDriver, Muted) \in Operations /\ Write(SpkDriver, Unmuted) \in Operations
      /\ \A l \in Levels : Write(SpkVol, l) \in Operations
  BY RegisterTypes, WriteType
<1>2. \A a, b, c \in Operations : <<a, b, c>> \in Calls /\ <<a, b, c>> # << >>
  BY DEF Calls
<1>3. \A a \in Operations : <<a>> \in Calls /\ <<a>> # << >>
  BY DEF Calls
<1>4. mute \in Calls /\ unmute \in Calls
  BY <1>1, <1>2, CallType DEF SpeakerMute, SpeakerUnmute
<1>5. /\ Len(mute) = 3
      /\ mute[1].reg = SpkVol /\ mute[1].val = 0 /\ mute[1].at = "test"
      /\ mute[2].reg = SpkDac /\ mute[2].val = Muted /\ mute[2].at = "test"
      /\ mute[3].reg = SpkDriver /\ mute[3].val = Muted /\ mute[3].at = "test"
  BY CallOf3 DEF SpeakerMute
<1>6. /\ Len(unmute) = 3
      /\ unmute[1].reg = SpkVol /\ unmute[1].val = MaxVol /\ unmute[1].at = "test"
      /\ unmute[2].reg = SpkDriver /\ unmute[2].val = Unmuted /\ unmute[2].at = "test"
      /\ unmute[3].reg = SpkDac /\ unmute[3].val = Unmuted /\ unmute[3].at = "test"
  BY CallOf3 DEF SpeakerUnmute
<1> HIDE DEF mute, unmute
<1>7. Fresh(mute) /\ Fresh(unmute)
  BY <1>5, <1>6 DEF Fresh
<1>8. Writes(mute, SpkDriver, Muted) /\ Writes(unmute, SpkDac, Unmuted)
      /\ Writes(unmute, SpkDriver, Unmuted)
  BY <1>5, <1>6, Few, RegistersDiffer
<1>9. \A r \in {HpCtl, MixerA, MixerB} : Spares(mute, r) /\ Spares(unmute, r)
  BY <1>5, <1>6, RegistersDiffer DEF Spares
<1>10. ASSUME NEW l \in Levels
       PROVE  SpeakerVolume(l) \in Calls /\ Fresh(SpeakerVolume(l))
              /\ \A r \in Registers \ {SpkVol} : Spares(SpeakerVolume(l), r)
  <2>1. SpeakerVolume(l) \in Calls
    BY <1>1, <1>3, CallType DEF SpeakerVolume
  <2>2. Len(SpeakerVolume(l)) = 1 /\ SpeakerVolume(l)[1].reg = SpkVol
        /\ SpeakerVolume(l)[1].at = "test"
    BY CallOf1 DEF SpeakerVolume
  <2> QED
    BY <2>1, <2>2 DEF Fresh, Spares
<1> QED
  BY <1>4, <1>7, <1>8, <1>9, <1>10 DEF mute, unmute

\* The headphones' calls.
LEMMA HeadphoneCalls ==
  /\ \A v \in {Muted, Unmuted} :
       /\ HeadphoneMute(v) \in Calls /\ Fresh(HeadphoneMute(v))
       /\ Writes(HeadphoneMute(v), HpCtl, v)
       /\ \A r \in Registers \ {HpCtl} : Spares(HeadphoneMute(v), r)
  /\ \A l \in Levels :
       /\ HeadphoneVolume(l) \in Calls /\ Fresh(HeadphoneVolume(l))
       /\ Writes(HeadphoneVolume(l), MixerA, l) /\ Writes(HeadphoneVolume(l), MixerB, l)
       /\ \A r \in Registers \ {MixerA, MixerB} : Spares(HeadphoneVolume(l), r)
  /\ HeadphonesPresent \in Calls /\ Fresh(HeadphonesPresent)
  /\ \A i \in 1..Len(HeadphonesPresent) : HeadphonesPresent[i].reg = Detect
<1>1. \A a \in Operations : <<a>> \in Calls /\ <<a>> # << >>
  BY DEF Calls
<1>2. \A a, b \in Operations : <<a, b>> \in Calls /\ <<a, b>> # << >>
  BY DEF Calls
<1>3. ASSUME NEW v \in {Muted, Unmuted}
      PROVE  /\ HeadphoneMute(v) \in Calls /\ Fresh(HeadphoneMute(v))
             /\ Writes(HeadphoneMute(v), HpCtl, v)
             /\ \A r \in Registers \ {HpCtl} : Spares(HeadphoneMute(v), r)
  <2> DEFINE q == HeadphoneMute(v)
  <2>1. q \in Calls
    BY <1>1, RegisterTypes, WriteType, CallType DEF HeadphoneMute
  <2>2. Len(q) = 1 /\ q[1].reg = HpCtl /\ q[1].val = v /\ q[1].at = "test"
    BY CallOf1 DEF HeadphoneMute
  <2> HIDE DEF q
  <2>3. Fresh(q) /\ \A r \in Registers \ {HpCtl} : Spares(q, r)
    BY <2>2 DEF Fresh, Spares
  <2>4. Writes(q, HpCtl, v)
    <3>1. Len(q) \in 1..3
      BY <2>2
    <3>2. Writes(q, q[Len(q)].reg, q[Len(q)].val)
      BY <3>1, Few
    <3> QED
      BY <2>2, <3>2
  <2> QED
    BY <2>1, <2>3, <2>4 DEF q
<1>4. ASSUME NEW l \in Levels
      PROVE  /\ HeadphoneVolume(l) \in Calls /\ Fresh(HeadphoneVolume(l))
             /\ Writes(HeadphoneVolume(l), MixerA, l)
             /\ Writes(HeadphoneVolume(l), MixerB, l)
             /\ \A r \in Registers \ {MixerA, MixerB} : Spares(HeadphoneVolume(l), r)
  <2> DEFINE q == HeadphoneVolume(l)
  <2>1. Write(MixerA, l) \in Operations /\ Write(MixerB, l) \in Operations
    BY RegisterTypes, WriteType
  <2>2. q \in Calls
    BY <1>2, <2>1, CallType DEF HeadphoneVolume
  <2>3. /\ Len(q) = 2 /\ q[1].reg = MixerA /\ q[1].val = l /\ q[1].at = "test"
        /\ q[2].reg = MixerB /\ q[2].val = l /\ q[2].at = "test"
    BY CallOf2 DEF HeadphoneVolume
  <2> HIDE DEF q
  <2>4. Fresh(q) /\ \A r \in Registers \ {MixerA, MixerB} : Spares(q, r)
    BY <2>3 DEF Fresh, Spares
  <2>5. Writes(q, MixerA, l) /\ Writes(q, MixerB, l)
    BY <2>3, Few, RegistersDiffer
  <2> QED
    BY <2>2, <2>4, <2>5 DEF q
<1>5. HeadphonesPresent \in Calls
  BY DriverTypes
<1>6. Len(HeadphonesPresent) = 1 /\ HeadphonesPresent[1].reg = Detect
      /\ HeadphonesPresent[1].at = "test"
  BY CallOf1 DEF HeadphonesPresent
<1>7. Fresh(HeadphonesPresent)
      /\ \A i \in 1..Len(HeadphonesPresent) : HeadphonesPresent[i].reg = Detect
  BY <1>6 DEF Fresh
<1> QED
  BY <1>3, <1>4, <1>5, <1>7

\* The headphones at a level.
LEMMA HpLevel ==
  ASSUME NEW l \in Levels
  PROVE  LET q == HpApplyLevel(l)
         IN  /\ q \in Calls /\ Fresh(q) /\ Spares(q, SpkDriver)
             /\ l = 0 => Writes(q, HpCtl, Muted)
             /\ l # 0 => Writes(q, HpCtl, Unmuted) /\ Writes(q, MixerA, l)
                         /\ Writes(q, MixerB, l)
<1> DEFINE a == HeadphoneVolume(l)
           b == HeadphoneMute(Unmuted)
<1>1. SpkDriver \in Registers /\ HpCtl \in Registers /\ MixerA \in Registers
      /\ MixerB \in Registers
  BY DEF Registers
<1>2. CASE l = 0
  <2>1. HpApplyLevel(l) = HeadphoneMute(Muted)
    BY <1>2 DEF HpApplyLevel
  <2> QED
    BY <1>1, <1>2, <2>1, HeadphoneCalls, RegistersDiffer
<1>3. CASE l # 0
  <2>1. HpApplyLevel(l) = a \o b
    BY <1>3 DEF HpApplyLevel
  <2>2. /\ a \in Calls /\ Fresh(a) /\ Writes(a, MixerA, l) /\ Writes(a, MixerB, l)
        /\ Spares(a, SpkDriver)
    BY <1>1, HeadphoneCalls, RegistersDiffer
  <2>3. /\ b \in Calls /\ Fresh(b) /\ Writes(b, HpCtl, Unmuted)
        /\ Spares(b, SpkDriver) /\ Spares(b, MixerA) /\ Spares(b, MixerB)
    BY <1>1, HeadphoneCalls, RegistersDiffer
  <2> HIDE DEF a, b
  <2>4. a \o b \in Calls
    BY <2>2, <2>3, ConcatProperties DEF Calls
  <2> QED
    BY <1>3, <2>1, <2>2, <2>3, <2>4, JoinedCalls
<1> QED
  BY <1>2, <1>3

\* A write, or none of them, leaves what it says.
LEMMA EndsFacts ==
  ASSUME NEW now, NEW q, NEW r, NEW v
  PROVE  /\ Writes(q, r, v) => Ends(now, q, r, v)
         /\ Spares(q, r) /\ now[r] = v => Ends(now, q, r, v)
         /\ Ends(now, << >>, r, v) <=> now[r] = v
BY DEF Ends, Spares, Writes

\* Headphones at a level, the speaker silent.
LEMMA LevelHeard ==
  ASSUME NEW now, NEW l \in Levels, now[SpkDriver] = Muted
  PROVE  Heard(now, HpApplyLevel(l), TRUE, l) /\ Fresh(HpApplyLevel(l))
<1> DEFINE q == HpApplyLevel(l)
<1>1. /\ Fresh(q) /\ Spares(q, SpkDriver)
      /\ l = 0 => Writes(q, HpCtl, Muted)
      /\ l # 0 => Writes(q, HpCtl, Unmuted) /\ Writes(q, MixerA, l)
                  /\ Writes(q, MixerB, l)
  BY HpLevel
<1> HIDE DEF q
<1>2. Ends(now, q, SpkDriver, Muted)
  BY <1>1, EndsFacts
<1>3. l = 0 => Ends(now, q, HpCtl, Muted)
  BY <1>1, EndsFacts
<1>4. l # 0 => Ends(now, q, HpCtl, Unmuted) /\ Ends(now, q, MixerA, l)
               /\ Ends(now, q, MixerB, l)
  BY <1>1, EndsFacts
<1>5. Heard(now, q, TRUE, l)
  BY <1>2, <1>3, <1>4 DEF Heard
<1> QED
  BY <1>1, <1>5 DEF q

\* A key step keeps the output and sets its level.
LEMMA StepHeard ==
  ASSUME NEW now, NEW hp \in BOOLEAN, NEW k, NEW l \in Levels,
         Heard(now, << >>, hp, k)
  PROVE  Heard(now, ApplyStep(hp, l), hp, l) /\ Fresh(ApplyStep(hp, l))
<1>1. CASE hp
  <2>1. ApplyStep(hp, l) = HpApplyLevel(l)
    BY <1>1 DEF ApplyStep
  <2>2. now[SpkDriver] = Muted
    BY <1>1, EndsFacts DEF Heard
  <2> QED
    BY <1>1, <2>1, <2>2, LevelHeard
<1>2. CASE ~hp
  <2>1. ApplyStep(hp, l) = SpeakerVolume(l)
    BY <1>2 DEF ApplyStep
  <2>2. now[HpCtl] = Muted /\ now[SpkDriver] = Unmuted /\ now[SpkDac] = Unmuted
    BY <1>2, EndsFacts DEF Heard
  <2>3. {HpCtl, SpkDriver, SpkDac} \subseteq Registers \ {SpkVol}
    BY RegistersDiffer DEF Registers
  <2> QED
    BY <1>2, <2>1, <2>2, <2>3, SpeakerCalls, EndsFacts DEF Heard
<1> QED
  BY <1>1, <1>2

\* The second half of a switch, the old output silent.
LEMMA UnmuteHeard ==
  ASSUME NEW now, NEW hp \in BOOLEAN, NEW l \in Levels,
         now[IF hp THEN SpkDriver ELSE HpCtl] = Muted
  PROVE  Heard(now, UnmuteNew(hp, l), hp, l) /\ Fresh(UnmuteNew(hp, l))
<1>1. CASE hp
  <2>1. UnmuteNew(hp, l) = HpApplyLevel(l)
    BY <1>1 DEF UnmuteNew
  <2> QED
    BY <1>1, <2>1, LevelHeard
<1>2. CASE ~hp
  <2> DEFINE a == SpeakerVolume(l)
             b == SpeakerUnmute
  <2>1. UnmuteNew(hp, l) = a \o b
    BY <1>2 DEF UnmuteNew
  <2>2. HpCtl \in Registers \ {SpkVol}
    BY RegistersDiffer DEF Registers
  <2>3. a \in Calls /\ b \in Calls /\ Fresh(a) /\ Fresh(b) /\ Spares(a, HpCtl)
        /\ Spares(b, HpCtl) /\ Writes(b, SpkDriver, Unmuted)
        /\ Writes(b, SpkDac, Unmuted)
    BY <2>2, SpeakerCalls
  <2> HIDE DEF a, b
  <2>4. Fresh(a \o b) /\ Spares(a \o b, HpCtl) /\ Writes(a \o b, SpkDriver, Unmuted)
        /\ Writes(a \o b, SpkDac, Unmuted)
    BY <2>3, JoinedCalls
  <2> QED
    BY <1>2, <2>1, <2>4, EndsFacts DEF Heard
<1> QED
  BY <1>1, <1>2

\* The first half.
LEMMA MuteSilences ==
  ASSUME NEW hp \in BOOLEAN
  PROVE  Writes(MuteOld(hp), IF hp THEN SpkDriver ELSE HpCtl, Muted)
         /\ Fresh(MuteOld(hp))
BY SpeakerCalls, HeadphoneCalls DEF MuteOld

\* The start, with both outputs silent.
LEMMA BootHeard ==
  ASSUME NEW hp \in BOOLEAN, NEW l \in Levels
  PROVE  Heard(SilentRegs, BootRoute(hp, l), hp, l) /\ Fresh(BootRoute(hp, l))
<1>1. CASE hp
  <2> DEFINE a == SpeakerMute
             b == HpApplyLevel(l)
  <2>1. BootRoute(hp, l) = a \o b
    BY <1>1 DEF BootRoute
  <2>2. a \in Calls /\ Fresh(a) /\ Writes(a, SpkDriver, Muted)
    BY SpeakerCalls
  <2>3. /\ b \in Calls /\ Fresh(b) /\ Spares(b, SpkDriver)
        /\ l = 0 => Writes(b, HpCtl, Muted)
        /\ l # 0 => Writes(b, HpCtl, Unmuted) /\ Writes(b, MixerA, l)
                    /\ Writes(b, MixerB, l)
    BY HpLevel
  <2> HIDE DEF a, b
  <2>4. Fresh(a \o b) /\ Writes(a \o b, SpkDriver, Muted)
        /\ (l = 0 => Writes(a \o b, HpCtl, Muted))
        /\ (l # 0 => Writes(a \o b, HpCtl, Unmuted) /\ Writes(a \o b, MixerA, l)
                     /\ Writes(a \o b, MixerB, l))
    BY <2>2, <2>3, JoinedCalls
  <2> QED
    BY <1>1, <2>1, <2>4, EndsFacts DEF Heard
<1>2. CASE ~hp
  <2>1. BootRoute(hp, l) = UnmuteNew(hp, l)
    BY <1>2 DEF BootRoute, UnmuteNew
  <2>2. SilentRegs[HpCtl] = Muted
    BY RegistersDiffer DEF SilentRegs, Registers
  <2> QED
    BY <1>2, <2>1, <2>2, UnmuteHeard
<1> QED
  BY <1>1, <1>2

\* Power down.
LEMMA PowerDownFresh == PowerDownWrites \in Calls /\ Fresh(PowerDownWrites)
<1> DEFINE a == Call(<<Write(SpkVol, 0)>>)
           b == HeadphoneMute(Muted)
<1>1. Len(a) = 1 /\ a[1].at = "test"
  BY CallOf1
<1>2. a \in Calls
  <2>1. Write(SpkVol, 0) \in Operations
    BY RegisterTypes, WriteType
  <2>2. <<Write(SpkVol, 0)>> \in Calls /\ <<Write(SpkVol, 0)>> # << >>
    BY <2>1 DEF Calls
  <2> QED
    BY <2>2, CallType
<1>3. b \in Calls /\ Fresh(b)
  BY HeadphoneCalls
<1> HIDE DEF a, b
<1>4. Fresh(a)
  BY <1>1 DEF Fresh
<1>5. Fresh(a \o b)
  BY <1>2, <1>3, <1>4, JoinedCalls
<1> QED
  BY <1>5, DriverTypes DEF PowerDownWrites, a, b

\* A queue of calls not begun asks for nothing of the pages but the truth.
LEMMA FreshPaged ==
  ASSUME NEW known, NEW on, NEW q, NEW p \in Calls, Fresh(p),
         Paged(known, on, q), q # << >> => q[1].at # "note"
  PROVE  Paged(known, on, p)
<1>1. p # << >> => p[1].at = "test"
  BY DEF Fresh, Calls
<1>2. \A i \in 2..Len(p) : p[i].at = "test"
  BY DEF Fresh, Calls
<1> QED
  BY <1>1, <1>2 DEF Paged

\* A key step's calls are not begun.
LEMMA FreshSteps ==
  ASSUME NEW hp \in BOOLEAN, NEW l \in Levels
  PROVE  Fresh(ApplyStep(hp, l))
BY SpeakerCalls, HpLevel DEF ApplyStep

(* --------------------------- a write proceeds ---------------------------- *)

\* The names of registers are triples, none with NoPage.
LEMMA RegisterParts ==
  ASSUME NEW r \in RegisterNames
  PROVE  r = <<r[1], r[2], r[3]>> /\ r[1] \in Chips /\ r[2] # NoPage
BY DEF RegisterNames, Registers, Detect, HpCtl, MixerA, MixerB, SpkVol, SpkDriver,
   SpkDac, Chips, NoPage

\* A write that only moves on in its own steps.
LEMMA Moved ==
  ASSUME NEW q \in Calls, q # << >>, NEW a
  PROVE  LET p == [q EXCEPT ![1].at = a]
         IN  /\ Len(p) = Len(q) /\ p # << >>
             /\ p[1].at = a /\ p[1].reg = q[1].reg /\ p[1].val = q[1].val
             /\ \A i \in 2..Len(q) : p[i] = q[i]
             /\ \A i \in 1..Len(q) : p[i].reg = q[i].reg /\ p[i].val = q[i].val
<1> DEFINE p == [q EXCEPT ![1].at = a]
<1>1. Len(q) \in Nat /\ Len(q) >= 1 /\ DOMAIN q = 1..Len(q)
  BY DEF Calls
<1>2. q[1] \in Operations
  BY LeftType
<1>3. p = [q EXCEPT ![1] = [q[1] EXCEPT !.at = a]]
  OBVIOUS
<1>4. DOMAIN p = 1..Len(q) /\ p[1] = [q[1] EXCEPT !.at = a]
      /\ \A i \in 2..Len(q) : p[i] = q[i]
  BY <1>1, <1>3
<1>5. p[1].at = a /\ p[1].reg = q[1].reg /\ p[1].val = q[1].val
  BY <1>2, <1>4 DEF Operations
<1>7. Len(p) = Len(q)
  <2> DEFINE e == [q[1] EXCEPT !.at = a]
             S == Operations \cup {e}
  <2>1. q \in Seq(S) /\ e \in S /\ 1 \in 1..Len(q)
    BY <1>1 DEF Calls
  <2> HIDE DEF e, S
  <2>2. Len([q EXCEPT ![1] = e]) = Len(q)
    BY <2>1, ExceptSeq
  <2> QED
    BY <1>3, <2>2 DEF e
<1>8. p # << >>
  BY <1>1, <1>7
<1>9. \A i \in 1..Len(q) : p[i].reg = q[i].reg /\ p[i].val = q[i].val
  BY <1>1, <1>4, <1>5
<1> QED
  BY <1>4, <1>5, <1>7, <1>8, <1>9

\* ... so what it leaves is the same.
LEMMA MovedEnds ==
  ASSUME NEW now, NEW q \in Calls, q # << >>, NEW a, NEW r, NEW v, Ends(now, q, r, v)
  PROVE  Ends(now, [q EXCEPT ![1].at = a], r, v)
<1> DEFINE p == [q EXCEPT ![1].at = a]
<1>1. Len(p) = Len(q) /\ \A i \in 1..Len(q) : p[i].reg = q[i].reg /\ p[i].val = q[i].val
  BY Moved
<1>2. Len(q) \in Nat
  BY DEF Calls
<1> HIDE DEF p
<1>3. Spares(q, r) => Spares(p, r)
  BY <1>1 DEF Spares
<1>4. ASSUME Writes(q, r, v) PROVE Writes(p, r, v)
  <2>1. PICK i \in 1..Len(q) : q[i].reg = r /\ q[i].val = v
                               /\ \A j \in (i + 1)..Len(q) : q[j].reg # r
    BY <1>4 DEF Writes
  <2>2. \A j \in (i + 1)..Len(q) : j \in 1..Len(q)
    BY <1>2
  <2> QED
    BY <1>1, <2>1, <2>2 DEF Writes
<1>5. Ends(now, p, r, v)
  BY <1>3, <1>4 DEF Ends
<1> QED
  BY <1>5 DEF p

\* A written value is the one the rest of the queue leaves, or is overwritten.
LEMMA TailEnds ==
  ASSUME NEW now \in [Registers -> Values], NEW q \in Calls, q # << >>,
         NEW then, then = IF q[1].reg \in Registers
                            THEN [now EXCEPT ![q[1].reg] = q[1].val] ELSE now,
         NEW r \in Registers, NEW v, Ends(now, q, r, v)
  PROVE  Ends(then, Tail(q), r, v)
<1> DEFINE p == Tail(q)
<1>1. Len(q) \in Nat /\ Len(q) >= 1
  BY DEF Calls
<1>2. Len(p) = Len(q) - 1 /\ \A i \in 1..Len(p) : p[i] = q[i + 1]
  BY HeadTailProperties DEF Calls
<1> HIDE DEF p
<1>3. CASE Writes(q, r, v)
  <2>1. PICK i \in 1..Len(q) : q[i].reg = r /\ q[i].val = v
                               /\ \A j \in (i + 1)..Len(q) : q[j].reg # r
    BY <1>3 DEF Writes
  <2>2. CASE i = 1
    <3>1. then[r] = v
      BY <2>1, <2>2
    <3>2. ASSUME NEW j \in 1..Len(p) PROVE p[j].reg # r
      <4>1. j + 1 \in (i + 1)..Len(q)
        BY <1>1, <1>2, <2>2
      <4> QED
        BY <1>2, <2>1, <4>1
    <3> QED
      BY <3>1, <3>2 DEF Ends, Spares, p
  <2>3. CASE i # 1
    <3>1. i - 1 \in 1..Len(p) /\ p[i - 1] = q[i]
      <4>1. i - 1 \in 1..Len(p)
        BY <1>1, <1>2, <2>3
      <4>2. p[i - 1] = q[(i - 1) + 1] /\ (i - 1) + 1 = i
        BY <1>2, <4>1
      <4> QED
        BY <4>1, <4>2
    <3>2. ASSUME NEW j \in ((i - 1) + 1)..Len(p) PROVE p[j].reg # r
      <4>1. j + 1 \in (i + 1)..Len(q) /\ j \in 1..Len(p)
        BY <1>1, <1>2
      <4> QED
        BY <1>2, <2>1, <4>1
    <3>3. Writes(p, r, v)
      BY <2>1, <3>1, <3>2 DEF Writes
    <3> QED
      BY <3>3 DEF Ends, p
  <2> QED
    BY <2>2, <2>3
<1>4. CASE Spares(q, r) /\ now[r] = v
  <2>1. q[1].reg # r
    BY <1>1, <1>4 DEF Spares
  <2>2. then[r] = v
    BY <1>4, <2>1
  <2>3. ASSUME NEW j \in 1..Len(p) PROVE p[j].reg # r
    <3>1. j + 1 \in 1..Len(q)
      BY <1>1, <1>2
    <3> QED
      BY <1>2, <1>4, <3>1 DEF Spares
  <2> QED
    BY <2>2, <2>3 DEF Ends, Spares, p
<1> QED
  BY <1>3, <1>4 DEF Ends

\* A step of a write keeps the pages right and what will be heard.
LEMMA Advance ==
  ASSUME TypeOK, NEW q \in Calls, q # << >>, Proceeds(q[1]), Paged(cache, page, q)
  PROVE  /\ Paged(cache', page', Left(q))
         /\ \A r \in Registers : \A v : Ends(regs, q, r, v) => Ends(regs', Left(q), r, v)
<1> DEFINE op == q[1]
           c == op.reg[1]
           n == op.reg[2]
<1>1. op \in Operations
  BY LeftType
<1>2. op.reg \in RegisterNames /\ op.at \in {"test", "note", "data"}
  BY <1>1 DEF Operations, RegisterNames
<1>3. op.reg = <<c, n, op.reg[3]>> /\ c \in Chips /\ n # NoPage
  BY <1>2, RegisterParts
<1>4. cache \in [Chips -> Pages] /\ page \in [Chips -> Pages]
      /\ regs \in [Registers -> Values]
  BY DEF TypeOK
<1>5. \A i \in 2..Len(q) : q[i].at = "test"
  BY DEF Paged
<1> HIDE DEF op, c, n
<1>6. CASE op.at = "test"
  <2>1. Tested(op) /\ Left(q) = [q EXCEPT ![1].at = AfterTest(op)]
    BY <1>6 DEF Proceeds, Left, op
  <2>2. regs' = regs
    BY <2>1 DEF Tested
  <2>3. \A d \in Chips : cache[d] \in {NoPage, page[d]}
    BY <1>6 DEF Paged, op
  <2> DEFINE p == [q EXCEPT ![1].at = AfterTest(op)]
             known == IF op.first THEN NoPage ELSE cache[c]
  <2>4. cache' = [cache EXCEPT ![c] = known]
        /\ page' = IF known = n THEN page ELSE [page EXCEPT ![c] = n]
    BY <2>1 DEF Tested, c, n
  <2>5. AfterTest(op) = IF known = n THEN "data" ELSE "note"
    BY <1>3 DEF AfterTest, c, n
  <2>6. Len(p) = Len(q) /\ p # << >> /\ p[1].at = AfterTest(op) /\ p[1].reg = op.reg
        /\ \A i \in 2..Len(q) : p[i] = q[i]
    BY Moved DEF op
  <2> HIDE DEF p, known
  <2>7. page'[c] = n
    <3>1. CASE known = n
      <4>1. ~op.first /\ cache[c] = n
        BY <1>3, <3>1 DEF known
      <4> QED
        BY <1>3, <2>3, <2>4, <3>1, <4>1
    <3>2. CASE known # n
      BY <1>3, <1>4, <2>4, <3>2
    <3> QED
      BY <3>1, <3>2
  <2>8. \A d \in Chips \ {c} : cache'[d] = cache[d] /\ page'[d] = page[d]
    BY <1>3, <1>4, <2>4
  <2>9. known = n => cache'[c] = n
    BY <1>3, <1>4, <2>4
  <2>10. Paged(cache', page', p)
    <3>1. \A i \in 2..Len(p) : p[i].at = "test"
      BY <1>5, <2>6
    <3>2. p[1].reg[1] = c /\ p[1].reg[2] = n
      BY <2>6 DEF c, n
    <3>3. ASSUME NEW d \in Chips
          PROVE  cache'[d] \in {NoPage, page'[d]} \/ (p[1].at = "note" /\ p[1].reg[1] = d)
      BY <2>3, <2>5, <2>6, <2>7, <2>8, <2>9, <3>2
    <3> QED
      BY <2>6, <2>7, <3>1, <3>2, <3>3 DEF Paged
  <2>11. \A r \in Registers : \A v : Ends(regs, q, r, v) => Ends(regs', p, r, v)
    BY <2>2, MovedEnds DEF p
  <2> QED
    BY <2>1, <2>10, <2>11 DEF p
<1>7. CASE op.at = "note"
  <2>1. Noted(op) /\ Left(q) = [q EXCEPT ![1].at = "data"]
    BY <1>7 DEF Proceeds, Left, op
  <2>2. regs' = regs /\ page' = page /\ cache' = [cache EXCEPT ![c] = n]
    BY <2>1 DEF Noted, c, n
  <2> DEFINE p == [q EXCEPT ![1].at = "data"]
  <2>3. Len(p) = Len(q) /\ p # << >> /\ p[1].at = "data" /\ p[1].reg = op.reg
        /\ \A i \in 2..Len(q) : p[i] = q[i]
    BY Moved DEF op
  <2> HIDE DEF p
  <2>4. page[c] = n
    BY <1>7 DEF Paged, op, c, n
  <2>5. \A d \in Chips \ {c} : cache[d] \in {NoPage, page[d]}
    BY DEF Paged, op, c
  <2>6. \A d \in Chips : cache'[d] \in {NoPage, page'[d]}
    BY <1>3, <1>4, <2>2, <2>4, <2>5
  <2>7. Paged(cache', page', p)
    BY <1>5, <2>2, <2>3, <2>4, <2>6 DEF Paged, c, n
  <2>8. \A r \in Registers : \A v : Ends(regs, q, r, v) => Ends(regs', p, r, v)
    BY <2>2, MovedEnds DEF p
  <2> QED
    BY <2>1, <2>7, <2>8 DEF p
<1>8. CASE op.at = "data"
  <2>1. Written(op) /\ Left(q) = Tail(q)
    BY <1>8 DEF Proceeds, Left, op
  <2>2. page[c] = n /\ \A d \in Chips : cache[d] \in {NoPage, page[d]}
    BY <1>8 DEF Paged, op, c, n
  <2>3. <<c, page[c], op.reg[3]>> = op.reg
    BY <1>3, <2>2
  <2>4. regs' = (IF op.reg \in Registers THEN [regs EXCEPT ![op.reg] = op.val] ELSE regs)
        /\ cache' = cache /\ page' = page
    BY <2>1, <2>3 DEF Written, c
  <2> DEFINE p == Tail(q)
  <2>5. Len(q) \in Nat /\ Len(p) = Len(q) - 1 /\ \A i \in 1..Len(p) : p[i] = q[i + 1]
    BY HeadTailProperties DEF Calls
  <2> HIDE DEF p
  <2>6. \A i \in 1..Len(p) : p[i].at = "test"
    <3> TAKE i \in 1..Len(p)
    <3>1. i + 1 \in 2..Len(q)
      BY <2>5
    <3> QED
      BY <1>5, <2>5, <3>1
  <2>7. p # << >> => p[1].at = "test"
    <3>1. p \in Calls
      BY HeadTailProperties DEF Calls, p
    <3> QED
      BY <2>6, <3>1 DEF Calls
  <2>8. Paged(cache', page', p)
    <3>1. \A i \in 2..Len(p) : p[i].at = "test"
      BY <2>5, <2>6
    <3> QED
      BY <2>2, <2>4, <2>7, <3>1 DEF Paged
  <2>9. \A r \in Registers : \A v : Ends(regs, q, r, v) => Ends(regs', p, r, v)
    BY <1>4, <2>4, TailEnds DEF op, p
  <2> QED
    BY <2>1, <2>8, <2>9 DEF p
<1> QED
  BY <1>2, <1>6, <1>7, <1>8

(* ------------------------------ the invariant ---------------------------- *)

\* The UI thread waits while main has driver calls under way or a switch half
\* done, and main while the UI thread has a round to end.
Ordered == "route" \notin Races /\ "bus" \notin Races

\* So main takes no step in a round of the UI thread, nor the UI thread one in
\* a call of main.
LEMMA Waiting ==
  ASSUME Ordered
  PROVE  /\ MainTurn => ui.at = "idle"
         /\ UiTurn => mp.todo = << >> /\ mp.at # "apply"
BY DEF Ordered, MainTurn, UiTurn, Between

\* What will be heard goes with what the registers end as.
LEMMA HeardFrom ==
  ASSUME NEW now, NEW then, NEW q, NEW p, NEW hp \in BOOLEAN, NEW l,
         \A r \in Registers : \A v : Ends(now, q, r, v) => Ends(then, p, r, v),
         Heard(now, q, hp, l)
  PROVE  Heard(then, p, hp, l)
<1>1. {HpCtl, MixerA, MixerB, SpkDriver, SpkDac} \subseteq Registers
  BY DEF Registers
<1> QED
  BY <1>1 DEF Heard

\* A step that leaves the writes, the chips and main's place alone.
LEMMA SoundSame ==
  ASSUME SoundInv, Turns', Pending' = Pending, UNCHANGED <<chips, wedged>>,
         mp'.todo = mp.todo, mp'.at = mp.at, hpOut' = hpOut, vol' = vol
  PROVE  SoundInv'
BY DEF SoundInv, chips

\* main goes on between two driver calls, to a place whose writes are none or
\* those of the jack or of the power down.
LEMMA SoundGoes ==
  ASSUME TypeOK, SoundInv, ui.at = "idle", mp.todo = << >>,
         mp.at \in {"start", "top", "read", "write", "usb"},
         UNCHANGED <<vol, hpOut, ui, chips, wedged>>,
         \/ mp'.at \in {"top", "read", "write", "usb"} /\ mp'.todo = << >>
         \/ mp'.at = "jack" /\ mp'.todo = HeadphonesPresent
         \/ mp'.at = "down" /\ mp'.todo = PowerDownWrites
  PROVE  SoundInv'
<1>1. ui.todo = << >> /\ Pending = << >>
  BY DEF SoundInv, Turns, Pending
<1>2. Pending' = mp'.todo
  BY <1>1 DEF Pending
<1>3. Turns'
  BY <1>1 DEF Turns
<1>4. mp'.todo \in Calls /\ Fresh(mp'.todo)
  BY PowerDownFresh, HeadphoneCalls, DriverTypes DEF Fresh
<1>5. CASE ~wedged
  <2>1. Paged(cache, page, << >>) /\ Heard(regs, << >>, hpOut, vol)
    BY <1>1, <1>5 DEF SoundInv
  <2>2. Paged(cache, page, mp'.todo)
    BY <1>4, <2>1, FreshPaged
  <2>3. mp'.at # "down" => Heard(regs, mp'.todo, hpOut, vol)
    <3>1. CASE mp'.todo = << >>
      BY <2>1, <3>1
    <3>2. CASE mp'.todo = HeadphonesPresent
      <4> DEFINE q == HeadphonesPresent
      <4>1. \A r \in Registers : Spares(q, r)
        BY HeadphoneCalls, RegistersDiffer DEF Spares
      <4> HIDE DEF q
      <4>2. \A r \in Registers : \A v :
              Ends(regs, << >>, r, v) => Ends(regs, q, r, v)
        BY <4>1, EndsFacts
      <4>3. hpOut \in BOOLEAN
        BY DEF TypeOK
      <4> QED
        BY <2>1, <3>2, <4>2, <4>3, HeardFrom DEF q
    <3> QED
      BY <3>1, <3>2
  <2>4. mp'.at = "jack" => \A i \in 1..Len(mp'.todo) : mp'.todo[i].reg = Detect
    BY HeadphoneCalls
  <2> QED
    BY <1>2, <1>3, <2>2, <2>3, <2>4 DEF SoundInv, chips
<1>6. CASE wedged
  BY <1>3, <1>6 DEF SoundInv
<1> QED
  BY <1>5, <1>6 DEF TypeOK

\* A write of the UI thread ...
LEMMA SoundUiTransfer ==
  ASSUME TypeOK, SoundInv, UiTransfer
  PROVE  SoundInv'
<1>1. ui.todo # << >> /\ ui \in UiStates /\ ui.at # "idle" /\ mp.todo = << >>
  BY DEF UiTransfer, TypeOK, UiStates, Calls, SoundInv, Turns
<1>2. ui.todo \in Calls /\ Pending = ui.todo /\ mp' = mp /\ hpOut' = hpOut /\ vol' = vol
  BY <1>1 DEF UiTransfer, UiStates, Pending
<1>3. ui'.at = ui.at
  BY <1>1 DEF UiTransfer, UiStates
<1>4. Turns'
  BY <1>1, <1>2, <1>3 DEF SoundInv, Turns
<1>5. CASE Fails(ui.todo[1])
  BY <1>4, <1>5 DEF Fails, SoundInv
<1>6. CASE Proceeds(ui.todo[1]) /\ ui' = [ui EXCEPT !.todo = Left(@)]
  <2>1. ~wedged /\ wedged' = wedged
    BY <1>6 DEF Proceeds
  <2>2. ui'.todo = Left(ui.todo) /\ Pending' = Left(ui.todo)
    BY <1>1, <1>2, <1>6 DEF UiStates, Pending
  <2>3. /\ Paged(cache', page', Left(ui.todo))
        /\ \A r \in Registers : \A v :
             Ends(regs, ui.todo, r, v) => Ends(regs', Left(ui.todo), r, v)
    BY <1>1, <1>2, <1>6, <2>1, Advance DEF SoundInv
  <2>4. mp.at \in {"start", "top", "read", "write", "jack", "usb"} =>
          Heard(regs', Left(ui.todo), hpOut, vol)
    BY <1>2, <2>1, <2>3, HeardFrom DEF SoundInv, TypeOK
  <2>5. mp.at # "apply"
    BY <1>1 DEF SoundInv, Turns
  <2> QED
    BY <1>1, <1>2, <1>4, <2>1, <2>2, <2>3, <2>4, <2>5 DEF SoundInv
<1> QED
  BY <1>5, <1>6 DEF UiTransfer

\* ... main's, which in front of the jack's reading leave the registers alone.
LEMMA SoundMainTransfer ==
  ASSUME Ordered, TypeOK, SoundInv, MainTransfer
  PROVE  SoundInv'
<1>1. mp.todo # << >> /\ mp \in MainStates /\ ui.at = "idle" /\ ui' = ui
      /\ ui.todo = << >> /\ hpOut' = hpOut /\ vol' = vol
  BY Waiting DEF MainTransfer, TypeOK, MainStates, MainPlaces, Calls, SoundInv, Turns
<1>2. mp.todo \in Calls /\ Pending = mp.todo
  BY <1>1 DEF MainStates, Pending
<1>3. mp'.at = mp.at
  BY <1>1 DEF MainTransfer, MainStates
<1>4. Turns'
  BY <1>1, <1>3 DEF Turns
<1>5. CASE Fails(mp.todo[1])
  BY <1>4, <1>5 DEF Fails, SoundInv
<1>6. CASE Proceeds(mp.todo[1]) /\ mp' = [mp EXCEPT !.todo = Left(@)]
  <2> DEFINE q == mp.todo
             p == Left(mp.todo)
  <2>1. ~wedged /\ wedged' = wedged
    BY <1>6 DEF Proceeds
  <2>2. mp'.todo = p /\ Pending' = p
    BY <1>1, <1>6 DEF MainStates, Pending
  <2>3. /\ Paged(cache', page', p)
        /\ \A r \in Registers : \A v : Ends(regs, q, r, v) => Ends(regs', p, r, v)
    BY <1>1, <1>2, <1>6, <2>1, Advance DEF SoundInv
  <2>4. mp.at \in {"start", "top", "read", "write", "jack", "usb"} =>
          Heard(regs', p, hpOut, vol)
    BY <1>2, <2>1, <2>3, HeardFrom DEF SoundInv, TypeOK
  <2>5. mp.at = "apply" => Ends(regs', p, IF hpOut THEN SpkDriver ELSE HpCtl, Muted)
    <3>1. SpkDriver \in Registers /\ HpCtl \in Registers
      BY DEF Registers
    <3> QED
      BY <2>1, <2>3, <3>1 DEF SoundInv
  <2>6. ASSUME mp.at = "jack" PROVE \A i \in 1..Len(p) : p[i].reg = Detect
    <3>1. \A i \in 1..Len(q) : q[i].reg = Detect
      BY <2>1, <2>6 DEF SoundInv
    <3>2. q[1].at # "data" /\ q[1].at \in {"test", "note", "data"}
      BY <1>1, <1>2, <2>6, LeftType DEF MainTransfer, Operations
    <3>3. \E a : p = [q EXCEPT ![1].at = a]
      BY <3>2 DEF Left
    <3> HIDE DEF p, q
    <3> QED
      BY <1>1, <1>2, <3>1, <3>3, Moved DEF q
  <2> HIDE DEF p, q
  <2> QED
    BY <1>1, <1>3, <1>4, <2>1, <2>2, <2>3, <2>4, <2>5, <2>6 DEF SoundInv
<1> QED
  BY <1>5, <1>6 DEF MainTransfer

\* A key, ...
LEMMA SoundUiKeys ==
  ASSUME Ordered, TypeOK, SoundInv, UiKeys
  PROVE  SoundInv'
<1>1. mp.todo = << >> /\ mp.at # "apply" /\ ui.at = "idle" /\ ui.todo = << >>
      /\ UNCHANGED <<hpOut, mp, chips, wedged>>
  BY Waiting DEF UiKeys, SoundInv, Turns
<1>2. Pending = << >>
  BY <1>1 DEF Pending
<1>3. ui'.at = "keys" /\ Pending' = ui'.todo
  BY <1>1 DEF UiKeys, Pending
<1>4. Turns'
  BY <1>1, <1>3 DEF Turns
<1>5. mp.at # "boot"
  BY DEF UiKeys, UiTurn, Running
<1>6. vol' \in Levels
  <2>1. \A key \in Keys, repeat \in BOOLEAN : Stepped(key, repeat, vol) \in Levels
    BY OutputAssumption DEF Stepped, Levels, TypeOK, Keys
  <2> QED
    BY <2>1 DEF UiKeys, TypeOK
<1>7. \/ vol' = vol /\ ui'.todo = << >>
      \/ mp.at = "wait" /\ ui'.todo = << >>
      \/ ui'.todo = ApplyStep(hpOut, vol')
  BY DEF UiKeys
<1>8. CASE ~wedged
  <2>1. Paged(cache, page, << >>)
        /\ (mp.at \in {"start", "top", "read", "write", "jack", "usb"} =>
              Heard(regs, << >>, hpOut, vol))
        /\ (mp.at = "jack" => \A i \in 1..Len(mp.todo) : mp.todo[i].reg = Detect)
    BY <1>2, <1>8 DEF SoundInv
  <2>2. ui'.todo \in Calls /\ Fresh(ui'.todo)
    BY <1>6, <1>7, DriverTypes, FreshSteps DEF Fresh, TypeOK
  <2>3. Paged(cache, page, ui'.todo)
    BY <2>1, <2>2, FreshPaged
  <2>4. mp.at \in {"start", "top", "read", "write", "jack", "usb"} =>
          Heard(regs, ui'.todo, hpOut, vol')
    BY <1>6, <1>7, <2>1, StepHeard DEF TypeOK
  <2> QED
    BY <1>1, <1>3, <1>4, <2>1, <2>3, <2>4 DEF SoundInv, chips
<1>9. CASE wedged
  BY <1>1, <1>4, <1>9 DEF SoundInv
<1> QED
  BY <1>8, <1>9 DEF TypeOK

\* ... its round over, ...
LEMMA SoundUiDone ==
  ASSUME TypeOK, SoundInv, UiDone
  PROVE  SoundInv'
<1>1. ui \in UiStates /\ ui.at = "keys" /\ ui.todo = << >> /\ mp.todo = << >>
      /\ mp.at # "apply"
  BY DEF UiDone, TypeOK, UiStates, Calls, SoundInv, Turns
<1>2. ui'.at = "idle" /\ ui'.todo = << >> /\ UNCHANGED <<mp, chips, wedged, hpOut, vol>>
  BY <1>1 DEF UiDone, UiStates
<1>3. Turns' /\ Pending' = Pending
  BY <1>1, <1>2 DEF Turns, Pending
<1> QED
  BY <1>2, <1>3, SoundSame

\* Where Goto goes, and with which writes.
LEMMA GoesTo ==
  ASSUME mp \in MainStates, NEW a \in MainPlaces
  PROVE  LET todo == CASE a = "jack" -> HeadphonesPresent
                       [] a = "down" -> PowerDownWrites
                       [] OTHER -> << >>
         IN  /\ Goto(a).at = a /\ Goto(a).todo = todo
             /\ \A n : [Goto(a) EXCEPT !.next = n].at = a
                       /\ [Goto(a) EXCEPT !.next = n].todo = todo
             /\ \A f : [Goto(a) EXCEPT !.failed = f].at = a
                       /\ [Goto(a) EXCEPT !.failed = f].todo = todo
             /\ \A q : [Goto(a) EXCEPT !.todo = q].at = a
                       /\ [Goto(a) EXCEPT !.todo = q].todo = q
BY DEF Goto, MainStates

\* ... the steps of main without a call under way, ...
LEMMA SoundLoop ==
  ASSUME Ordered, TypeOK, SoundInv,
         Top \/ PowerOff \/ FlushRead \/ FlushWrite \/ Usb \/ Started
  PROVE  SoundInv'
<1>1. mp \in MainStates /\ mp.next \in {"top", "jack", "down"}
  BY DEF TypeOK, MainStates, MainPlaces, Calls
<1>2. ui.at = "idle" /\ mp.todo = << >>
      /\ mp.at \in {"start", "top", "read", "write", "usb"}
      /\ UNCHANGED <<vol, hpOut, ui, chips, wedged>>
  BY Waiting DEF Top, PowerOff, FlushRead, FlushWrite, Usb, Started, MainAt
<1>3. {"top", "read", "write", "usb", "jack", "down"} \subseteq MainPlaces
  BY DEF MainPlaces
<1>4. \/ \E a \in {"top", "read", "jack", "down"} :
            \/ mp' = Goto(a)
            \/ \E n : mp' = [Goto(a) EXCEPT !.next = n]
            \/ \E f : mp' = [Goto(a) EXCEPT !.failed = f]
      \/ mp' = [mp EXCEPT !.at = "write", !.level = vol]
  <2>1. CASE Top
    BY <2>1 DEF Top
  <2>2. CASE PowerOff
    BY <2>2 DEF PowerOff
  <2>3. CASE FlushRead
    BY <1>1, <2>3 DEF FlushRead
  <2>4. CASE FlushWrite
    BY <1>1, <2>4 DEF FlushWrite
  <2>5. CASE Usb \/ Started
    BY <2>5 DEF Usb, Started
  <2> QED
    BY <2>1, <2>2, <2>3, <2>4, <2>5
<1>5. \/ mp'.at \in {"top", "read", "write", "usb"} /\ mp'.todo = << >>
      \/ mp'.at = "jack" /\ mp'.todo = HeadphonesPresent
      \/ mp'.at = "down" /\ mp'.todo = PowerDownWrites
  <2>1. CASE mp' = [mp EXCEPT !.at = "write", !.level = vol]
    BY <1>1, <1>2, <2>1 DEF MainStates
  <2>2. ASSUME NEW a \in {"top", "read", "jack", "down"},
               \/ mp' = Goto(a)
               \/ \E n : mp' = [Goto(a) EXCEPT !.next = n]
               \/ \E f : mp' = [Goto(a) EXCEPT !.failed = f]
        PROVE  /\ mp'.at = a
               /\ mp'.todo = CASE a = "jack" -> HeadphonesPresent
                               [] a = "down" -> PowerDownWrites
                               [] OTHER -> << >>
    <3>1. a \in MainPlaces
      BY <1>3
    <3> DEFINE todo == CASE a = "jack" -> HeadphonesPresent
                         [] a = "down" -> PowerDownWrites
                         [] OTHER -> << >>
    <3>2. /\ Goto(a).at = a /\ Goto(a).todo = todo
          /\ \A n : [Goto(a) EXCEPT !.next = n].at = a
                    /\ [Goto(a) EXCEPT !.next = n].todo = todo
          /\ \A f : [Goto(a) EXCEPT !.failed = f].at = a
                    /\ [Goto(a) EXCEPT !.failed = f].todo = todo
      BY <1>1, <3>1, GoesTo
    <3> HIDE DEF todo
    <3>3. mp'.at = a /\ mp'.todo = todo
      BY <2>2, <3>2
    <3> QED
      BY <3>3 DEF todo
  <2> QED
    BY <1>4, <2>1, <2>2
<1> QED
  BY <1>2, <1>5, SoundGoes

\* ... the jack, ...
LEMMA SoundJack ==
  ASSUME Ordered, TypeOK, SoundInv, JackSeen
  PROVE  SoundInv'
<1>1. mp \in MainStates /\ mp.at = "jack" /\ mp.todo # << >> /\ mp.todo \in Calls
      /\ ui.at = "idle" /\ ui' = ui /\ ui.todo = << >> /\ Pending = mp.todo
      /\ UNCHANGED <<vol, chips>>
  BY Waiting DEF JackSeen, TypeOK, MainStates, MainPlaces, Calls, SoundInv, Turns, Pending
<1>2. Turns'
  BY <1>1 DEF Turns
<1>3. CASE wedged' = TRUE
  BY <1>2, <1>3 DEF SoundInv
<1>4. CASE wedged' # TRUE
  <2>1. ~wedged /\ ~wedged' /\ mp.todo[1].at = "data"
    BY <1>4 DEF JackSeen, TypeOK
  <2>2. /\ Paged(cache, page, mp.todo) /\ Heard(regs, mp.todo, hpOut, vol)
        /\ \A i \in 1..Len(mp.todo) : mp.todo[i].reg = Detect
    BY <1>1, <2>1 DEF SoundInv
  <2>3. ASSUME NEW q \in Calls, Fresh(q) PROVE Paged(cache, page, q)
    BY <2>1, <2>2, <2>3, FreshPaged
  <2>4. CASE \E raw \in BOOLEAN : hpOut' = raw /\ mp' = [mp EXCEPT !.at = "apply", !.todo = MuteOld(raw)]
    <3>1. hpOut' \in BOOLEAN /\ mp'.at = "apply" /\ mp'.todo = MuteOld(hpOut')
      BY <1>1, <2>4 DEF MainStates
    <3>2. MuteOld(hpOut') \in Calls /\ Fresh(MuteOld(hpOut'))
      BY <3>1, DriverTypes, MuteSilences
    <3>3. Pending' = MuteOld(hpOut')
      BY <1>1, <3>1 DEF Pending
    <3>4. Paged(cache, page, MuteOld(hpOut'))
      BY <2>3, <3>2
    <3>5. Ends(regs, MuteOld(hpOut'), IF hpOut' THEN SpkDriver ELSE HpCtl, Muted)
      BY <3>1, MuteSilences, EndsFacts
    <3> QED
      BY <1>1, <1>2, <3>1, <3>3, <3>4, <3>5 DEF SoundInv, chips
  <2>5. CASE mp' = Goto("usb") /\ hpOut' = hpOut
    <3>1. mp'.at = "usb" /\ mp'.todo = << >>
      BY <1>1, <2>5, GoesTo DEF MainPlaces
    <3>2. << >> \in Calls /\ Fresh(<< >>)
      BY DriverTypes DEF Fresh
    <3>3. Paged(cache, page, << >>)
      BY <2>3, <3>2
    <3>4. Heard(regs, << >>, hpOut, vol)
      <4> DEFINE q == mp.todo
      <4>1. \A r \in Registers : \A v : ~Writes(q, r, v)
        BY <2>2, RegistersDiffer DEF Writes
      <4> HIDE DEF q
      <4>2. \A r \in Registers : \A v : Ends(regs, q, r, v) => Ends(regs, << >>, r, v)
        BY <4>1, EndsFacts DEF Ends
      <4> QED
        BY <2>2, <4>2, HeardFrom DEF q, TypeOK
    <3>5. Pending' = << >>
      BY <1>1, <3>1 DEF Pending
    <3> QED
      BY <1>1, <1>2, <2>5, <3>1, <3>3, <3>4, <3>5 DEF SoundInv, chips
  <2> QED
    BY <2>4, <2>5 DEF JackSeen
<1> QED
  BY <1>3, <1>4

\* ... the second half of the switch, ...
LEMMA SoundApply ==
  ASSUME Ordered, TypeOK, SoundInv, Apply
  PROVE  SoundInv'
<1> DEFINE q == UnmuteNew(hpOut, vol)
<1>1. mp \in MainStates /\ mp.at = "apply" /\ mp.todo = << >> /\ ui.at = "idle"
      /\ ui.todo = << >> /\ Pending = << >> /\ UNCHANGED <<vol, hpOut, ui, chips, wedged>>
  BY Waiting DEF Apply, MainAt, TypeOK, MainStates, MainPlaces, Calls, SoundInv, Turns,
     Pending
<1>2. mp'.at = "usb" /\ mp'.todo = q
  BY <1>1, GoesTo DEF Apply, MainPlaces
<1>3. Turns'
  BY <1>1 DEF Turns
<1>4. hpOut \in BOOLEAN /\ vol \in Levels /\ wedged \in BOOLEAN
  BY DEF TypeOK
<1>5. CASE ~wedged
  <2>1. regs[IF hpOut THEN SpkDriver ELSE HpCtl] = Muted
    BY <1>1, <1>5, EndsFacts DEF SoundInv
  <2>2. Heard(regs, q, hpOut, vol) /\ Fresh(q) /\ q \in Calls
    BY <1>4, <2>1, UnmuteHeard, DriverTypes
  <2>3. Paged(cache, page, q)
    BY <1>1, <1>5, <2>2, FreshPaged DEF SoundInv
  <2> HIDE DEF q
  <2>4. Pending' = q
    BY <1>1, <1>2 DEF Pending
  <2> QED
    BY <1>1, <1>2, <1>3, <2>2, <2>3, <2>4 DEF SoundInv, chips
<1>6. CASE wedged
  BY <1>1, <1>3, <1>6 DEF SoundInv
<1> QED
  BY <1>4, <1>5, <1>6

\* ... the way down ...
LEMMA SoundDown ==
  ASSUME Ordered, TypeOK, SoundInv, PoweredDown \/ SystemOff
  PROVE  SoundInv'
<1>1. mp \in MainStates /\ mp.todo = << >> /\ ui.at = "idle" /\ ui.todo = << >>
      /\ Pending = << >> /\ UNCHANGED <<ui, cache, page, wedged>>
  BY Waiting DEF PoweredDown, SystemOff, MainAt, TypeOK, MainStates, MainPlaces, Calls,
     SoundInv, Turns, Pending, chips
<1>2. mp'.at \in {"wait", "off"} /\ mp'.todo = << >>
  BY <1>1, GoesTo DEF PoweredDown, SystemOff, MainPlaces
<1>3. Turns' /\ Pending' = << >>
  BY <1>1, <1>2 DEF Turns, Pending
<1> QED
  BY <1>1, <1>2, <1>3 DEF SoundInv

\* ... and the next boot.
LEMMA SoundBoot ==
  ASSUME TypeOK, SoundInv, Boot
  PROVE  SoundInv'
<1>1. /\ ui'.at = "idle" /\ ui'.todo = << >> /\ mp'.at = "start"
      /\ mp'.todo = BootRoute(hpOut', vol') /\ hpOut' \in BOOLEAN /\ regs' = SilentRegs
      /\ cache' = [c \in Chips |-> NoPage]
  BY DEF Boot
<1>2. vol' \in Levels
  BY RegisterTypes DEF Boot, Restored, TypeOK
<1>3. Pending' = BootRoute(hpOut', vol') /\ Turns'
  BY <1>1 DEF Pending, Turns
<1>4. BootRoute(hpOut', vol') \in Calls /\ Fresh(BootRoute(hpOut', vol'))
      /\ Heard(SilentRegs, BootRoute(hpOut', vol'), hpOut', vol')
  BY <1>1, <1>2, BootHeard, DriverTypes
<1>5. Paged(cache', page', << >>)
  BY <1>1 DEF Paged
<1>6. Paged(cache', page', BootRoute(hpOut', vol'))
  BY <1>4, <1>5, FreshPaged
<1> QED
  BY <1>1, <1>3, <1>4, <1>6 DEF SoundInv

\* The invariant holds always, ...
LEMMA AlwaysSound ==
  ASSUME Ordered
  PROVE  Spec => []SoundInv
<1>1. Init => SoundInv
  <2> SUFFICES ASSUME Init PROVE SoundInv
    OBVIOUS
  <2>1. Turns /\ Pending = << >> /\ mp.at = "boot"
    BY DEF Init, Turns, Pending
  <2>2. Paged(cache, page, << >>)
    BY DEF Init, Paged
  <2> QED
    BY <2>1, <2>2 DEF SoundInv
<1>2. TypeOK /\ SoundInv /\ [Next]_vars => SoundInv'
  <2> SUFFICES ASSUME TypeOK, SoundInv, [Next]_vars PROVE SoundInv'
    OBVIOUS
  <2>1. CASE UNCHANGED vars
    BY <2>1, SoundSame DEF vars, SoundInv, Turns, Pending, chips
  <2> QED
    BY <2>1, SoundUiKeys, SoundUiTransfer, SoundUiDone, SoundMainTransfer, SoundLoop,
       SoundJack, SoundApply, SoundDown, SoundBoot DEF Next
<1> QED
  BY <1>1, <1>2, Typing, PTL DEF Spec

\* ... and with both threads at rest nothing more is to be written.
LEMMA RestHeard ==
  ASSUME SoundInv, AtRest, ~wedged
  PROVE  Heard(regs, << >>, hpOut, vol)
BY DEF AtRest, SoundInv, Pending

\* Where the UI thread does not come in between the driver calls of a switch or
\* inside one, exactly one output sounds when both threads are at rest ...
THEOREM OneOutputSounds == ASSUME Ordered PROVE Spec => []OneOutput
<1>1. SoundInv => OneOutput
  BY RestHeard, EndsFacts DEF OneOutput, Heard, SpeakerSounds, Muted, Unmuted
<1> QED BY <1>1, AlwaysSound, PTL

\* ... and headphones at the level of the volume, for every number of levels,
\* however keys, the jack, saves, power off, boots and failures interleave.
THEOREM HeadphonesAtLevel == ASSUME Ordered PROVE Spec => []HeadphoneLevel
<1>1. SoundInv => HeadphoneLevel
  BY RestHeard, EndsFacts DEF HeadphoneLevel, Heard
<1> QED BY <1>1, AlwaysSound, PTL
=============================================================================
