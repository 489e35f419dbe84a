------------------------------- MODULE Output -------------------------------
(* The volume and where the sound goes: the UI thread steps the level with   *)
(* the keys, main saves it and switches between the speaker amplifier        *)
(* (TAS2505, "tas") and the headphone codec (CS42L42, "cs") after the jack.  *)
(* Both threads talk to both chips over I2C through one cached page number   *)
(* per chip and no lock.  A call of the driver is a sequence of writes; each *)
(* write tests the cached page, perhaps selects a page, and then writes an   *)
(* offset of whatever page the chip has.                                     *)
(* The registers that only set up clocks, gains and filters are left out, and*)
(* an attenuation is the level it stands for: 0 silent, MaxVol loudest.      *)
EXTENDS Integers, Sequences

CONSTANTS MaxVol,     \* the loudest level, 7
          DefaultVol, \* the level of a disk without settings, 3
          Races,      \* where the UI thread preempts main: "flush" in a save,
                      \* "route" between two driver calls, "bus" inside one,
                      \* "down" between the last save and SYSTEM OFF
          Faults      \* what may fail: "io" the card, "i2c" the bus, "reset"

ASSUME OutputAssumption ==
  /\ MaxVol \in Nat \ {0}
  /\ DefaultVol \in 1..MaxVol
  /\ Races \subseteq {"flush", "route", "bus", "down"}
  /\ Faults \subseteq {"io", "i2c", "reset"}

VARIABLES vol,      \* s_vol_level
          dirty,    \* g_settings_dirty
          saved,    \* the volume in the header on disk, NoVol without settings
          hpOut,    \* s_hp_out
          ui,       \* the UI thread: its key, its release edge, its writes left
          mp,       \* main: where it is, and the writes left of its calls
          jack,     \* hp_raw_prev and hp_debounce: last reading, equal ones
          cache,    \* s_cs_page, s_tas_page
          page,     \* the page register of each chip
          regs,     \* the registers of both chips that make sound
          activity, \* "idle", "play" or "upload"
          wedged    \* an I2C transaction has failed since boot (history)
vars == <<vol, dirty, saved, hpOut, ui, mp, jack, cache, page, regs,
          activity, wedged>>
chips == <<cache, page, regs>>

NoVol == -1
NoPage == -1
Levels == 0..MaxVol
Chips == {"cs", "tas"}

(* Registers: chip, page and offset.  Two of them share an offset.           *)
HpCtl == <<"cs", 32, 1>>
MixerA == <<"cs", 35, 1>>
MixerB == <<"cs", 35, 3>>
Detect == <<"cs", 27, 119>>
SpkVol == <<"tas", 1, 46>>
SpkDriver == <<"tas", 1, 45>>
SpkDac == <<"tas", 0, 63>>
Registers == {HpCtl, MixerA, MixerB, SpkVol, SpkDriver, SpkDac}
Pages == {NoPage, 0, 1, 27, 32, 35}

Muted == 100     \* CS_HP_CTL_MUTED, and a speaker block that is off
Unmuted == 101   \* CS_HP_CTL_UNMUTED, and a speaker block that is on
Values == Levels \cup {Muted, Unmuted}

\* The driver's state after bring-up: both outputs silent.
SilentRegs ==
  [r \in Registers |-> CASE r \in {MixerA, MixerB} -> MaxVol
                         [] r = SpkVol -> 0
                         [] OTHER -> Muted]

(* ------------------------------ driver calls ----------------------------- *)

Write(reg, val) == [reg |-> reg, val |-> val, first |-> FALSE, at |-> "test"]

\* A call forgets the cached page before its first write.
Call(writes) == [writes EXCEPT ![1].first = TRUE]

SpeakerMute == Call(<<Write(SpkVol, 0), Write(SpkDac, Muted),
                      Write(SpkDriver, Muted)>>)
\* The unmute begins with attenuation 0x00, the loudest.
SpeakerUnmute == Call(<<Write(SpkVol, MaxVol), Write(SpkDriver, Unmuted),
                        Write(SpkDac, Unmuted)>>)
SpeakerVolume(l) == Call(<<Write(SpkVol, l)>>)
HeadphoneMute(v) == Call(<<Write(HpCtl, v)>>)
HeadphoneVolume(l) == Call(<<Write(MixerA, l), Write(MixerB, l)>>)
HeadphonesPresent == Call(<<Write(Detect, Muted)>>)

\* mutant: level 0 is an attenuation like any other
HpApplyLoud(l) == HeadphoneVolume(l) \o HeadphoneMute(Unmuted)
HpApplyLevel(l) == IF l = 0 THEN HeadphoneMute(Muted)
                   ELSE HeadphoneVolume(l) \o HeadphoneMute(Unmuted)

\* What a key step sends to the output in use.
ApplyStep(hp, l) == IF hp THEN HpApplyLevel(l) ELSE SpeakerVolume(l)

\* The two halves of a switch: main reads the volume between them.
MuteNew(hp) == IF hp THEN HeadphoneMute(Muted) ELSE SpeakerMute   \* mutant: swapped
MuteOld(hp) == IF hp THEN SpeakerMute ELSE HeadphoneMute(Muted)
UnmuteNew(hp, l) == IF hp THEN HpApplyLevel(l)
                    ELSE SpeakerVolume(l) \o SpeakerUnmute

\* At boot there is no old output to mute when the speaker is used.
BootRoute(hp, l) == IF hp THEN SpeakerMute \o HpApplyLevel(l)
                    ELSE SpeakerVolume(l) \o SpeakerUnmute

PowerDownWrites == Call(<<Write(SpkVol, 0)>>) \o HeadphoneMute(Muted)

Operations == [reg : Registers \cup {Detect}, val : Values, first : BOOLEAN,
               at : {"test", "note", "data"}]

\* What is left of a thread's calls when a write of the current one fails.
Rest(q) == LET starts == {i \in 2..Len(q) : q[i].first}
           IN  IF starts = {} THEN << >>
               ELSE SubSeq(q, CHOOSE i \in starts : \A j \in starts : i <= j,
                           Len(q))

(* --------------------------------- states -------------------------------- *)

Running == mp.at \notin {"boot", "start", "off"}

\* A thread with the writes q waits inside a driver call, or before one.
InCall(q) == q # << >> /\ ~(q[1].first /\ q[1].at = "test")
Between(q) == q # << >> => ("bus" \in Races \/ ("route" \in Races /\ ~InCall(q)))

\* The UI may begin a round, of course not before it is created, and in the
\* middle of main's work only where the configuration lets it.
UiTurn == /\ Running
          /\ mp.at = "write" => "flush" \in Races
          /\ mp.at = "apply" => Races \cap {"bus", "route"} # {}
          /\ mp.at \in {"down", "wait"} => "down" \in Races
          /\ Between(mp.todo)

\* Main has the lower priority: it goes on when the UI sleeps or waits for the
\* bus.
MainTurn == ui.at = "idle" \/ (ui.todo # << >> /\ Between(ui.todo))

Init ==
  /\ vol = DefaultVol
  /\ dirty = FALSE
  /\ saved = NoVol
  /\ hpOut = FALSE
  /\ ui = [at |-> "idle", key |-> "none", released |-> FALSE, todo |-> << >>]
  /\ mp = [at |-> "boot", next |-> "top", level |-> NoVol, failed |-> FALSE,
           todo |-> << >>]
  /\ jack = [raw |-> FALSE, cnt |-> 0]
  /\ cache = [c \in Chips |-> NoPage]
  /\ page = [c \in Chips |-> 0]
  /\ regs = SilentRegs
  /\ activity = "idle"
  /\ wedged = FALSE

(* ------------------------------- UI thread ------------------------------- *)

Keys == {"none", "up", "down"}

\* One step on the press edge, then repeats while the key is held.
Stepped(key, repeat, l) ==
  CASE key = "none" \/ (key = ui.key /\ ~repeat) -> l
    [] key = "up" /\ l < MaxVol -> l + 1
    [] key = "down" /\ l > 0 -> l - 1
    [] OTHER -> l

\* A key that was held and no longer is: the level is to be saved.
SaveOnPress(key) == key # "none" /\ key # ui.key   \* mutant: saved per press
ToSave(key) == ui.key # "none" /\ key # ui.key

\* One round of ui_main, up to its codec calls.  While Play is held for a loop
\* the keys step the divider and leave the volume alone.
UiKeys == /\ UiTurn
          /\ ui.at = "idle"
          /\ \E key \in Keys, repeat, looping \in BOOLEAN :
               LET l == IF looping THEN vol ELSE Stepped(key, repeat, vol)
               IN  /\ vol' = l
                   /\ ui' = [at |-> "keys", key |-> key,
                             released |-> ToSave(key),
                             todo |-> IF l = vol \/ mp.at = "wait" THEN << >>
                                      ELSE ApplyStep(hpOut, l)]
          /\ UNCHANGED <<dirty, saved, hpOut, mp, jack, chips, activity, wedged>>

\* The round goes on after its codec calls: the release asks for a save.
UiDone == /\ ui.at = "keys"
          /\ ui.todo = << >>
          /\ dirty' = (dirty \/ ui.released)
          /\ ui' = [ui EXCEPT !.at = "idle", !.released = FALSE]
          /\ UNCHANGED <<vol, saved, hpOut, mp, jack, chips, activity, wedged>>

(* ---------------------------------- I2C ---------------------------------- *)

\* After the test of the cached page, a select, the note of it in the cache,
\* or the data write to the page the chip has.
Tested(op) ==
  LET c == op.reg[1]
      known == IF op.first THEN NoPage ELSE cache[c]
  IN  /\ cache' = [cache EXCEPT ![c] = known]
      /\ page' = IF known = op.reg[2] THEN page
                 ELSE [page EXCEPT ![c] = op.reg[2]]
      /\ UNCHANGED regs

Noted(op) == /\ cache' = [cache EXCEPT ![op.reg[1]] = op.reg[2]]
             /\ UNCHANGED <<page, regs>>

Written(op) ==
  LET r == <<op.reg[1], page[op.reg[1]], op.reg[3]>>
  IN  /\ regs' = IF r \in Registers THEN [regs EXCEPT ![r] = op.val] ELSE regs
      /\ UNCHANGED <<cache, page>>

AfterTest(op) ==
  IF ~op.first /\ cache[op.reg[1]] = op.reg[2] THEN "data" ELSE "note"

\* A transaction fails and the rest of its call is not tried.  Nothing is said
\* of the sound after that until the next boot, so the bus then stays wedged.
\* Both chips are held in reset once main has powered them down.
Fails(op) == /\ "i2c" \in Faults \/ mp.at = "wait"
             /\ cache' = IF op.at = "test" /\ op.first
                         THEN [cache EXCEPT ![op.reg[1]] = NoPage] ELSE cache
             /\ wedged' = TRUE
             /\ UNCHANGED <<page, regs>>

Proceeds(op) == /\ mp.at # "wait" /\ ~wedged
                /\ CASE op.at = "test" -> Tested(op)
                     [] op.at = "note" -> Noted(op)
                     [] op.at = "data" -> Written(op)
                /\ UNCHANGED wedged

\* The writes left when the first of q has made a step.
Left(q) == CASE q[1].at = "test" -> [q EXCEPT ![1].at = AfterTest(q[1])]
             [] q[1].at = "note" -> [q EXCEPT ![1].at = "data"]
             [] q[1].at = "data" -> Tail(q)

UiTransfer ==
  /\ ui.todo # << >>
  /\ \/ Proceeds(ui.todo[1]) /\ ui' = [ui EXCEPT !.todo = Left(@)]
     \/ Fails(ui.todo[1]) /\ ui' = [ui EXCEPT !.todo = Rest(@)]
  /\ UNCHANGED <<vol, dirty, saved, hpOut, mp, jack, activity>>

MainTransfer ==
  /\ MainTurn
  /\ mp.todo # << >>
  /\ ~(mp.at = "jack" /\ mp.todo[1].at = "data")
  /\ \/ Proceeds(mp.todo[1]) /\ mp' = [mp EXCEPT !.todo = Left(@)]
     \/ /\ mp.at # "jack"
        /\ Fails(mp.todo[1])
        /\ mp' = [mp EXCEPT !.todo = Rest(@)]
  /\ UNCHANGED <<vol, dirty, saved, hpOut, ui, jack, activity>>

(* ------------------------------ main's loop ------------------------------ *)

MainAt(at) == MainTurn /\ mp.at = at /\ mp.todo = << >>

Goto(at) == [mp EXCEPT !.at = at, !.next = "top", !.level = NoVol,
                       !.todo = CASE at = "jack" -> HeadphonesPresent
                                  [] at = "down" -> PowerDownWrites
                                  [] OTHER -> << >>]

\* Main saves a changed volume when nothing is played or uploaded.
FlushDue == dirty /\ activity = "idle"

Top == /\ MainAt("top")
       /\ mp' = IF FlushDue THEN [Goto("read") EXCEPT !.next = "jack"]
                ELSE Goto("jack")
       /\ UNCHANGED <<vol, dirty, saved, hpOut, ui, jack, chips, activity, wedged>>

\* enter_system_off, by the held button or the host, not during an upload.
PowerOff == /\ MainAt("top")
            /\ activity # "upload"
            /\ mp' = IF dirty THEN [Goto("read") EXCEPT !.next = "down"]
                     ELSE Goto("down")
            /\ UNCHANGED <<vol, dirty, saved, hpOut, ui, jack, chips, activity,
                           wedged>>

\* settings_flush: the header is read and takes the volume of that moment...
FlushRead == /\ MainAt("read")
             /\ \/ mp' = [mp EXCEPT !.at = "write", !.level = vol]
                \/ "io" \in Faults /\ mp' = [Goto(mp.next) EXCEPT !.failed = TRUE]
             /\ UNCHANGED <<vol, dirty, saved, hpOut, ui, jack, chips, activity,
                            wedged>>

\* ... and is written; a failed write may have landed.
FlushWrite == /\ MainAt("write")
              /\ \/ /\ saved' = mp.level
                    /\ dirty' = FALSE
                    /\ mp' = [Goto(mp.next) EXCEPT !.failed = FALSE]
                 \/ /\ "io" \in Faults
                    /\ saved' \in {saved, mp.level}
                    /\ mp' = [Goto(mp.next) EXCEPT !.failed = TRUE]
                    /\ UNCHANGED dirty
              /\ UNCHANGED <<vol, hpOut, ui, jack, chips, activity, wedged>>

\* Equal readings count up to 2, another one starts from 0.
Counted(raw) == IF raw # jack.raw THEN 0
                ELSE IF jack.cnt < 2 THEN jack.cnt + 1 ELSE jack.cnt

\* The jack is read, from whatever page the codec has; the plug may move
\* between any two readings, and a failed read says no plug.  Two equal
\* readings after the first switch the output.
JackSeen ==
  /\ MainTurn
  /\ mp.at = "jack"
  /\ mp.todo # << >>
  /\ \E raw \in BOOLEAN :
       /\ \/ /\ mp.todo[1].at = "data"
             /\ ~wedged
             /\ UNCHANGED wedged
          \/ /\ "i2c" \in Faults
             /\ ~raw
             /\ wedged' = TRUE
       /\ jack' = [raw |-> raw, cnt |-> Counted(raw)]
       /\ IF Counted(raw) = 2 /\ raw # hpOut
          THEN /\ hpOut' = raw
               /\ mp' = [mp EXCEPT !.at = "apply", !.todo = MuteOld(raw)]
          ELSE /\ mp' = Goto("usb")
               /\ UNCHANGED hpOut
  /\ UNCHANGED <<vol, dirty, saved, ui, chips, activity>>

\* The old output is silent: the new one gets the level of this moment.
Apply == /\ MainAt("apply")
         /\ mp' = [Goto("usb") EXCEPT !.todo = UnmuteNew(hpOut, vol)]
         /\ UNCHANGED <<vol, dirty, saved, hpOut, ui, jack, chips, activity,
                        wedged>>

\* The rest of the loop: commands of the host start and end uploads, a format
\* clears the settings with the rest of the header; Play starts and stops.
Usb == /\ MainAt("usb")
       /\ mp' = Goto("top")
       /\ \/ activity' \in {"idle", "play", "upload"} /\ UNCHANGED saved
          \/ activity' = "idle" /\ saved' = NoVol
       /\ UNCHANGED <<vol, dirty, hpOut, ui, jack, chips, wedged>>

(* ------------------------- power off, reset, boot ------------------------ *)

\* codec_power_down is over: both chips are held in reset until boot.
PoweredDown == /\ MainAt("down")
               /\ mp' = Goto("wait")
               /\ regs' = SilentRegs
               /\ UNCHANGED <<vol, dirty, saved, hpOut, ui, jack, cache, page,
                              activity, wedged>>

SystemOff == /\ MainAt("wait")
             /\ mp' = Goto("off")
             /\ UNCHANGED <<vol, dirty, saved, hpOut, ui, jack, chips, activity,
                            wedged>>

\* A header without settings leaves the initial level.
Restored(v) == IF v = NoVol THEN DefaultVol ELSE v

\* After SYSTEM OFF or a reset RAM is new, the codecs are brought up, the volume
\* is read back and the output starts where the jack says.
Boot ==
  /\ mp.at \in {"boot", "off"} \/ "reset" \in Faults
  /\ \E ok, present \in BOOLEAN :
       /\ ok \/ "io" \in Faults
       /\ vol' = IF ok THEN Restored(saved) ELSE DefaultVol
       /\ hpOut' = present
       /\ jack' = [raw |-> present, cnt |-> 0]
       /\ mp' = [at |-> "start", next |-> "top", level |-> NoVol,
                 failed |-> ~ok, todo |-> BootRoute(hpOut', vol')]
  /\ dirty' = FALSE
  /\ ui' = [at |-> "idle", key |-> "none", released |-> FALSE, todo |-> << >>]
  /\ cache' = [c \in Chips |-> NoPage]
  /\ page' = [c \in Chips |-> 0]
  /\ regs' = SilentRegs
  /\ activity' = "idle"
  /\ wedged' = FALSE
  /\ UNCHANGED saved

\* Both outputs are set: the UI thread is created and the loop begins.
Started == /\ MainAt("start")
           /\ mp' = Goto("top")
           /\ UNCHANGED <<vol, dirty, saved, hpOut, ui, jack, chips, activity,
                          wedged>>

Next == \/ UiKeys \/ UiTransfer \/ UiDone
        \/ MainTransfer \/ Top \/ PowerOff \/ FlushRead \/ FlushWrite
        \/ JackSeen \/ Apply \/ Usb \/ PoweredDown \/ SystemOff
        \/ Boot \/ Started

Spec == Init /\ [][Next]_vars

(* ------------------------------- properties ------------------------------ *)

\* Every variable has its type; in particular the volume stays in the table of
\* attenuations and both threads' writes name modelled registers.
TypeOK ==
  /\ vol \in Levels
  /\ dirty \in BOOLEAN
  /\ saved \in Levels \cup {NoVol}
  /\ hpOut \in BOOLEAN
  /\ ui \in [at : {"idle", "keys"}, key : Keys, released : BOOLEAN,
             todo : Seq(Operations)]
  /\ mp \in [at : {"boot", "start", "top", "read", "write", "jack", "apply",
                   "usb", "down", "wait", "off"},
             next : {"top", "jack", "down"}, level : Levels \cup {NoVol},
             failed : BOOLEAN, todo : Seq(Operations)]
  /\ jack \in [raw : BOOLEAN, cnt : 0..2]
  /\ cache \in [Chips -> Pages]
  /\ page \in [Chips -> Pages]
  /\ regs \in [Registers -> Values]
  /\ activity \in {"idle", "play", "upload"}
  /\ wedged \in BOOLEAN

\* The volume the user left is the volume of the next boot: with no key held
\* and the round over, a level that is not the saved one is still due for a
\* save (main.c 468-474), and the device is not switched off with a save due
\* (main.c 148).  A card that failed, or a format, excuses it.
VolumeKept ==
  /\ Running /\ ui.at = "idle" /\ ui.key = "none" /\ ~mp.failed
       => dirty \/ saved \in {NoVol, vol}
  /\ mp.at = "off" /\ ~mp.failed => ~dirty

\* Neither thread has a driver call under way or to come.
AtRest == /\ mp.at \in {"top", "read", "write", "usb"}
          /\ mp.todo = << >>
          /\ ui.todo = << >>

SpeakerSounds == regs[SpkVol] # 0 /\ regs[SpkDriver] = Unmuted
                                  /\ regs[SpkDac] = Unmuted

\* Exactly one output is in use: on headphones the speaker is silent, on the
\* speaker the headphones are muted and the amplifier is on (main.c 813-826,
\* 912-922), whatever keys are pressed around the switch.
OneOutput == AtRest /\ ~wedged =>
               IF hpOut THEN ~SpeakerSounds
               ELSE /\ regs[HpCtl] = Muted
                    /\ regs[SpkDriver] = Unmuted
                    /\ regs[SpkDac] = Unmuted

\* Headphones play at the level of the volume, both sides alike, and level 0
\* is silence (hp_apply_level, main.c 185-195).
HeadphoneLevel == AtRest /\ ~wedged /\ hpOut =>
                    IF vol = 0 THEN regs[HpCtl] = Muted
                    ELSE /\ regs[HpCtl] = Unmuted
                         /\ regs[MixerA] = vol
                         /\ regs[MixerB] = vol

\* The speaker plays at the level of the volume, also after a switch to it
\* (main.c 899-903).
SpeakerLevel == AtRest /\ ~wedged /\ ~hpOut => regs[SpkVol] = vol

(* ---- the inductive invariant behind OneOutput and HeadphoneLevel --------- *)
(* Without "route" and "bus" one thread at a time has driver calls under way, *)
(* and the pending writes say what will be heard.                             *)

Writes(q, r, v) == \E i \in 1..Len(q) : /\ q[i].reg = r /\ q[i].val = v
                                        /\ \A j \in (i + 1)..Len(q) : q[j].reg # r
Spares(q, r) == \A i \in 1..Len(q) : q[i].reg # r

\* With the registers as they are now, v is in r once q is written.
Ends(now, q, r, v) == Writes(q, r, v) \/ (Spares(q, r) /\ now[r] = v)

\* Once q is written the output in use, and only that one, sounds, and
\* headphones at the level l.
Heard(now, q, hp, l) ==
  IF hp THEN /\ Ends(now, q, SpkDriver, Muted)
             /\ IF l = 0 THEN Ends(now, q, HpCtl, Muted)
                ELSE /\ Ends(now, q, HpCtl, Unmuted)
                     /\ Ends(now, q, MixerA, l) /\ Ends(now, q, MixerB, l)
  ELSE /\ Ends(now, q, HpCtl, Muted)
       /\ Ends(now, q, SpkDriver, Unmuted) /\ Ends(now, q, SpkDac, Unmuted)

\* A cached page is the chip's, except between a select and the note of it; a
\* write that has been through the test goes to its own page.
Paged(known, on, q) ==
  /\ \A i \in 2..Len(q) : q[i].at = "test"
  /\ \A c \in Chips : \/ known[c] \in {NoPage, on[c]}
                      \/ q # << >> /\ q[1].at = "note" /\ q[1].reg[1] = c
  /\ q # << >> /\ q[1].at # "test" => on[q[1].reg[1]] = q[1].reg[2]

\* The writes under way, of the one thread that has any.
Pending == IF mp.todo # << >> THEN mp.todo ELSE ui.todo
Turns == /\ mp.todo # << >> => ui.at = "idle"
         /\ ui.at = "idle" => ui.todo = << >>
         /\ mp.at = "apply" => ui.at = "idle"

SoundInv ==
  /\ Turns
  /\ ~wedged =>
       /\ Paged(cache, page, Pending)
       /\ mp.at \in {"start", "top", "read", "write", "jack", "usb"} =>
            Heard(regs, Pending, hpOut, vol)
       /\ mp.at = "jack" => \A i \in 1..Len(mp.todo) : mp.todo[i].reg = Detect
       /\ mp.at = "apply" =>
            Ends(regs, mp.todo, IF hpOut THEN SpkDriver ELSE HpCtl, Muted)

=============================================================================
