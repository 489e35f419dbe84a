------------------------------ MODULE AudioFeed ------------------------------
(***************************************************************************)
(* Playback in audio.c: fill_block, which the feed thread runs for every   *)
(* transmit buffer, the loop and skip requests of the UI thread            *)
(* (main.c), and the reload of the player by main after a COMMIT, a FORMAT *)
(* or the boot scan.  They share their variables without a lock.           *)
(*                                                                         *)
(* The UI thread preempts the feed, so its handlers are atomic and may     *)
(* come between any two steps of fill_block; main runs while the feed      *)
(* waits for a buffer, and both may come between any two of its            *)
(* assignments.  fp is where the feed is in fill_block, mp where main is   *)
(* in the reload.                                                          *)
(*                                                                         *)
(* s_audio_buf is one pool of 512-byte slots: prefetch, then levels; the   *)
(* loop cache lies over both.  A slot is tagged with the block it was read *)
(* from, and the decoder with the block whose state it has.                *)
(***************************************************************************)
EXTENDS Integers, Sequences

CONSTANTS
  Lengths,    \* block_count of each catalog entry; 0 where nothing is to play
  HasLevels,  \* s_lvl_enabled
  Prefetch,   \* PREFETCH_BLOCKS
  LvlMax,     \* LVL_MAX_BYTES, in blocks
  LvlRatio,   \* audio blocks whose levels fill one block
  LoopCap,    \* LOOP_CAP_BLOCKS
  LoopBase,   \* LOOP_BASE_BLOCKS
  Divisors,   \* s_loop_divisors
  FirstDiv,   \* the first s_loop_div_idx
  Windows,    \* where in fill_block and in the reload the UI may come in
  Gestures,   \* what the user does in this instance: "uncache" goes from a
              \* cached loop to one too long for the cache, "atEnd" asks for a
              \* loop behind the last block, "load" is the host's part
  Faults      \* what goes wrong in this instance

Entries == DOMAIN Lengths
Count == Len(Lengths)

ASSUME PlaylistAssumption == Lengths \in Seq(Nat) /\ HasLevels \in BOOLEAN

ASSUME PoolAssumption ==
  /\ Prefetch \in Nat \ {0} /\ LvlMax \in Nat \ {0} /\ LvlRatio \in Nat \ {0}
  /\ LoopCap \in Nat /\ LoopCap <= Prefetch + LvlMax

ASSUME LoopAssumption ==
  /\ LoopBase \in Nat
  /\ Divisors \in Seq(Nat \ {0}) /\ FirstDiv \in DOMAIN Divisors

ASSUME InstanceAssumption ==
  /\ Windows \subseteq {"request", "arm", "preload", "read", "clear", "dirty",
                        "serve", "seam", "change", "refill", "load"}
  /\ Gestures \subseteq {"loop", "divider", "uncache", "atEnd", "skip", "load"}
  /\ Faults \subseteq {"io"}

VARIABLES
  playing,   \* s_playing
  session,   \* emmc_write_multi_active()
  song,      \* s_song_count, s_cur_song, s_song_block_start, s_song_block_count
  cur,       \* s_cur_block
  dec,       \* the state of s_pred and s_sidx
  pf,        \* s_pf_pos, s_pf_count
  loop,      \* s_loop_start, _end, _len, _pos, and s_loop_pred, s_loop_sidx
  active,    \* s_loop_active
  startReq,  \* s_loop_start_req
  cacheOk,   \* s_loop_cache_ok
  pfDirty,   \* s_loop_pf_dirty
  div,       \* s_loop_div_idx, from 1
  skip,      \* s_skip_req
  lvl,       \* s_lvl_present, s_lvl_loaded, s_lvl_start, s_lvl_blocks
  pool,      \* s_audio_buf
  held,      \* play_prev: Play is down
  was,       \* play_was_playing
  fp,        \* where the feed is, and the direction change_song was given
  mp         \* where main is in a reload, and what it loads

feedOnly == <<song, cur, dec, pf, loop, cacheOk, lvl, pool>>
requests == <<playing, active, startReq, pfDirty, div, skip>>
ui == <<held, was>>
vars == <<feedOnly, requests, ui, session, fp, mp>>

Least(a, b) == IF a <= b THEN a ELSE b

\* The contents of a slot: block k of the audio of entry s, its levels, or
\* bytes of a transfer that has not come to its end.
NoEntry == 0
Audio(s, k) == [entry |-> s, off |-> k]
Level(s) == [entry |-> s, off |-> -1]
Junk == [entry |-> NoEntry, off |-> -1]
PoolSize == Prefetch + LvlMax
Slots == 0 .. (PoolSize - 1)

\* The decoder is reset, or has decoded an entry up to block off, or has been
\* given anything else.
Reset == [entry |-> NoEntry, off |-> 0]
Noise == [entry |-> NoEntry, off |-> -1]
Decoded(d, tag) ==
  IF tag.off >= 0 /\ tag.off = d.off /\ d.entry \in {tag.entry, NoEntry}
    THEN [entry |-> tag.entry, off |-> tag.off + 1]
    ELSE Noise

NoLoop == [start |-> 0, end |-> 0, len |-> 0, pos |-> 0, saved |-> Reset]
EmptyPf == [pos |-> 0, count |-> 0]

ReadOutcomes == IF "io" \in Faults THEN BOOLEAN ELSE {TRUE}

\* lvl_setup: one block of levels for LvlRatio blocks of audio, capped.
LevelBlocks(count) == Least((count + LvlRatio - 1) \div LvlRatio, LvlMax)
LvlSetup(s, count) ==
  [present |-> HasLevels /\ count > 0, loaded |-> FALSE,
   of |-> s, blocks |-> LevelBlocks(count)]

(***************************************************************************)
(* fill_block: the loop is armed.                                          *)
(***************************************************************************)

Goto(step) == fp' = [at |-> step, dir |-> 1]

Sounding == playing /\ song.len > 0 /\ ~session

\* Paused, no song, or an upload session: a buffer of silence.
Silence == fp.at = "idle" /\ ~Sounding /\ UNCHANGED vars

Enter ==
  /\ fp.at = "idle" /\ Sounding
  /\ Goto("request")
  /\ UNCHANGED <<feedOnly, requests, ui, session, mp>>

Request ==
  /\ fp.at = "request"
  /\ startReq' = FALSE
  /\ Goto(IF startReq THEN "arm" ELSE "dirty")
  /\ UNCHANGED <<feedOnly, playing, active, pfDirty, div, skip, ui, session, mp>>

\* loop_set_end.
LoopLength == LET len == LoopBase \div Divisors[div]
              IN  Least(IF len = 0 THEN 1 ELSE len, song.len)
LoopEnd(start) == Least(start + LoopLength, song.len)

ArmedLoop ==
  LET start == IF cur < song.len THEN cur ELSE 0
  IN  [start |-> start, end |-> LoopEnd(start), len |-> LoopEnd(start) - start,
       pos |-> loop.pos, saved |-> dec]

\* The decoder is saved, the loop placed and made active; loop_preload begins.
Arm ==
  /\ fp.at = "arm"
  /\ loop' = ArmedLoop
  /\ active' = (loop'.end > loop'.start)
  /\ cacheOk' = FALSE
  /\ Goto("preload")
  /\ UNCHANGED <<song, cur, dec, pf, lvl, pool, playing, startReq, pfDirty, div,
                 skip, ui, session, mp>>

AnyLength == loop.len # 0                          \* mutant: no capacity test
Fits == loop.len # 0 /\ loop.len <= LoopCap

KeptLevels == lvl                                  \* mutant: levels not given up
LevelsGivenUp == [lvl EXCEPT !.loaded = FALSE]

\* loop_preload: the levels go before the read overwrites them.
Preload ==
  /\ fp.at = "preload"
  /\ \/ /\ ~Fits
        /\ Goto("clear")
        /\ UNCHANGED <<lvl, pool>>
     \/ /\ Fits
        /\ lvl' = LevelsGivenUp
        /\ pool' = [i \in Slots |-> IF i < loop.len THEN Junk ELSE pool[i]]
        /\ Goto("read")
  /\ UNCHANGED <<song, cur, dec, pf, loop, cacheOk, requests, ui, session, mp>>

PreloadRead(ok) ==
  /\ fp.at = "read"
  /\ IF ok
       THEN /\ pool' = [i \in Slots |-> IF i < loop.len
                                          THEN Audio(song.start, loop.start + i)
                                          ELSE pool[i]]
            /\ cacheOk' = TRUE
            /\ loop' = [loop EXCEPT !.pos = 0]
       ELSE UNCHANGED <<pool, cacheOk, loop>>
  /\ Goto("clear")
  /\ UNCHANGED <<song, cur, dec, pf, lvl, requests, ui, session, mp>>

\* s_loop_pf_dirty = false at the end of the start.
ClearDirty ==
  /\ fp.at = "clear"
  /\ pfDirty' = FALSE
  /\ Goto("dirty")
  /\ UNCHANGED <<feedOnly, playing, active, startReq, div, skip, ui, session, mp>>

(***************************************************************************)
(* fill_block: a stopped loop, a block from the cache, the seam.           *)
(***************************************************************************)

StalePf == pf      \* mutant: prefetch kept after the loop
DroppedPf == EmptyPf

DropPrefetch ==
  /\ fp.at = "dirty"
  /\ pfDirty' = FALSE
  /\ IF pfDirty
       THEN /\ cacheOk' = FALSE
            /\ lvl' = LevelsGivenUp
            /\ pf' = DroppedPf
       ELSE UNCHANGED <<cacheOk, lvl, pf>>
  /\ Goto("serve")
  /\ UNCHANGED <<song, cur, dec, loop, pool, playing, active, startReq, div, skip,
                 ui, session, mp>>

\* The decoder at the wrap.
RunOn == Decoded(dec, pool[loop.pos])  \* mutant: the saved state not restored
Restored == loop.saved

ServeLoop ==
  /\ fp.at = "serve"
  /\ active /\ cacheOk
  /\ IF loop.pos + 1 >= loop.len
       THEN /\ loop' = [loop EXCEPT !.pos = 0]
            /\ cur' = loop.start
            /\ dec' = Restored
       ELSE /\ loop' = [loop EXCEPT !.pos = @ + 1]
            /\ cur' = cur + 1
            /\ dec' = Decoded(dec, pool[loop.pos])
  /\ Goto("idle")
  /\ UNCHANGED <<song, pf, cacheOk, lvl, pool, requests, ui, session, mp>>

NotCached ==
  /\ fp.at = "serve"
  /\ ~(active /\ cacheOk)
  /\ Goto("seam")
  /\ UNCHANGED <<feedOnly, requests, ui, session, mp>>

PastLoop == cur > loop.end   \* mutant: one block too far
AtLoopEnd == cur >= loop.end

Wrap ==
  /\ fp.at = "seam"
  /\ active /\ AtLoopEnd
  /\ cur' = loop.start /\ pf' = EmptyPf /\ dec' = loop.saved
  /\ Goto("refill")
  /\ UNCHANGED <<song, loop, cacheOk, lvl, pool, requests, ui, session, mp>>

\* A skip, or the end of the song; change_song is called with the direction
\* read here.
Forward == 1                 \* mutant: a skip back goes forward
Direction == IF skip < 0 THEN -1 ELSE 1

NextSong ==
  /\ fp.at = "seam"
  /\ ~(active /\ AtLoopEnd)
  /\ skip # 0 \/ cur >= song.len
  /\ fp' = [at |-> "change", dir |-> Direction]
  /\ UNCHANGED <<feedOnly, requests, ui, session, mp>>

PlayOn ==
  /\ fp.at = "seam"
  /\ ~(active /\ AtLoopEnd)
  /\ skip = 0 /\ cur < song.len
  /\ Goto("refill")
  /\ UNCHANGED <<feedOnly, requests, ui, session, mp>>

(***************************************************************************)
(* fill_block: change_song.                                                *)
(***************************************************************************)

\* The entry step places away, and the steps that lead to one it can read and
\* play.  Entries count from 1 here.
EntryAt(dir, step) == ((song.idx - 1 + dir * step) % song.n) + 1
NamedEntry(i) == TRUE        \* mutant: block_count not looked at
PlayableEntry(i) == Lengths[i] > 0
Found(dir, unread) ==
  {step \in 1 .. song.n : /\ EntryAt(dir, step) \notin unread
                          /\ PlayableEntry(EntryAt(dir, step))}
Nearest(dir, unread) ==
  EntryAt(dir, CHOOSE step \in Found(dir, unread) :
                 \A other \in Found(dir, unread) : step <= other)
Unread == IF "io" \in Faults THEN SUBSET Entries ELSE {{}}

PendingSkip == skip          \* mutant: the skip not taken back
NoSkip == 0

ChangeSong(unread) ==
  LET i == Nearest(fp.dir, unread)
  IN
  /\ fp.at = "change"
  /\ IF Found(fp.dir, unread) = {}
       THEN UNCHANGED <<song, lvl>>
       ELSE /\ song' = [song EXCEPT !.idx = i, !.start = i, !.len = Lengths[i]]
            /\ lvl' = LvlSetup(i, Lengths[i])
  /\ skip' = NoSkip
  /\ cur' = 0 /\ pf' = EmptyPf /\ dec' = Reset
  /\ active' = FALSE /\ cacheOk' = FALSE
  /\ Goto("refill")
  /\ UNCHANGED <<loop, pool, playing, startReq, pfDirty, div, ui, session, mp>>

(***************************************************************************)
(* fill_block: prefetch.                                                   *)
(***************************************************************************)

\* A block from the prefetch slots, as they are after a refill or as they were.
DecodeFrom(slots, window) ==
  /\ pf' = [window EXCEPT !.pos = @ + 1]
  /\ cur' = cur + 1
  /\ dec' = Decoded(dec, slots[window.pos])
  /\ Goto("idle")

PlayPrefetched ==
  /\ fp.at = "refill" /\ pf.pos < pf.count
  /\ DecodeFrom(pool, pf)
  /\ UNCHANGED <<song, loop, cacheOk, lvl, pool, requests, ui, session, mp>>

\* n blocks from the current one; the levels with the first refill of a song.
Remaining == IF cur < song.len THEN song.len - cur ELSE 0
RefillSize == Least(Remaining, Prefetch)

Refill(levelsOk) ==
  LET wanted == lvl.present /\ ~lvl.loaded
  IN
  /\ fp.at = "refill" /\ pf.pos >= pf.count
  /\ RefillSize > 0
  /\ pool' = [i \in Slots |->
                IF i < RefillSize THEN Audio(song.start, cur + i)
                ELSE IF wanted /\ i \in Prefetch .. (Prefetch + lvl.blocks - 1)
                       THEN IF levelsOk THEN Level(lvl.of) ELSE Junk
                       ELSE pool[i]]
  /\ lvl' = IF wanted /\ levelsOk THEN [lvl EXCEPT !.loaded = TRUE] ELSE lvl
  /\ DecodeFrom(pool', [pos |-> 0, count |-> RefillSize])
  /\ UNCHANGED <<song, loop, cacheOk, requests, ui, session, mp>>

\* Nothing to read, or the read fails: the 440 Hz tone.
Tone ==
  /\ fp.at = "refill" /\ pf.pos >= pf.count
  /\ \/ RefillSize = 0 /\ UNCHANGED <<pf, pool>>
     \/ /\ RefillSize > 0 /\ FALSE \in ReadOutcomes
        /\ pf' = EmptyPf
        /\ pool' = [i \in Slots |-> IF i < RefillSize THEN Junk ELSE pool[i]]
  /\ Goto("idle")
  /\ UNCHANGED <<song, cur, dec, loop, cacheOk, lvl, requests, ui, session, mp>>

(***************************************************************************)
(* The UI thread.                                                          *)
(***************************************************************************)

UiMay == /\ fp.at \in Windows \union {"idle"}
         /\ mp.at = 0 \/ "load" \in Windows

\* A loop request that will find the feed past the last block of the song.
NotAtEnd == cur + 1 < song.len \/ "atEnd" \in Gestures

Press ==
  /\ "loop" \in Gestures /\ UiMay /\ NotAtEnd
  /\ ~held
  /\ held' = TRUE /\ was' = playing
  /\ playing' = TRUE
  /\ startReq' = (startReq \/ song.len # 0)
  /\ UNCHANGED <<feedOnly, active, pfDirty, div, skip, session, fp, mp>>

LoopKept == active           \* mutant: s_loop_active not cleared
LoopStopped == FALSE

\* audio_loop_stop; after a short press one toggle of what there was before.
Release(short) ==
  /\ UiMay /\ held
  /\ held' = FALSE
  /\ startReq' = FALSE /\ active' = LoopStopped /\ pfDirty' = TRUE
  /\ playing' = IF short THEN ~was ELSE playing
  /\ UNCHANGED <<feedOnly, div, skip, was, session, fp, mp>>

\* audio_loop_change_divider, the index held between its ends.
Clamped(dir) == IF div + dir \in DOMAIN Divisors THEN div + dir ELSE div

ChangeDivider(dir) ==
  /\ "divider" \in Gestures /\ UiMay /\ NotAtEnd
  /\ held
  /\ \/ "uncache" \in Gestures \/ ~cacheOk
     \/ LoopBase \div Divisors[Clamped(dir)] <= LoopCap
  /\ div' = Clamped(dir)
  /\ startReq' = (startReq \/ active)
  /\ UNCHANGED <<feedOnly, playing, active, pfDirty, skip, ui, session, fp, mp>>

\* audio_loop_move: the rocker while Play is held.
MoveLoop ==
  /\ UiMay /\ NotAtEnd
  /\ held /\ active
  /\ startReq' = (startReq \/ song.len # 0)
  /\ UNCHANGED <<feedOnly, playing, active, pfDirty, div, skip, ui, session, fp, mp>>

\* The rocker otherwise: audio_skip and audio_play.
Skip(dir) ==
  /\ "skip" \in Gestures /\ UiMay
  /\ ~held
  /\ skip' = dir /\ playing' = TRUE
  /\ UNCHANGED <<feedOnly, active, startReq, pfDirty, div, ui, session, fp, mp>>

(***************************************************************************)
(* main.                                                                   *)
(***************************************************************************)

\* An upload opens and closes its CMD25 session.
Session ==
  /\ "load" \in Gestures /\ mp.at = 0 /\ fp.at = "idle"
  /\ session' = ~session
  /\ UNCHANGED <<feedOnly, requests, ui, fp, mp>>

Nothing == [n |-> 0, idx |-> 1, start |-> NoEntry, len |-> 0]
NoLoad == [at |-> 0, target |-> Nothing]

\* What main loads: a committed song, or nothing after a format.
Loads == {[n |-> Count, idx |-> i, start |-> i, len |-> Lengths[i]] :
            i \in {e \in Entries : Lengths[e] > 0}}
         \union {Nothing}

LoadBegins(target) ==
  /\ "load" \in Gestures /\ mp.at = 0 /\ ~session
  /\ fp.at = "idle"
  /\ mp' = [at |-> 1, target |-> target]
  /\ UNCHANGED <<feedOnly, requests, ui, session, fp>>

\* audio_pause, audio_set_playlist (2, 3) and audio_load_song (4 to 14), one
\* assignment at a time, each with fp.at = "idle".
LastStep == 14
LoopDropped(at) == active /\ at # 5
LoadStep ==
  LET at == mp.at
      to == mp.target
  IN
  /\ at # 0 /\ fp.at = "idle"
  /\ playing' = (playing /\ at \notin {1, 4})
  /\ active' = LoopDropped(at)
  /\ startReq' = (startReq /\ at # 6)
  /\ cacheOk' = (cacheOk /\ at # 7)
  /\ pfDirty' = (pfDirty /\ at # 8)
  /\ song' = [n |-> IF at = 2 THEN to.n ELSE song.n,
              idx |-> IF at = 3 THEN to.idx ELSE song.idx,
              start |-> IF at = 9 THEN to.start ELSE song.start,
              len |-> IF at = 10 THEN to.len ELSE song.len]
  /\ cur' = IF at = 11 THEN 0 ELSE cur
  /\ pf' = IF at = 12 THEN EmptyPf ELSE pf
  /\ dec' = IF at = 13 THEN Reset ELSE dec
  /\ lvl' = IF at = LastStep THEN LvlSetup(to.start, to.len) ELSE lvl
  /\ mp' = IF at = LastStep THEN NoLoad ELSE [mp EXCEPT !.at = at + 1]
  /\ UNCHANGED <<loop, pool, div, skip, ui, session, fp>>

(***************************************************************************)
(* The specification.                                                      *)
(***************************************************************************)

\* Static initialisation, main about to load what the boot scan found.
Init ==
  /\ playing = FALSE /\ session = FALSE
  /\ song = Nothing /\ cur = 0 /\ dec = Reset /\ pf = EmptyPf
  /\ loop = NoLoop /\ active = FALSE /\ startReq = FALSE /\ cacheOk = FALSE
  /\ pfDirty = FALSE /\ div = FirstDiv /\ skip = 0
  /\ lvl = [present |-> FALSE, loaded |-> FALSE, of |-> NoEntry, blocks |-> 0]
  /\ pool = [i \in Slots |-> Junk]
  /\ held = FALSE /\ was = FALSE
  /\ fp = [at |-> "idle", dir |-> 1]
  /\ mp \in [at : {1}, target : Loads]

Feed ==
  \/ Silence \/ Enter \/ Request \/ Arm \/ Preload \/ ClearDirty \/ DropPrefetch
  \/ ServeLoop \/ NotCached \/ Wrap \/ NextSong \/ PlayOn
  \/ PlayPrefetched \/ Tone
  \/ \E ok \in ReadOutcomes : PreloadRead(ok) \/ Refill(ok)
  \/ \E unread \in Unread : ChangeSong(unread)

User ==
  \/ Press \/ MoveLoop
  \/ \E short \in BOOLEAN : Release(short)
  \/ \E dir \in {1, -1} : ChangeDivider(dir) \/ Skip(dir)

Main ==
  \/ Session \/ LoadStep
  \/ \E target \in Loads : LoadBegins(target)

Next == Feed \/ User \/ Main

Spec == Init /\ [][Next]_vars

\* The feed has the second highest priority, the UI thread above it sleeps 8 ms
\* in every round, and the transmit queue keeps emptying.
FairSpec == Spec /\ WF_vars(Feed)

(***************************************************************************)
(* Properties.                                                             *)
(***************************************************************************)

Tags == [entry : Entries \union {NoEntry}, off : Nat \union {-1}]
Songs == [n : {0, Count}, idx : Entries \union {1},
          start : Entries \union {NoEntry}, len : Nat]
FeedSteps == {"idle", "request", "arm", "preload", "read", "clear", "dirty",
              "serve", "seam", "change", "refill"}

\* Each variable holds what its C type and the handlers allow it.
TypeOK ==
  /\ playing \in BOOLEAN /\ session \in BOOLEAN /\ held \in BOOLEAN
  /\ was \in BOOLEAN /\ active \in BOOLEAN /\ startReq \in BOOLEAN
  /\ cacheOk \in BOOLEAN /\ pfDirty \in BOOLEAN
  /\ song \in Songs /\ cur \in Nat /\ dec \in Tags
  /\ pf \in [pos : Nat, count : Nat]
  /\ loop \in [start : Nat, end : Nat, len : Nat, pos : Nat, saved : Tags]
  /\ div \in DOMAIN Divisors /\ skip \in {-1, 0, 1}
  /\ lvl \in [present : BOOLEAN, loaded : BOOLEAN,
              of : Entries \union {NoEntry}, blocks : 0 .. LvlMax]
  /\ pool \in [Slots -> Tags]
  /\ fp \in [at : FeedSteps, dir : {1, -1}]
  /\ mp \in [at : 0 .. LastStep, target : Songs]

\* No read of the card and no decoded block goes past the end of its part of
\* s_audio_buf, however the three threads interleave.
InPool ==
  /\ pf.pos <= pf.count /\ pf.count <= Prefetch
  /\ fp.at = "read" => loop.len \in 1 .. PoolSize
  /\ cacheOk => loop.pos < loop.len /\ loop.len <= PoolSize
  /\ lvl.blocks <= LvlMax

\* lvl_index_at: what the UI thread reads as levels is the level table of the
\* song it was set up for, never loop audio or half a transfer.
LevelsShown == lvl.present /\ lvl.loaded /\ ~cacheOk
LvlSafe ==
  LevelsShown => \A i \in 0 .. (lvl.blocks - 1) : pool[Prefetch + i] = Level(lvl.of)

\* Between two buffers the decoder has decoded exactly the blocks of the
\* current song before s_cur_block: no seam, skip, loop stop or reload ever
\* feeds it a block out of order or of another song.
Quiet == fp.at = "idle" /\ mp.at = 0
InStep ==
  Quiet => /\ cur <= song.len
           /\ dec.off = cur
           /\ dec.entry = song.start \/ dec = Reset

\* The loop is momentary: it does not outlive the press of Play.
Momentary == ~held => ~active /\ ~startReq

\* A loop plays its own blocks: the position stays inside it and the cache
\* index goes with the position.
LoopHeld ==
  Quiet /\ active =>
    /\ cur \in loop.start .. loop.end
    /\ cacheOk => cur = loop.start + loop.pos

\* With a working card the feed never comes to the refill with nothing to
\* read, which would be the error tone for ever.
NeverStarved == fp.at = "refill" => pf.pos < pf.count \/ RefillSize > 0

\* A skip is taken back only by a change of song in its direction.
SkipHonoured == [][skip # 0 /\ skip' = 0 => fp.at = "change" /\ fp.dir = skip]_vars

\* While the player plays, outside a loop, a skip is served.
SkipServed ==
  []<>~(playing /\ ~session /\ mp.at = 0 /\ song.len > 0 /\ ~active
        /\ ~startReq /\ skip # 0)

(***************************************************************************)
(* The inductive invariants behind InPool, LvlSafe and Momentary.          *)
(***************************************************************************)

\* A level table counts as loaded only while its slots hold it, whether the
\* loop cache is live or not.
LevelsInv ==
  /\ lvl.loaded =>
       \A i \in 0 .. (lvl.blocks - 1) : pool[Prefetch + i] = Level(lvl.of)
  /\ fp.at = "read" => ~lvl.loaded

\* What holds before every step and after it, whatever the UI thread does
\* wherever it comes in.
Good == TypeOK /\ InPool /\ LevelsInv

\* Without a press there is no loop, nor one about to be placed.
HoldInv == Momentary /\ (~held => fp.at # "arm")

(***************************************************************************)
(* The inductive invariant behind InStep, LoopHeld and NeverStarved, where *)
(* the UI thread does not come in between the steps of a loop start or of  *)
(* a change of song, and reads do not fail.                                *)
(***************************************************************************)

\* The decoder has decoded the current song up to a block.
Sync(block, d) == d.off = block /\ (d.entry = song.start \/ d = Reset)

Positioned ==
  /\ cur <= song.len /\ Sync(cur, dec) /\ song.len # 1
  /\ fp.at # "idle" => song.len > 0
  /\ fp.at \in {"arm", "refill"} => cur < song.len

\* A request will find the feed before the last block, though one more block
\* may be played until then.
Requested ==
  startReq =>
    /\ fp.at \notin {"arm", "preload", "read", "clear"}
    /\ fp.at \in {"idle", "request"} => cur < song.len
    /\ fp.at \in {"dirty", "serve", "seam", "refill"} => cur + 1 < song.len

\* The loop lies in the song, with the position in it and the decoder saved at
\* its start.  It was just placed there as long as its start is not complete.
Starting == fp.at \in {"preload", "read", "clear"}
Placed ==
  /\ loop.start < loop.end /\ loop.end <= song.len
  /\ loop.len = loop.end - loop.start
  /\ Sync(loop.start, loop.saved)
  /\ cur \in loop.start .. loop.end
Looping ==
  /\ active \/ cacheOk \/ Starting => Placed
  /\ Starting => active /\ cur = loop.start
  /\ fp.at \in {"preload", "read"} => loop.end = LoopEnd(loop.start)
  /\ active /\ fp.at = "refill" => cur < loop.end

\* The cache holds the loop, and it will hold the loop that is placed next.
Cached ==
  /\ fp.at \in {"preload", "read", "seam", "change", "refill"} => ~cacheOk
  /\ fp.at = "read" => Fits
  /\ cacheOk =>
       /\ active \/ (pfDirty /\ fp.at # "serve")
       /\ cur = loop.start + loop.pos /\ loop.pos < loop.len /\ loop.len <= LoopCap
       /\ \A i \in 0 .. (loop.len - 1) : pool[i] = Audio(song.start, loop.start + i)
       /\ LoopLength <= LoopCap \/ loop.end = song.len

\* The prefetch slots hold the next blocks, unless the cache lies over them.
PfOk ==
  /\ cur + (pf.count - pf.pos) <= song.len
  /\ \A i \in pf.pos .. (pf.count - 1) :
       pool[i] = Audio(song.start, cur + (i - pf.pos))
Prefetched ==
  /\ fp.at \in {"idle", "request", "arm", "clear", "dirty", "serve"} => PfOk \/ cacheOk
  /\ fp.at = "preload" => PfOk \/ Fits
  /\ fp.at \in {"seam", "refill"} => PfOk

\* What the assignments of a reload have done so far: the feed waits.
Reloading ==
  LET at == mp.at
      to == mp.target
  IN
  /\ fp.at = "idle" /\ ~playing
  /\ at > 5 => ~active
  /\ at > 6 => ~startReq
  /\ at > 7 => ~cacheOk
  /\ at > 9 => song.start = to.start
  /\ at > 10 => song.len = to.len
  /\ at > 11 => cur = 0
  /\ at > 12 => pf = EmptyPf
  /\ at > 13 => dec = Reset

Following ==
  /\ mp.target.len # 1
  /\ mp.at <= 1 => Positioned /\ Requested /\ Looping /\ Cached /\ Prefetched
  /\ mp.at > 1 => Reloading

=============================================================================
