--------------------------- MODULE AudioFeedProofs ---------------------------
(***************************************************************************)
(* What AudioFeed guarantees for every playlist, every size of the pool,   *)
(* every interleaving of the three threads and every failure of a read;    *)
(* and that the feed follows its song, where the known races are left out. *)
(***************************************************************************)
EXTENDS AudioFeed, TLAPS, WellFoundedInduction

(***************************************************************************)
(* Facts about the helpers.                                                *)
(***************************************************************************)

\* The sizes are naturals, and the loop cache fits the pool.
LEMMA Sizes ==
  /\ Prefetch \in Nat /\ Prefetch > 0 /\ LvlMax \in Nat /\ LvlMax > 0
  /\ LvlRatio \in Nat /\ LvlRatio > 0 /\ LoopCap \in Nat
  /\ PoolSize \in Nat /\ LoopCap <= PoolSize /\ PoolSize = Prefetch + LvlMax
  /\ Slots \subseteq Nat
BY PoolAssumption DEF PoolSize, Slots

\* Entries are numbered from 1 to Count, and each has a natural length.
LEMMA EntryFacts ==
  /\ Count \in Nat /\ Entries = 1 .. Count
  /\ \A i \in Entries : Lengths[i] \in Nat
BY PlaylistAssumption DEF Count, Entries

\* Every divisor is positive.
LEMMA DivisorFacts ==
  /\ LoopBase \in Nat
  /\ \A i \in DOMAIN Divisors : Divisors[i] \in Nat \ {0}
  /\ DOMAIN Divisors \subseteq Int /\ FirstDiv \in DOMAIN Divisors
BY LoopAssumption

\* Least is one of its arguments and no greater than either.
LEMMA LeastFacts ==
  ASSUME NEW a \in Nat, NEW b \in Nat
  PROVE  Least(a, b) \in Nat /\ Least(a, b) <= a /\ Least(a, b) <= b
BY DEF Least

\* Quotients of naturals are naturals.
LEMMA Quotient ==
  ASSUME NEW a \in Nat, NEW b \in Nat \ {0}
  PROVE  a \div b \in Nat
OBVIOUS

\* The level table of a song never exceeds its part of the pool.
LEMMA LevelBlocksFit ==
  ASSUME NEW c \in Nat
  PROVE  LevelBlocks(c) \in 0 .. LvlMax
<1>1. (c + LvlRatio - 1) \in Nat
  BY Sizes
<1>2. (c + LvlRatio - 1) \div LvlRatio \in Nat
  BY <1>1, Sizes, Quotient
<1> QED
  BY <1>2, Sizes, LeastFacts DEF LevelBlocks

Levels == [present : BOOLEAN, loaded : BOOLEAN,
           of : Entries \union {NoEntry}, blocks : 0 .. LvlMax]

\* lvl_setup gives a table of the right shape, not loaded.
LEMMA SetupTypes ==
  ASSUME NEW s \in Entries \union {NoEntry}, NEW c \in Nat
  PROVE  LvlSetup(s, c) \in Levels /\ LvlSetup(s, c).loaded = FALSE
BY LevelBlocksFit, PlaylistAssumption DEF LvlSetup, Levels

\* A tag decodes to a tag.
LEMMA DecodedTypes ==
  ASSUME NEW d \in Tags, NEW t \in Tags
  PROVE  Decoded(d, t) \in Tags
<1>1. CASE t.off >= 0 /\ t.off = d.off /\ d.entry \in {t.entry, NoEntry}
  <2>1. t.off + 1 \in Nat
    BY <1>1 DEF Tags
  <2> QED
    BY <1>1, <2>1 DEF Decoded, Tags
<1>2. CASE ~(t.off >= 0 /\ t.off = d.off /\ d.entry \in {t.entry, NoEntry})
  BY <1>2 DEF Decoded, Noise, Tags
<1> QED
  BY <1>1, <1>2

\* Junk, the reset decoder and a block of an entry are tags.
LEMMA TagFacts ==
  /\ Junk \in Tags /\ Reset \in Tags
  /\ \A s \in Entries \union {NoEntry} :
       Level(s) \in Tags /\ \A k \in Nat : Audio(s, k) \in Tags
BY DEF Junk, Reset, Level, Audio, Tags

(***************************************************************************)
(* Types.                                                                  *)
(***************************************************************************)

\* TypeOK by the groups of variables a step changes.
FlagTypes ==
  /\ playing \in BOOLEAN /\ active \in BOOLEAN /\ startReq \in BOOLEAN
  /\ pfDirty \in BOOLEAN /\ div \in DOMAIN Divisors /\ skip \in {-1, 0, 1}
UiTypes == held \in BOOLEAN /\ was \in BOOLEAN
PlayTypes ==
  /\ song \in Songs /\ cur \in Nat /\ dec \in Tags
  /\ pf \in [pos : Nat, count : Nat]
  /\ loop \in [start : Nat, end : Nat, len : Nat, pos : Nat, saved : Tags]
  /\ cacheOk \in BOOLEAN /\ lvl \in Levels /\ pool \in [Slots -> Tags]
FpTypes == fp \in [at : FeedSteps, dir : {1, -1}]
MpTypes == mp \in [at : 0 .. LastStep, target : Songs]

\* TypeOK by groups of variables, so that a leaf cites only what it needs.
LEMMA TypeGroups ==
  TypeOK <=> FlagTypes /\ UiTypes /\ PlayTypes /\ FpTypes /\ MpTypes
             /\ session \in BOOLEAN
BY DEF TypeOK, FlagTypes, UiTypes, PlayTypes, FpTypes, MpTypes, Levels

\* The same after a step.
LEMMA TypeGroupsNext ==
  FlagTypes' /\ UiTypes' /\ PlayTypes' /\ FpTypes' /\ MpTypes'
    /\ session' \in BOOLEAN => TypeOK'
BY DEF TypeOK, FlagTypes, UiTypes, PlayTypes, FpTypes, MpTypes, Levels

\* The loop placed by a request.
LEMMA ArmedTypes ==
  ASSUME PlayTypes, FlagTypes
  PROVE  ArmedLoop \in [start : Nat, end : Nat, len : Nat, pos : Nat, saved : Tags]
<1> DEFINE start == IF cur < song.len THEN cur ELSE 0
           quotient == LoopBase \div Divisors[div]
<1>1. song.len \in Nat /\ start \in Nat /\ start <= song.len
  BY DEF PlayTypes, Songs
<1>2. quotient \in Nat
  BY DivisorFacts, Quotient DEF FlagTypes
<1>3. LoopLength \in Nat
  <2>1. (IF quotient = 0 THEN 1 ELSE quotient) \in Nat
    BY <1>2
  <2> QED
    BY <1>1, <2>1, LeastFacts DEF LoopLength
<1>4. LoopEnd(start) \in Nat /\ LoopEnd(start) >= start
  <2> HIDE DEF start
  <2> QED
    BY <1>1, <1>3 DEF LoopEnd, Least
<1>5. LoopEnd(start) - start \in Nat
  <2> HIDE DEF start
  <2> QED
    BY <1>1, <1>4
<1>6. ArmedLoop = [start |-> start, end |-> LoopEnd(start),
                   len |-> LoopEnd(start) - start, pos |-> loop.pos, saved |-> dec]
  BY DEF ArmedLoop
<1>7. loop.pos \in Nat /\ dec \in Tags
  BY DEF PlayTypes
<1> HIDE DEF start
<1> QED
  BY <1>1, <1>4, <1>5, <1>6, <1>7

\* A feed step that goes to a step of fill_block.
LEMMA GotoTypes ==
  ASSUME NEW step \in FeedSteps, Goto(step)
  PROVE  FpTypes' /\ fp'.at = step
BY DEF Goto, FpTypes

(***************************************************************************)
(* One lemma for each step: it keeps the types.                            *)
(***************************************************************************)

\* The steps of the feed keep the types: the entry of fill_block, ...
LEMMA TypeEnter ==
  ASSUME TypeOK, Enter
  PROVE  TypeOK'
<1>1. PlayTypes /\ FlagTypes /\ UiTypes /\ FpTypes /\ MpTypes /\ session \in BOOLEAN
  BY TypeGroups
<1>2. PlayTypes'
  BY <1>1 DEF Enter, PlayTypes, feedOnly
<1>3. FlagTypes' /\ UiTypes' /\ MpTypes' /\ session' \in BOOLEAN
  BY <1>1 DEF Enter, FlagTypes, UiTypes, MpTypes, ui, requests
<1>4. FpTypes'
  BY <1>1, GotoTypes DEF Enter, FeedSteps
<1> QED
  BY <1>1, <1>2, <1>3, <1>4, TypeGroupsNext

\* ... the test of s_loop_start_req, ...
LEMMA TypeRequest ==
  ASSUME TypeOK, Request
  PROVE  TypeOK'
<1>1. PlayTypes /\ FlagTypes /\ UiTypes /\ FpTypes /\ MpTypes /\ session \in BOOLEAN
  BY TypeGroups
<1>2. PlayTypes'
  BY <1>1 DEF Request, PlayTypes, feedOnly
<1>3. FlagTypes' /\ UiTypes' /\ MpTypes' /\ session' \in BOOLEAN
  BY <1>1 DEF Request, FlagTypes, UiTypes, MpTypes, ui, requests
<1>4. FpTypes'
  BY <1>1, GotoTypes DEF Request, FeedSteps
<1> QED
  BY <1>1, <1>2, <1>3, <1>4, TypeGroupsNext

\* ... the end of a loop start, ...
LEMMA TypeClearDirty ==
  ASSUME TypeOK, ClearDirty
  PROVE  TypeOK'
<1>1. PlayTypes /\ FlagTypes /\ UiTypes /\ FpTypes /\ MpTypes /\ session \in BOOLEAN
  BY TypeGroups
<1>2. PlayTypes'
  BY <1>1 DEF ClearDirty, PlayTypes, feedOnly
<1>3. FlagTypes' /\ UiTypes' /\ MpTypes' /\ session' \in BOOLEAN
  BY <1>1 DEF ClearDirty, FlagTypes, UiTypes, MpTypes, ui, requests
<1>4. FpTypes'
  BY <1>1, GotoTypes DEF ClearDirty, FeedSteps
<1> QED
  BY <1>1, <1>2, <1>3, <1>4, TypeGroupsNext

\* ... the test of the cache, ...
LEMMA TypeNotCached ==
  ASSUME TypeOK, NotCached
  PROVE  TypeOK'
<1>1. PlayTypes /\ FlagTypes /\ UiTypes /\ FpTypes /\ MpTypes /\ session \in BOOLEAN
  BY TypeGroups
<1>2. PlayTypes'
  BY <1>1 DEF NotCached, PlayTypes, feedOnly
<1>3. FlagTypes' /\ UiTypes' /\ MpTypes' /\ session' \in BOOLEAN
  BY <1>1 DEF NotCached, FlagTypes, UiTypes, MpTypes, ui, requests
<1>4. FpTypes'
  BY <1>1, GotoTypes DEF NotCached, FeedSteps
<1> QED
  BY <1>1, <1>2, <1>3, <1>4, TypeGroupsNext

\* ... playing on, ...
LEMMA TypePlayOn ==
  ASSUME TypeOK, PlayOn
  PROVE  TypeOK'
<1>1. PlayTypes /\ FlagTypes /\ UiTypes /\ FpTypes /\ MpTypes /\ session \in BOOLEAN
  BY TypeGroups
<1>2. PlayTypes'
  BY <1>1 DEF PlayOn, PlayTypes, feedOnly
<1>3. FlagTypes' /\ UiTypes' /\ MpTypes' /\ session' \in BOOLEAN
  BY <1>1 DEF PlayOn, FlagTypes, UiTypes, MpTypes, ui, requests
<1>4. FpTypes'
  BY <1>1, GotoTypes DEF PlayOn, FeedSteps
<1> QED
  BY <1>1, <1>2, <1>3, <1>4, TypeGroupsNext

\* ... the start of a loop, which lies inside the song, ...
LEMMA TypeArm ==
  ASSUME TypeOK, Arm
  PROVE  TypeOK'
<1>1. PlayTypes /\ FlagTypes /\ UiTypes /\ FpTypes /\ MpTypes /\ session \in BOOLEAN
  BY TypeGroups
<1>2. PlayTypes'
  BY <1>1, ArmedTypes DEF Arm, PlayTypes
<1>3. FlagTypes' /\ UiTypes' /\ MpTypes' /\ session' \in BOOLEAN
  BY <1>1 DEF Arm, FlagTypes, UiTypes, MpTypes, ui, requests
<1>4. FpTypes'
  BY <1>1, GotoTypes DEF Arm, FeedSteps
<1> QED
  BY <1>1, <1>2, <1>3, <1>4, TypeGroupsNext

\* ... loop_preload before its read, ...
LEMMA TypePreload ==
  ASSUME TypeOK, Preload
  PROVE  TypeOK'
<1>1. PlayTypes /\ FlagTypes /\ UiTypes /\ FpTypes /\ MpTypes /\ session \in BOOLEAN
  BY TypeGroups
<1>2. PlayTypes'
  <2>1. LevelsGivenUp \in Levels
    BY <1>1 DEF LevelsGivenUp, PlayTypes, Levels
  <2>2. [i \in Slots |-> IF i < loop.len THEN Junk ELSE pool[i]] \in [Slots -> Tags]
    BY <1>1, TagFacts DEF PlayTypes
  <2> QED
    BY <1>1, <2>1, <2>2 DEF Preload, PlayTypes
<1>3. FlagTypes' /\ UiTypes' /\ MpTypes' /\ session' \in BOOLEAN
  BY <1>1 DEF Preload, FlagTypes, UiTypes, MpTypes, ui, requests
<1>4. FpTypes'
  BY <1>1, GotoTypes DEF Preload, FeedSteps
<1> QED
  BY <1>1, <1>2, <1>3, <1>4, TypeGroupsNext

\* ... and after it, ...
LEMMA TypePreloadRead ==
  ASSUME TypeOK, NEW ok \in BOOLEAN, PreloadRead(ok)
  PROVE  TypeOK'
<1>1. PlayTypes /\ FlagTypes /\ UiTypes /\ FpTypes /\ MpTypes /\ session \in BOOLEAN
  BY TypeGroups
<1>2. PlayTypes'
  <2>1. [i \in Slots |-> IF i < loop.len THEN Audio(song.start, loop.start + i)
                         ELSE pool[i]] \in [Slots -> Tags]
    <3>1. song.start \in Entries \union {NoEntry} /\ loop.start \in Nat
      BY <1>1 DEF PlayTypes, Songs
    <3>2. \A i \in Slots : loop.start + i \in Nat
      BY <3>1, Sizes
    <3> QED
      BY <1>1, <3>1, <3>2, TagFacts DEF PlayTypes
  <2>2. CASE ok
    <3>1. [loop EXCEPT !.pos = 0]
            \in [start : Nat, end : Nat, len : Nat, pos : Nat, saved : Tags]
      BY <1>1 DEF PlayTypes
    <3> QED
      BY <1>1, <2>1, <2>2, <3>1 DEF PreloadRead, PlayTypes
  <2>3. CASE ~ok
    BY <1>1, <2>3 DEF PreloadRead, PlayTypes
  <2> QED
    BY <2>2, <2>3
<1>3. FlagTypes' /\ UiTypes' /\ MpTypes' /\ session' \in BOOLEAN
  BY <1>1 DEF PreloadRead, FlagTypes, UiTypes, MpTypes, ui, requests
<1>4. FpTypes'
  BY <1>1, GotoTypes DEF PreloadRead, FeedSteps
<1> QED
  BY <1>1, <1>2, <1>3, <1>4, TypeGroupsNext

\* ... the drop of the prefetch after a loop, ...
LEMMA TypeDropPrefetch ==
  ASSUME TypeOK, DropPrefetch
  PROVE  TypeOK'
<1>1. PlayTypes /\ FlagTypes /\ UiTypes /\ FpTypes /\ MpTypes /\ session \in BOOLEAN
  BY TypeGroups
<1>2. PlayTypes'
  <2>1. LevelsGivenUp \in Levels
    BY <1>1 DEF LevelsGivenUp, PlayTypes, Levels
  <2>2. DroppedPf \in [pos : Nat, count : Nat]
    BY DEF DroppedPf, EmptyPf
  <2>3. CASE pfDirty
    BY <1>1, <2>1, <2>2, <2>3 DEF DropPrefetch, PlayTypes
  <2>4. CASE ~pfDirty
    BY <1>1, <2>4 DEF DropPrefetch, PlayTypes
  <2> QED
    BY <2>3, <2>4
<1>3. FlagTypes' /\ UiTypes' /\ MpTypes' /\ session' \in BOOLEAN
  BY <1>1 DEF DropPrefetch, FlagTypes, UiTypes, MpTypes, ui, requests
<1>4. FpTypes'
  BY <1>1, GotoTypes DEF DropPrefetch, FeedSteps
<1> QED
  BY <1>1, <1>2, <1>3, <1>4, TypeGroupsNext

\* A set of steps has a first one.
LEMMA Smallest ==
  ASSUME NEW S \in SUBSET Nat, S # {}
  PROVE  (CHOOSE i \in S : \A j \in S : i <= j) \in S
<1> DEFINE less == OpToRel(<, Nat)
<1>1. less = {p \in Nat \X Nat : p[1] < p[2]}
  BY DEF OpToRel
<1>2. IsWellFoundedOn(less, Nat)
  BY NatLessThanWellFounded, Zenon
<1> HIDE DEF less
<1>3. PICK i \in S : \A j \in S : ~(<<j, i>> \in less)
  BY <1>2, WFMin, Zenon
<1>4. ASSUME NEW j \in S PROVE i <= j
  <2>1. i \in Nat /\ j \in Nat
    OBVIOUS
  <2>2. <<j, i>> \notin {p \in Nat \X Nat : p[1] < p[2]}
    BY <1>1, <1>3
  <2> QED BY <2>1, <2>2
<1> QED BY <1>4

\* The index arithmetic of change_song stays in the playlist.
LEMMA Remainder ==
  ASSUME NEW a \in Int, NEW n \in Nat, n > 0
  PROVE  a % n \in 0 .. (n - 1)
OBVIOUS

\* The entry change_song settles on is one of the playlist, and has a length.
LEMMA NearestEntry ==
  ASSUME PlayTypes, FpTypes, NEW unread, Found(fp.dir, unread) # {}
  PROVE  Nearest(fp.dir, unread) \in Entries
<1> DEFINE found == Found(fp.dir, unread)
           step == CHOOSE k \in found : \A other \in found : k <= other
<1>1. song.n \in {0, Count} /\ song.idx \in Nat /\ Count \in Nat
      /\ Entries = 1 .. Count
  BY EntryFacts DEF PlayTypes, Songs
<1>2. found \in SUBSET (1 .. song.n)
  BY DEF Found
<1>3. step \in found
  <2>1. found \in SUBSET Nat /\ found # {}
    BY <1>1, <1>2
  <2> HIDE DEF found
  <2> QED
    BY <2>1, Smallest
<1>4. step \in 1 .. song.n /\ song.n = Count /\ Count > 0
  <2> HIDE DEF found, step
  <2> QED
    BY <1>1, <1>2, <1>3
<1>5. song.idx - 1 + fp.dir * step \in Int
  <2> HIDE DEF step
  <2>1. fp.dir \in {1, -1}
    BY DEF FpTypes
  <2>2. CASE fp.dir = 1
    BY <1>1, <1>4, <2>2
  <2>3. CASE fp.dir = -1
    BY <1>1, <1>4, <2>3
  <2> QED
    BY <2>1, <2>2, <2>3
<1>6. EntryAt(fp.dir, step) \in 1 .. Count
  <2> HIDE DEF step
  <2>1. (song.idx - 1 + fp.dir * step) % song.n \in 0 .. (song.n - 1)
    BY <1>4, <1>5, <1>1, Remainder
  <2> QED
    BY <1>1, <1>4, <2>1 DEF EntryAt
<1> QED
  BY <1>1, <1>6 DEF Nearest

\* The tag in any slot the decoder is given is a tag, or decodes to noise.
LEMMA AnyDecoded ==
  ASSUME PlayTypes, NEW slots \in [Slots -> Tags], NEW i \in Slots
  PROVE  Decoded(dec, slots[i]) \in Tags
BY DecodedTypes DEF PlayTypes

\* ... a block from the loop cache, ...
LEMMA TypeServeLoop ==
  ASSUME TypeOK, InPool, ServeLoop
  PROVE  TypeOK'
<1>1. PlayTypes /\ FlagTypes /\ UiTypes /\ FpTypes /\ MpTypes /\ session \in BOOLEAN
  BY TypeGroups
<1>2. PlayTypes'
  <2>1. loop.pos \in Slots
    BY <1>1, Sizes DEF ServeLoop, InPool, Slots, PlayTypes
  <2>2. CASE loop.pos + 1 >= loop.len
    BY <1>1, <2>2 DEF ServeLoop, PlayTypes, Restored
  <2>3. CASE ~(loop.pos + 1 >= loop.len)
    <3>1. [loop EXCEPT !.pos = @ + 1]
            \in [start : Nat, end : Nat, len : Nat, pos : Nat, saved : Tags]
      BY <1>1 DEF PlayTypes
    <3>2. Decoded(dec, pool[loop.pos]) \in Tags
      BY <1>1, <2>1, AnyDecoded DEF PlayTypes
    <3> QED
      BY <1>1, <2>3, <3>1, <3>2 DEF ServeLoop, PlayTypes
  <2> QED
    BY <2>2, <2>3
<1>3. FlagTypes' /\ UiTypes' /\ MpTypes' /\ session' \in BOOLEAN
  BY <1>1 DEF ServeLoop, FlagTypes, UiTypes, MpTypes, ui, requests
<1>4. FpTypes'
  BY <1>1, GotoTypes DEF ServeLoop, FeedSteps
<1> QED
  BY <1>1, <1>2, <1>3, <1>4, TypeGroupsNext

\* ... the wrap of a loop that is not cached, ...
LEMMA TypeWrap ==
  ASSUME TypeOK, Wrap
  PROVE  TypeOK'
<1>1. PlayTypes /\ FlagTypes /\ UiTypes /\ FpTypes /\ MpTypes /\ session \in BOOLEAN
  BY TypeGroups
<1>2. PlayTypes'
  BY <1>1 DEF Wrap, PlayTypes, EmptyPf
<1>3. FlagTypes' /\ UiTypes' /\ MpTypes' /\ session' \in BOOLEAN
  BY <1>1 DEF Wrap, FlagTypes, UiTypes, MpTypes, ui, requests
<1>4. FpTypes'
  BY <1>1, GotoTypes DEF Wrap, FeedSteps
<1> QED
  BY <1>1, <1>2, <1>3, <1>4, TypeGroupsNext

\* ... a skip or the end of the song, ...
LEMMA TypeNextSong ==
  ASSUME TypeOK, NextSong
  PROVE  TypeOK'
<1>1. PlayTypes /\ FlagTypes /\ UiTypes /\ FpTypes /\ MpTypes /\ session \in BOOLEAN
  BY TypeGroups
<1>2. PlayTypes'
  BY <1>1 DEF NextSong, PlayTypes, feedOnly
<1>3. FlagTypes' /\ UiTypes' /\ MpTypes' /\ session' \in BOOLEAN
  BY <1>1 DEF NextSong, FlagTypes, UiTypes, MpTypes, ui, requests
<1>4. FpTypes'
  BY <1>1 DEF NextSong, FpTypes, FeedSteps, Direction
<1> QED
  BY <1>1, <1>2, <1>3, <1>4, TypeGroupsNext

\* ... change_song, ...
LEMMA TypeChangeSong ==
  ASSUME TypeOK, NEW unread, ChangeSong(unread)
  PROVE  TypeOK'
<1>1. PlayTypes /\ FlagTypes /\ UiTypes /\ FpTypes /\ MpTypes /\ session \in BOOLEAN
  BY TypeGroups
<1> DEFINE i == Nearest(fp.dir, unread)
<1>2. PlayTypes'
  <2>1. 0 \in Nat /\ EmptyPf \in [pos : Nat, count : Nat] /\ Reset \in Tags
    BY TagFacts DEF EmptyPf
  <2>2. CASE Found(fp.dir, unread) = {}
    <3>1. song' = song /\ lvl' = lvl
      BY <2>2 DEF ChangeSong
    <3> QED
      BY <1>1, <2>1, <3>1 DEF ChangeSong, PlayTypes
  <2>3. CASE Found(fp.dir, unread) # {}
    <3>1. i \in Entries /\ Lengths[i] \in Nat
      BY <1>1, <2>3, NearestEntry, EntryFacts
    <3>2. song' = [song EXCEPT !.idx = i, !.start = i, !.len = Lengths[i]]
          /\ lvl' = LvlSetup(i, Lengths[i])
      BY <2>3 DEF ChangeSong
    <3> HIDE DEF i
    <3>3. LvlSetup(i, Lengths[i]) \in Levels
      BY <3>1, SetupTypes
    <3>4. [song EXCEPT !.idx = i, !.start = i, !.len = Lengths[i]] \in Songs
      BY <1>1, <3>1 DEF PlayTypes, Songs
    <3> QED
      BY <1>1, <2>1, <3>2, <3>3, <3>4 DEF ChangeSong, PlayTypes
  <2> QED
    BY <2>2, <2>3
<1>3. FlagTypes' /\ UiTypes' /\ MpTypes' /\ session' \in BOOLEAN
  BY <1>1 DEF ChangeSong, FlagTypes, UiTypes, MpTypes, ui, NoSkip
<1>4. FpTypes'
  BY <1>1, GotoTypes DEF ChangeSong, FeedSteps
<1> QED
  BY <1>1, <1>2, <1>3, <1>4, TypeGroupsNext

\* ... a block from the prefetch, ...
LEMMA TypePlayPrefetched ==
  ASSUME TypeOK, InPool, PlayPrefetched
  PROVE  TypeOK'
<1>1. PlayTypes /\ FlagTypes /\ UiTypes /\ FpTypes /\ MpTypes /\ session \in BOOLEAN
  BY TypeGroups
<1>2. PlayTypes'
  <2>1. pf.pos \in Slots
    BY <1>1, Sizes DEF PlayPrefetched, InPool, Slots, PlayTypes
  <2>2. Decoded(dec, pool[pf.pos]) \in Tags
    BY <1>1, <2>1, AnyDecoded DEF PlayTypes
  <2>3. [pf EXCEPT !.pos = @ + 1] \in [pos : Nat, count : Nat] /\ cur + 1 \in Nat
    BY <1>1 DEF PlayTypes
  <2> QED
    BY <1>1, <2>2, <2>3 DEF PlayPrefetched, DecodeFrom, PlayTypes
<1>3. FlagTypes' /\ UiTypes' /\ MpTypes' /\ session' \in BOOLEAN
  BY <1>1 DEF PlayPrefetched, FlagTypes, UiTypes, MpTypes, ui, requests
<1>4. FpTypes'
  BY <1>1, GotoTypes DEF PlayPrefetched, DecodeFrom, FeedSteps
<1> QED
  BY <1>1, <1>2, <1>3, <1>4, TypeGroupsNext

\* A refill reads at least a block and no more than the prefetch holds.
LEMMA RefillFits ==
  ASSUME TypeOK
  PROVE  RefillSize \in Nat /\ RefillSize <= Prefetch
<1>1. Remaining \in Nat
  BY DEF TypeOK, Songs, Remaining
<1> QED
  BY <1>1, Sizes, LeastFacts DEF RefillSize

\* ... a refill, ...
LEMMA TypeRefill ==
  ASSUME TypeOK, NEW levelsOk \in BOOLEAN, Refill(levelsOk)
  PROVE  TypeOK'
<1>1. PlayTypes /\ FlagTypes /\ UiTypes /\ FpTypes /\ MpTypes /\ session \in BOOLEAN
  BY TypeGroups
<1> DEFINE read == [i \in Slots |->
             IF i < RefillSize THEN Audio(song.start, cur + i)
             ELSE IF lvl.present /\ ~lvl.loaded
                     /\ i \in Prefetch .. (Prefetch + lvl.blocks - 1)
                    THEN IF levelsOk THEN Level(lvl.of) ELSE Junk
                    ELSE pool[i]]
<1>2. PlayTypes'
  <2>1. read \in [Slots -> Tags]
    <3>1. song.start \in Entries \union {NoEntry} /\ cur \in Nat
          /\ lvl.of \in Entries \union {NoEntry}
      BY <1>1 DEF PlayTypes, Songs, Levels
    <3>2. \A i \in Slots : cur + i \in Nat
      BY <3>1, Sizes
    <3> QED
      BY <1>1, <3>1, <3>2, TagFacts DEF PlayTypes
  <2>2. pool' = read
    BY DEF Refill
  <2>3. 0 \in Slots
    BY Sizes DEF Slots
  <2>4. Decoded(dec, pool'[0]) \in Tags
    <3> HIDE DEF read
    <3> QED
      BY <1>1, <2>1, <2>2, <2>3, AnyDecoded
  <2>5. lvl' \in Levels
    BY <1>1 DEF Refill, PlayTypes, Levels
  <2>6. pf' = [pos |-> 1, count |-> RefillSize] /\ RefillSize \in Nat
    BY RefillFits DEF Refill, DecodeFrom
  <2>7. cur' \in Nat /\ dec' \in Tags
    BY <1>1, <2>4 DEF Refill, DecodeFrom, PlayTypes
  <2> HIDE DEF read
  <2> QED
    BY <1>1, <2>1, <2>2, <2>5, <2>6, <2>7 DEF Refill, PlayTypes
<1>3. FlagTypes' /\ UiTypes' /\ MpTypes' /\ session' \in BOOLEAN
  BY <1>1 DEF Refill, FlagTypes, UiTypes, MpTypes, ui, requests
<1>4. FpTypes'
  BY <1>1, GotoTypes DEF Refill, DecodeFrom, FeedSteps
<1> QED
  BY <1>1, <1>2, <1>3, <1>4, TypeGroupsNext

\* ... and the tone.
LEMMA TypeTone ==
  ASSUME TypeOK, Tone
  PROVE  TypeOK'
<1>1. PlayTypes /\ FlagTypes /\ UiTypes /\ FpTypes /\ MpTypes /\ session \in BOOLEAN
  BY TypeGroups
<1>2. PlayTypes'
  <2>1. CASE RefillSize = 0 /\ UNCHANGED <<pf, pool>>
    BY <1>1, <2>1 DEF Tone, PlayTypes
  <2>2. CASE pf' = EmptyPf /\ pool' = [i \in Slots |-> IF i < RefillSize THEN Junk
                                                      ELSE pool[i]]
    <3>1. [i \in Slots |-> IF i < RefillSize THEN Junk ELSE pool[i]] \in [Slots -> Tags]
      BY <1>1, TagFacts DEF PlayTypes
    <3>2. EmptyPf \in [pos : Nat, count : Nat]
      BY DEF EmptyPf
    <3> QED
      BY <1>1, <2>2, <3>1, <3>2 DEF Tone, PlayTypes
  <2> QED
    BY <2>1, <2>2 DEF Tone
<1>3. FlagTypes' /\ UiTypes' /\ MpTypes' /\ session' \in BOOLEAN
  BY <1>1 DEF Tone, FlagTypes, UiTypes, MpTypes, ui, requests
<1>4. FpTypes'
  BY <1>1, GotoTypes DEF Tone, FeedSteps
<1> QED
  BY <1>1, <1>2, <1>3, <1>4, TypeGroupsNext

\* A press of Play keeps the types.
LEMMA TypePress ==
  ASSUME TypeOK, Press
  PROVE  TypeOK'
<1>1. PlayTypes /\ FlagTypes /\ UiTypes /\ FpTypes /\ MpTypes /\ session \in BOOLEAN
  BY TypeGroups
<1>2. FlagTypes' /\ UiTypes' /\ session' \in BOOLEAN
  BY <1>1 DEF Press, FlagTypes, UiTypes, ui
<1>3. PlayTypes' /\ FpTypes' /\ MpTypes'
  BY <1>1 DEF Press, PlayTypes, FpTypes, MpTypes, feedOnly
<1> QED
  BY <1>1, <1>2, <1>3, TypeGroupsNext

\* So does its release.
LEMMA TypeRelease ==
  ASSUME TypeOK, NEW short \in BOOLEAN, Release(short)
  PROVE  TypeOK'
<1>1. PlayTypes /\ FlagTypes /\ UiTypes /\ FpTypes /\ MpTypes /\ session \in BOOLEAN
  BY TypeGroups
<1>2. FlagTypes' /\ UiTypes' /\ session' \in BOOLEAN
  BY <1>1 DEF Release, FlagTypes, UiTypes, ui, LoopStopped
<1>3. PlayTypes' /\ FpTypes' /\ MpTypes'
  BY <1>1 DEF Release, PlayTypes, FpTypes, MpTypes, feedOnly
<1> QED
  BY <1>1, <1>2, <1>3, TypeGroupsNext

\* The divider stays in its table.
LEMMA TypeChangeDivider ==
  ASSUME TypeOK, NEW dir, ChangeDivider(dir)
  PROVE  TypeOK'
<1>1. PlayTypes /\ FlagTypes /\ UiTypes /\ FpTypes /\ MpTypes /\ session \in BOOLEAN
  BY TypeGroups
<1>2. FlagTypes' /\ UiTypes' /\ session' \in BOOLEAN
  BY <1>1 DEF ChangeDivider, FlagTypes, UiTypes, ui, Clamped
<1>3. PlayTypes' /\ FpTypes' /\ MpTypes'
  BY <1>1 DEF ChangeDivider, PlayTypes, FpTypes, MpTypes, feedOnly
<1> QED
  BY <1>1, <1>2, <1>3, TypeGroupsNext

\* Moving a loop only asks for it.
LEMMA TypeMoveLoop ==
  ASSUME TypeOK, MoveLoop
  PROVE  TypeOK'
<1>1. PlayTypes /\ FlagTypes /\ UiTypes /\ FpTypes /\ MpTypes /\ session \in BOOLEAN
  BY TypeGroups
<1>2. FlagTypes' /\ UiTypes' /\ session' \in BOOLEAN
  BY <1>1 DEF MoveLoop, FlagTypes, UiTypes, ui
<1>3. PlayTypes' /\ FpTypes' /\ MpTypes'
  BY <1>1 DEF MoveLoop, PlayTypes, FpTypes, MpTypes, feedOnly
<1> QED
  BY <1>1, <1>2, <1>3, TypeGroupsNext

\* A skip is a direction.
LEMMA TypeSkip ==
  ASSUME TypeOK, NEW dir \in {1, -1}, Skip(dir)
  PROVE  TypeOK'
<1>1. PlayTypes /\ FlagTypes /\ UiTypes /\ FpTypes /\ MpTypes /\ session \in BOOLEAN
  BY TypeGroups
<1>2. FlagTypes' /\ UiTypes' /\ session' \in BOOLEAN
  BY <1>1 DEF Skip, FlagTypes, UiTypes, ui
<1>3. PlayTypes' /\ FpTypes' /\ MpTypes'
  BY <1>1 DEF Skip, PlayTypes, FpTypes, MpTypes, feedOnly
<1> QED
  BY <1>1, <1>2, <1>3, TypeGroupsNext

(***************************************************************************)
(* main, and the initial state.                                            *)
(***************************************************************************)

\* What main loads is a song of the playlist or nothing.
LEMMA LoadTypes == Loads \subseteq Songs /\ NoLoad \in [at : 0 .. LastStep, target : Songs]
<1>1. Nothing \in Songs
  BY DEF Nothing, Songs
<1>2. ASSUME NEW i \in Entries
      PROVE  [n |-> Count, idx |-> i, start |-> i, len |-> Lengths[i]] \in Songs
  BY EntryFacts DEF Songs
<1>3. Loads \subseteq Songs
  BY <1>1, <1>2 DEF Loads
<1>4. NoLoad \in [at : 0 .. LastStep, target : Songs]
  BY <1>1 DEF NoLoad, LastStep
<1> QED
  BY <1>3, <1>4

\* A session opens or closes.
LEMMA TypeSession ==
  ASSUME TypeOK, Session
  PROVE  TypeOK'
<1>1. PlayTypes /\ FlagTypes /\ UiTypes /\ FpTypes /\ MpTypes /\ session \in BOOLEAN
  BY TypeGroups
<1>2. FlagTypes' /\ UiTypes' /\ session' \in BOOLEAN
  BY <1>1 DEF Session, FlagTypes, UiTypes, ui, requests
<1>3. PlayTypes' /\ FpTypes' /\ MpTypes'
  BY <1>1 DEF Session, PlayTypes, FpTypes, MpTypes, feedOnly
<1> QED
  BY <1>1, <1>2, <1>3, TypeGroupsNext

\* A reload begins.
LEMMA TypeLoadBegins ==
  ASSUME TypeOK, NEW target \in Loads, LoadBegins(target)
  PROVE  TypeOK'
<1>1. PlayTypes /\ FlagTypes /\ UiTypes /\ FpTypes /\ MpTypes /\ session \in BOOLEAN
  BY TypeGroups
<1>2. FlagTypes' /\ UiTypes' /\ session' \in BOOLEAN
  BY <1>1 DEF LoadBegins, FlagTypes, UiTypes, ui, requests
<1>3. PlayTypes' /\ FpTypes' /\ MpTypes'
  BY <1>1, LoadTypes DEF LoadBegins, PlayTypes, FpTypes, MpTypes, feedOnly, LastStep
<1> QED
  BY <1>1, <1>2, <1>3, TypeGroupsNext

\* One assignment of a reload.
LEMMA TypeLoadStep ==
  ASSUME TypeOK, LoadStep
  PROVE  TypeOK'
<1>1. PlayTypes /\ FlagTypes /\ UiTypes /\ FpTypes /\ MpTypes /\ session \in BOOLEAN
  BY TypeGroups
<1>2. FlagTypes' /\ UiTypes' /\ session' \in BOOLEAN
  BY <1>1 DEF LoadStep, LoopDropped, FlagTypes, UiTypes, ui
<1>3. PlayTypes' /\ FpTypes' /\ MpTypes'
  <2>1. mp.target \in Songs /\ mp.at \in 0 .. LastStep
    BY <1>1 DEF MpTypes
  <2>2. song' \in Songs
    BY <1>1, <2>1 DEF LoadStep, PlayTypes, Songs
  <2>3. lvl' \in Levels
    <3>1. LvlSetup(mp.target.start, mp.target.len) \in Levels
      BY <2>1, SetupTypes DEF Songs
    <3> QED
      BY <1>1, <3>1 DEF LoadStep, PlayTypes
  <2>4. cur' \in Nat /\ dec' \in Tags /\ pf' \in [pos : Nat, count : Nat]
        /\ cacheOk' \in BOOLEAN
    <3>1. EmptyPf \in [pos : Nat, count : Nat]
      BY DEF EmptyPf
    <3> QED
      BY <1>1, <3>1, TagFacts DEF LoadStep, PlayTypes
  <2>5. PlayTypes'
    BY <1>1, <2>2, <2>3, <2>4 DEF LoadStep, PlayTypes
  <2>6. MpTypes'
    <3>1. CASE mp.at = LastStep
      BY <3>1, LoadTypes DEF LoadStep, MpTypes
    <3>2. CASE mp.at # LastStep
      <4>1. mp.at + 1 \in 0 .. LastStep
        BY <2>1, <3>2 DEF LastStep
      <4> QED
        BY <1>1, <3>2, <4>1 DEF LoadStep, MpTypes
    <3> QED
      BY <3>1, <3>2
  <2>7. FpTypes'
    BY <1>1 DEF LoadStep, FpTypes
  <2> QED
    BY <2>5, <2>6, <2>7
<1> QED
  BY <1>1, <1>2, <1>3, TypeGroupsNext

\* A fresh boot.
LEMMA TypeInit == Init => TypeOK
<1> SUFFICES ASSUME Init PROVE TypeOK
  OBVIOUS
<1>1. FlagTypes /\ UiTypes /\ session \in BOOLEAN
  BY DivisorFacts DEF Init, FlagTypes, UiTypes
<1>2. FpTypes /\ MpTypes
  BY LoadTypes DEF Init, FpTypes, MpTypes, FeedSteps, LastStep
<1>3. PlayTypes
  <2>1. song \in Songs /\ cur \in Nat /\ cacheOk \in BOOLEAN
    BY DEF Init, Nothing, Songs
  <2>2. dec \in Tags /\ pool \in [Slots -> Tags]
    BY TagFacts DEF Init
  <2>3. pf \in [pos : Nat, count : Nat]
    BY DEF Init, EmptyPf
  <2>4. loop \in [start : Nat, end : Nat, len : Nat, pos : Nat, saved : Tags]
    BY TagFacts DEF Init, NoLoop
  <2>5. lvl \in Levels
    BY Sizes DEF Init, Levels
  <2> QED
    BY <2>1, <2>2, <2>3, <2>4, <2>5 DEF PlayTypes
<1> QED
  BY <1>1, <1>2, <1>3, TypeGroups

(***************************************************************************)
(* The pool: indices and the level table.                                  *)
(***************************************************************************)

\* What the invariants of the pool speak of.
poolState == <<pf, loop, cacheOk, lvl, pool>>

\* A step that leaves the pool and its indices alone keeps them, if it does not
\* lead into the read of the loop.
LEMMA PoolFrame ==
  ASSUME Good, UNCHANGED poolState, fp'.at # "read" \/ fp' = fp
  PROVE  InPool' /\ LevelsInv'
BY DEF Good, InPool, LevelsInv, poolState

\* A step of the UI thread leaves both alone.
LEMMA PoolUser ==
  ASSUME Good, User
  PROVE  InPool' /\ LevelsInv'
<1>1. UNCHANGED poolState /\ fp' = fp
  BY DEF User, Press, MoveLoop, Release, ChangeDivider, Skip, feedOnly, poolState
<1> QED
  BY <1>1, PoolFrame

\* main gives the old table up with the last assignment.
LEMMA PoolMain ==
  ASSUME Good, Main
  PROVE  InPool' /\ LevelsInv'
<1>1. CASE Session \/ \E target \in Loads : LoadBegins(target)
  <2>1. UNCHANGED poolState /\ fp' = fp
    BY <1>1 DEF Session, LoadBegins, feedOnly, poolState
  <2> QED
    BY <2>1, PoolFrame
<1>2. CASE LoadStep
  <2>1. pf' \in {pf, EmptyPf} /\ loop' = loop /\ pool' = pool /\ fp' = fp
        /\ (cacheOk' => cacheOk) /\ fp.at = "idle"
    BY <1>2 DEF LoadStep, Good, TypeOK
  <2>2. lvl' = lvl \/ (lvl'.loaded = FALSE /\ lvl'.blocks \in 0 .. LvlMax)
    <3>1. mp.target.start \in Entries \union {NoEntry} /\ mp.target.len \in Nat
      BY DEF Good, TypeOK, Songs
    <3>2. LvlSetup(mp.target.start, mp.target.len).loaded = FALSE
          /\ LvlSetup(mp.target.start, mp.target.len).blocks \in 0 .. LvlMax
      BY <3>1, SetupTypes DEF Levels
    <3> QED
      BY <1>2, <3>2 DEF LoadStep
  <2>3. InPool'
    BY <2>1, <2>2, Sizes DEF Good, InPool, EmptyPf
  <2>4. LevelsInv'
    BY <2>1, <2>2 DEF Good, LevelsInv
  <2> QED
    BY <2>3, <2>4
<1> QED
  BY <1>1, <1>2 DEF Main

\* The steps of fill_block that only look at flags.
LEMMA PoolFlags ==
  ASSUME Good, Silence \/ Enter \/ Request \/ ClearDirty \/ NotCached \/ NextSong
               \/ PlayOn
  PROVE  InPool' /\ LevelsInv'
<1>1. UNCHANGED poolState
  BY DEF Silence, Enter, Request, ClearDirty, NotCached, NextSong, PlayOn,
     feedOnly, vars, poolState
<1>2. fp'.at # "read" \/ fp' = fp
  BY DEF Silence, Enter, Request, ClearDirty, NotCached, NextSong, PlayOn, Goto, vars
<1> QED
  BY <1>1, <1>2, PoolFrame

\* Placing the loop takes the cache back.
LEMMA PoolArm ==
  ASSUME Good, Arm
  PROVE  InPool' /\ LevelsInv'
<1>1. fp'.at = "preload" /\ cacheOk' = FALSE /\ UNCHANGED <<pf, lvl, pool>>
  BY DEF Arm, Goto
<1> QED
  BY <1>1 DEF Good, InPool, LevelsInv

\* The read of the loop starts only if it fits, and with the levels given up.
LEMMA PoolPreload ==
  ASSUME Good, Preload
  PROVE  InPool' /\ LevelsInv'
<1>1. CASE ~Fits /\ Goto("clear") /\ UNCHANGED <<lvl, pool>>
  <2>1. UNCHANGED poolState /\ fp'.at # "read"
    BY <1>1 DEF Preload, Goto, poolState
  <2> QED
    BY <2>1, PoolFrame
<1>2. CASE Fits /\ lvl' = LevelsGivenUp
  <2>1. lvl'.loaded = FALSE /\ lvl'.blocks = lvl.blocks
    BY <1>2 DEF LevelsGivenUp, Good, TypeOK
  <2>2. loop.len \in 1 .. PoolSize
    BY <1>2, Sizes DEF Fits, Good, TypeOK
  <2>3. UNCHANGED <<pf, loop, cacheOk>>
    BY DEF Preload
  <2> QED
    BY <2>1, <2>2, <2>3 DEF Good, InPool, LevelsInv
<1> QED
  BY <1>1, <1>2 DEF Preload

\* A successful read serves from the start of a loop that is not empty.
LEMMA PoolPreloadRead ==
  ASSUME Good, NEW ok \in BOOLEAN, PreloadRead(ok)
  PROVE  InPool' /\ LevelsInv'
<1>1. fp.at = "read" /\ fp'.at = "clear" /\ pf' = pf /\ lvl' = lvl
  BY DEF PreloadRead, Goto
<1>2. LevelsInv'
  BY <1>1 DEF Good, LevelsInv
<1>3. CASE ok
  <2>1. loop' = [loop EXCEPT !.pos = 0]
    BY <1>3 DEF PreloadRead
  <2>2. loop'.pos = 0 /\ loop'.len = loop.len /\ loop.len \in 1 .. PoolSize
    BY <1>1, <2>1 DEF Good, TypeOK, InPool
  <2> QED
    BY <1>1, <1>2, <2>2, Sizes DEF Good, InPool
<1>4. CASE ~ok
  <2>1. UNCHANGED <<loop, cacheOk>>
    BY <1>4 DEF PreloadRead
  <2> QED
    BY <1>1, <1>2, <2>1 DEF Good, InPool
<1> QED
  BY <1>3, <1>4

\* The drop of the prefetch keeps the indices: it leaves the window empty.
LEMMA PoolDrop ==
  ASSUME Good, DropPrefetch
  PROVE  InPool' /\ LevelsInv'
<1>1. fp'.at = "serve" /\ UNCHANGED <<loop, pool>>
  BY DEF DropPrefetch, Goto
<1>2. CASE pfDirty
  <2>1. cacheOk' = FALSE /\ lvl'.loaded = FALSE /\ lvl'.blocks = lvl.blocks
        /\ pf' = [pos |-> 0, count |-> 0]
    BY <1>2 DEF DropPrefetch, LevelsGivenUp, DroppedPf, EmptyPf, Good, TypeOK
  <2> QED
    BY <1>1, <2>1, Sizes DEF Good, InPool, LevelsInv
<1>3. CASE ~pfDirty
  <2>1. UNCHANGED poolState
    BY <1>1, <1>3 DEF DropPrefetch, poolState
  <2> QED
    BY <1>1, <2>1, PoolFrame
<1> QED
  BY <1>2, <1>3

\* The cache index goes on only below the length of the loop.
LEMMA PoolServe ==
  ASSUME Good, ServeLoop
  PROVE  InPool' /\ LevelsInv'
<1>1. fp'.at = "idle" /\ cacheOk /\ UNCHANGED <<pf, cacheOk, lvl, pool>>
  BY DEF ServeLoop, Goto
<1>2. loop.pos \in Nat /\ loop.len \in Nat /\ loop.pos < loop.len
  BY <1>1 DEF Good, InPool, TypeOK
<1>3. loop'.len = loop.len /\ loop'.pos < loop.len
  <2>1. CASE loop.pos + 1 >= loop.len
    <3>1. loop' = [loop EXCEPT !.pos = 0]
      BY <2>1 DEF ServeLoop
    <3> QED
      BY <1>2, <3>1 DEF Good, TypeOK
  <2>2. CASE ~(loop.pos + 1 >= loop.len)
    <3>1. loop' = [loop EXCEPT !.pos = @ + 1]
      BY <2>2 DEF ServeLoop
    <3> QED
      BY <1>2, <2>2, <3>1 DEF Good, TypeOK
  <2> QED
    BY <2>1, <2>2
<1> QED
  BY <1>1, <1>3 DEF Good, InPool, LevelsInv

\* So does the wrap.
LEMMA PoolWrap ==
  ASSUME Good, Wrap
  PROVE  InPool' /\ LevelsInv'
<1>1. fp'.at = "refill" /\ pf' = [pos |-> 0, count |-> 0]
      /\ UNCHANGED <<loop, cacheOk, lvl, pool>>
  BY DEF Wrap, Goto, EmptyPf
<1> QED
  BY <1>1, Sizes DEF Good, InPool, LevelsInv

\* A change of song gives up the prefetch, the cache and the levels.
LEMMA PoolChange ==
  ASSUME Good, NEW unread, ChangeSong(unread)
  PROVE  InPool' /\ LevelsInv'
<1>1. fp'.at = "refill" /\ pf' = [pos |-> 0, count |-> 0] /\ cacheOk' = FALSE
      /\ pool' = pool
  BY DEF ChangeSong, Goto, EmptyPf
<1>2. lvl' = lvl \/ (lvl'.loaded = FALSE /\ lvl'.blocks \in 0 .. LvlMax)
  <2>1. CASE Found(fp.dir, unread) = {}
    BY <2>1 DEF ChangeSong
  <2>2. CASE Found(fp.dir, unread) # {}
    <3> DEFINE i == Nearest(fp.dir, unread)
    <3>1. i \in Entries /\ Lengths[i] \in Nat
      BY <2>2, NearestEntry, EntryFacts, TypeGroups DEF Good
    <3>2. lvl' = LvlSetup(i, Lengths[i])
      BY <2>2 DEF ChangeSong
    <3> HIDE DEF i
    <3>3. LvlSetup(i, Lengths[i]).loaded = FALSE
          /\ LvlSetup(i, Lengths[i]).blocks \in 0 .. LvlMax
      BY <3>1, SetupTypes DEF Levels
    <3> QED
      BY <3>2, <3>3
  <2> QED
    BY <2>1, <2>2
<1> QED
  BY <1>1, <1>2, Sizes DEF Good, InPool, LevelsInv

\* The prefetch index stays below the count it was tested against.
LEMMA PoolPrefetched ==
  ASSUME Good, PlayPrefetched
  PROVE  InPool' /\ LevelsInv'
<1>1. fp'.at = "idle" /\ pf' = [pf EXCEPT !.pos = @ + 1] /\ pf.pos < pf.count
      /\ UNCHANGED <<loop, cacheOk, lvl, pool>>
  BY DEF PlayPrefetched, DecodeFrom, Goto
<1>2. pf'.pos <= pf'.count /\ pf'.count <= Prefetch
  BY <1>1, Sizes DEF Good, InPool, TypeOK
<1> QED
  BY <1>1, <1>2 DEF Good, InPool, LevelsInv

\* A refill stays in the prefetch slots, and its levels fill theirs.
LEMMA PoolRefill ==
  ASSUME Good, NEW levelsOk \in BOOLEAN, Refill(levelsOk)
  PROVE  InPool' /\ LevelsInv'
<1>1. RefillSize \in Nat /\ RefillSize > 0 /\ RefillSize <= Prefetch
  BY RefillFits DEF Good, Refill
<1>2. fp'.at = "idle" /\ pf' = [pos |-> 1, count |-> RefillSize]
      /\ UNCHANGED <<loop, cacheOk>>
  BY DEF Refill, DecodeFrom, Goto
<1>3. lvl.blocks \in 0 .. LvlMax
  BY DEF Good, TypeOK
<1>4. \A i \in 0 .. (lvl.blocks - 1) :
        /\ Prefetch + i \in Slots /\ Prefetch + i >= RefillSize
        /\ Prefetch + i \in Prefetch .. (Prefetch + lvl.blocks - 1)
  BY <1>1, <1>3, Sizes DEF Slots
<1>5. CASE lvl.present /\ ~lvl.loaded /\ levelsOk
  <2>1. lvl' = [lvl EXCEPT !.loaded = TRUE]
    BY <1>5 DEF Refill
  <2>2. lvl'.blocks = lvl.blocks /\ lvl'.of = lvl.of
    BY <2>1 DEF Good, TypeOK
  <2>3. \A i \in 0 .. (lvl.blocks - 1) : pool'[Prefetch + i] = Level(lvl.of)
    <3> TAKE i \in 0 .. (lvl.blocks - 1)
    <3>1. Prefetch + i \in Slots /\ ~(Prefetch + i < RefillSize)
          /\ Prefetch + i \in Prefetch .. (Prefetch + lvl.blocks - 1)
      BY <1>1, <1>4, Sizes DEF Slots
    <3> QED
      BY <1>5, <3>1 DEF Refill
  <2> QED
    BY <1>1, <1>2, <1>3, <2>2, <2>3 DEF Good, InPool, LevelsInv
<1>6. CASE ~(lvl.present /\ ~lvl.loaded) \/ ~levelsOk
  <2>1. lvl' = lvl
    BY <1>6 DEF Refill
  <2>2. lvl.loaded =>
          \A i \in 0 .. (lvl.blocks - 1) : pool'[Prefetch + i] = pool[Prefetch + i]
    <3> SUFFICES ASSUME lvl.loaded, NEW i \in 0 .. (lvl.blocks - 1)
                 PROVE  pool'[Prefetch + i] = pool[Prefetch + i]
      OBVIOUS
    <3>1. Prefetch + i \in Slots /\ ~(Prefetch + i < RefillSize)
      BY <1>1, <1>4, Sizes DEF Slots
    <3> QED
      BY <3>1 DEF Refill
  <2> QED
    BY <1>1, <1>2, <2>1, <2>2 DEF Good, InPool, LevelsInv
<1> QED
  BY <1>5, <1>6

\* A failed refill leaves nothing to decode, and the levels alone.
LEMMA PoolTone ==
  ASSUME Good, Tone
  PROVE  InPool' /\ LevelsInv'
<1>1. fp'.at = "idle" /\ UNCHANGED <<loop, cacheOk, lvl>>
  BY DEF Tone, Goto
<1>2. CASE RefillSize = 0 /\ UNCHANGED <<pf, pool>>
  BY <1>1, <1>2 DEF Good, InPool, LevelsInv
<1>3. CASE pf' = EmptyPf /\ pool' = [i \in Slots |-> IF i < RefillSize THEN Junk
                                                    ELSE pool[i]]
  <2>1. RefillSize \in Nat /\ RefillSize <= Prefetch
    BY RefillFits DEF Good
  <2>2. \A i \in 0 .. (lvl.blocks - 1) : pool'[Prefetch + i] = pool[Prefetch + i]
    <3> TAKE i \in 0 .. (lvl.blocks - 1)
    <3>1. lvl.blocks \in 0 .. LvlMax
      BY DEF Good, TypeOK
    <3>2. Prefetch + i \in Slots /\ ~(Prefetch + i < RefillSize)
      BY <2>1, <3>1, Sizes DEF Slots
    <3> QED
      BY <1>3, <3>2
  <2> QED
    BY <1>1, <1>3, <2>2, Sizes DEF Good, InPool, LevelsInv, EmptyPf
<1> QED
  BY <1>2, <1>3 DEF Tone

(***************************************************************************)
(* The theorems.                                                           *)
(***************************************************************************)

\* A step of the feed keeps types, indices and levels.
LEMMA GoodFeed ==
  ASSUME Good, Feed
  PROVE  Good'
<1>1. TypeOK /\ InPool
  BY DEF Good
<1>2. ReadOutcomes \subseteq BOOLEAN
  BY DEF ReadOutcomes
<1>3. CASE Silence
  <2>1. TypeOK'
    BY <1>1, <1>3 DEF Silence, vars, feedOnly, requests, ui, TypeOK
  <2> QED
    BY <1>3, <2>1, PoolFlags DEF Good
<1>4. CASE Enter \/ Request \/ ClearDirty \/ NotCached \/ NextSong \/ PlayOn
  <2>1. TypeOK'
    BY <1>1, <1>4, TypeEnter, TypeRequest, TypeClearDirty, TypeNotCached,
       TypeNextSong, TypePlayOn
  <2> QED
    BY <1>4, <2>1, PoolFlags DEF Good
<1>5. CASE Arm
  BY <1>1, <1>5, TypeArm, PoolArm DEF Good
<1>6. CASE Preload
  BY <1>1, <1>6, TypePreload, PoolPreload DEF Good
<1>7. CASE \E ok \in ReadOutcomes : PreloadRead(ok)
  BY <1>1, <1>2, <1>7, TypePreloadRead, PoolPreloadRead DEF Good
<1>8. CASE DropPrefetch
  BY <1>1, <1>8, TypeDropPrefetch, PoolDrop DEF Good
<1>9. CASE ServeLoop
  BY <1>1, <1>9, TypeServeLoop, PoolServe DEF Good
<1>10. CASE Wrap
  BY <1>1, <1>10, TypeWrap, PoolWrap DEF Good
<1>11. CASE \E unread \in Unread : ChangeSong(unread)
  BY <1>1, <1>11, TypeChangeSong, PoolChange DEF Good
<1>12. CASE PlayPrefetched
  BY <1>1, <1>12, TypePlayPrefetched, PoolPrefetched DEF Good
<1>13. CASE \E ok \in ReadOutcomes : Refill(ok)
  BY <1>1, <1>2, <1>13, TypeRefill, PoolRefill DEF Good
<1>14. CASE Tone
  BY <1>1, <1>14, TypeTone, PoolTone DEF Good
<1> QED
  BY <1>3, <1>4, <1>5, <1>6, <1>7, <1>8, <1>9, <1>10, <1>11, <1>12, <1>13, <1>14
  DEF Feed

\* ... of the UI thread ...
LEMMA GoodUser ==
  ASSUME Good, User
  PROVE  Good'
<1>1. TypeOK
  BY DEF Good
<1>2. TypeOK'
  BY <1>1, TypePress, TypeMoveLoop, TypeRelease, TypeChangeDivider, TypeSkip DEF User
<1> QED
  BY <1>2, PoolUser DEF Good

\* ... and of main.
LEMMA GoodMain ==
  ASSUME Good, Main
  PROVE  Good'
<1>1. TypeOK
  BY DEF Good
<1>2. TypeOK'
  BY <1>1, TypeSession, TypeLoadStep, TypeLoadBegins DEF Main
<1> QED
  BY <1>2, PoolMain DEF Good

\* Good holds at the start, ...
LEMMA GoodInit == Init => Good
<1> SUFFICES ASSUME Init PROVE Good
  OBVIOUS
<1>1. InPool /\ LevelsInv
  BY Sizes DEF Init, EmptyPf, NoLoop, InPool, LevelsInv
<1> QED
  BY <1>1, TypeInit DEF Good

\* ... every step keeps it, ...
LEMMA GoodStep == Good /\ [Next]_vars => Good'
<1> SUFFICES ASSUME Good, [Next]_vars PROVE Good'
  OBVIOUS
<1>1. CASE UNCHANGED vars
  BY <1>1 DEF vars, feedOnly, requests, ui, Good, TypeOK, InPool, LevelsInv
<1> QED
  BY <1>1, GoodFeed, GoodUser, GoodMain DEF Next

\* ... so it holds always.
LEMMA AlwaysGood == Spec => []Good
BY GoodInit, GoodStep, PTL DEF Spec

\* However the UI thread, the feed and a reload interleave, and whatever reads
\* fail, every variable keeps its type.
THEOREM FeedTyping == Spec => []TypeOK
<1>1. Good => TypeOK
  BY DEF Good
<1> QED
  BY <1>1, AlwaysGood, PTL

\* ... no read of the card and no decoded block leaves its part of s_audio_buf,
\* for every size of the prefetch, the level table, the loop cache, every song
\* and every divisor ...
THEOREM PoolSafety == Spec => []InPool
<1>1. Good => InPool
  BY DEF Good
<1> QED
  BY <1>1, AlwaysGood, PTL

\* ... and the UI thread never shows loop audio or half a transfer as levels.
THEOREM LevelSafety == Spec => []LvlSafe
<1>1. Good => LvlSafe
  BY DEF Good, LevelsInv, LvlSafe, LevelsShown
<1> QED
  BY <1>1, AlwaysGood, PTL

\* A step of the feed that neither takes nor activates a request starts no loop.
LEMMA HoldFeed ==
  ASSUME HoldInv, Feed, ~Request, ~Arm
  PROVE  HoldInv'
<1> DEFINE Keeps == /\ held' = held /\ (active' => active) /\ startReq' = startReq
                    /\ fp' = fp \/ fp'.at # "arm"
<1>0. Keeps => HoldInv'
  BY DEF HoldInv, Momentary
<1>1. Silence => Keeps
  BY DEF Silence, vars, requests, ui
<1>2. Enter => Keeps
  BY DEF Enter, Goto, requests, ui
<1>3. Preload => Keeps
  BY DEF Preload, Goto, requests, ui
<1>4. (\E ok \in ReadOutcomes : PreloadRead(ok)) => Keeps
  BY DEF PreloadRead, Goto, requests, ui
<1>5. ClearDirty => Keeps
  BY DEF ClearDirty, Goto, ui
<1>6. DropPrefetch => Keeps
  BY DEF DropPrefetch, Goto, ui
<1>7. ServeLoop => Keeps
  BY DEF ServeLoop, Goto, requests, ui
<1>8. NotCached => Keeps
  BY DEF NotCached, Goto, requests, ui
<1>9. Wrap => Keeps
  BY DEF Wrap, Goto, requests, ui
<1>10. NextSong => Keeps
  BY DEF NextSong, requests, ui
<1>11. PlayOn => Keeps
  BY DEF PlayOn, Goto, requests, ui
<1>12. PlayPrefetched => Keeps
  BY DEF PlayPrefetched, DecodeFrom, Goto, requests, ui
<1>13. Tone => Keeps
  BY DEF Tone, Goto, requests, ui
<1>14. (\E ok \in ReadOutcomes : Refill(ok)) => Keeps
  BY DEF Refill, DecodeFrom, Goto, requests, ui
<1>15. (\E unread \in Unread : ChangeSong(unread)) => Keeps
  BY DEF ChangeSong, Goto, ui
<1> HIDE DEF Keeps
<1> QED
  BY <1>0, <1>1, <1>2, <1>3, <1>4, <1>5, <1>6, <1>7, <1>8, <1>9, <1>10,
     <1>11, <1>12, <1>13, <1>14, <1>15 DEF Feed

\* A step keeps HoldInv as long as the UI thread does not come in between the
\* request and the activation of the loop.
LEMMA HoldStep ==
  ASSUME "arm" \notin Windows, HoldInv, [Next]_vars
  PROVE  HoldInv'
<1>1. CASE Release(TRUE) \/ Release(FALSE)
  <2>1. fp.at # "arm" /\ fp' = fp /\ active' = FALSE /\ startReq' = FALSE
    BY <1>1 DEF Release, UiMay, LoopStopped
  <2> QED
    BY <2>1 DEF HoldInv, Momentary
<1>2. CASE Press
  BY <1>2 DEF Press, HoldInv, Momentary
<1>3. CASE MoveLoop \/ \E dir \in {1, -1} : ChangeDivider(dir) \/ Skip(dir)
  BY <1>3 DEF MoveLoop, ChangeDivider, Skip, ui, HoldInv, Momentary
<1>4. CASE Request
  <2>1. held' = held /\ active' = active /\ startReq' = FALSE
        /\ (fp'.at = "arm" => startReq)
    BY <1>4 DEF Request, Goto, ui
  <2> QED
    BY <2>1 DEF HoldInv, Momentary
<1>5. CASE Arm
  <2>1. held' = held /\ fp.at = "arm" /\ fp'.at = "preload"
    BY <1>5 DEF Arm, Goto, ui
  <2> QED
    BY <2>1 DEF HoldInv, Momentary
<1>6. CASE Feed /\ ~Request /\ ~Arm
  BY <1>6, HoldFeed
<1>7. CASE Main
  <2>1. held' = held /\ (active' => active) /\ (startReq' => startReq) /\ fp' = fp
    <3>1. CASE Session
      BY <3>1 DEF Session, requests, ui
    <3>2. CASE LoadStep
      BY <3>2 DEF LoadStep, LoopDropped, ui
    <3>3. CASE \E target \in Loads : LoadBegins(target)
      BY <3>3 DEF LoadBegins, requests, ui
    <3> QED
      BY <1>7, <3>1, <3>2, <3>3 DEF Main
  <2> QED
    BY <2>1 DEF HoldInv, Momentary
<1>8. CASE UNCHANGED vars
  BY <1>8 DEF vars, requests, ui, HoldInv, Momentary
<1> QED
  BY <1>1, <1>2, <1>3, <1>4, <1>5, <1>6, <1>7, <1>8 DEF Next, User

\* Where the UI thread does not come in between the request and the activation
\* of a loop, no loop outlives the press of Play.
THEOREM LoopMomentary ==
  ASSUME "arm" \notin Windows
  PROVE  Spec => []Momentary
<1>1. Init => HoldInv
  BY DEF Init, HoldInv, Momentary
<1>2. HoldInv /\ [Next]_vars => HoldInv'
  BY HoldStep
<1>3. HoldInv => Momentary
  BY DEF HoldInv
<1> QED
  BY <1>1, <1>2, <1>3, PTL DEF Spec

(***************************************************************************)
(* InStep, LoopHeld, NeverStarved: the feed follows the song.              *)
(***************************************************************************)

\* The UI thread outside a loop start and a change of song, no failing reads,
\* no loop that outgrows the cache or begins behind the last block, and no song
\* of a single block, in which every loop does.
Undisturbed ==
  /\ Windows \subseteq {"request", "dirty", "seam", "refill"}
  /\ "uncache" \notin Gestures /\ "atEnd" \notin Gestures
  /\ Faults = {}
  /\ \A i \in Entries : Lengths[i] # 1

\* What Following says while the feed may run.
Live == Positioned /\ Requested /\ Looping /\ Cached /\ Prefetched

\* The numbers of the player.
LEMMA PlayFacts ==
  ASSUME Good
  PROVE  /\ cur \in Nat /\ song.len \in Nat /\ pf.pos \in Nat /\ pf.count \in Nat
         /\ pf.pos <= pf.count /\ pf.count <= Prefetch
         /\ loop.start \in Nat /\ loop.end \in Nat /\ loop.len \in Nat
         /\ loop.pos \in Nat
         /\ active \in BOOLEAN /\ cacheOk \in BOOLEAN /\ startReq \in BOOLEAN
         /\ pfDirty \in BOOLEAN
BY DEF Good, TypeOK, InPool, Songs

\* A feed outside its loop is at one of the steps of the UI thread's windows.
LEMMA UserPlace ==
  ASSUME Undisturbed, UiMay
  PROVE  fp.at \in {"idle", "request", "dirty", "seam", "refill"} /\ mp.at = 0
BY DEF Undisturbed, UiMay

\* The block after the ones decoded keeps the decoder in step.
LEMMA NextBlock ==
  ASSUME Good, Sync(cur, dec)
  PROVE  LET d == Decoded(dec, Audio(song.start, cur))
         IN  d.off = cur + 1 /\ d.entry = song.start
<1>1. cur \in Nat
  BY PlayFacts
<1>2. Audio(song.start, cur).off = cur /\ Audio(song.start, cur).entry = song.start
  BY DEF Audio
<1>3. dec.off = cur /\ dec.entry \in {song.start, NoEntry}
  BY DEF Sync, Reset
<1> QED
  BY <1>1, <1>2, <1>3 DEF Decoded

\* The feed enters fill_block, or takes a request.
LEMMA LiveEnter ==
  ASSUME Good, Live, Enter
  PROVE  Live'
<1>1. fp.at = "idle" /\ fp'.at = "request" /\ song.len > 0 /\ UNCHANGED <<feedOnly, requests>>
  BY DEF Enter, Goto, Sounding
<1>2. Positioned'
  BY <1>1 DEF Live, Positioned, Sync, feedOnly
<1>3. Requested'
  BY <1>1 DEF Live, Requested, feedOnly, requests
<1>4. Looping'
  BY <1>1 DEF Live, Looping, Placed, Sync, Starting, feedOnly, requests
<1>5. Cached'
  BY <1>1 DEF Live, Cached, LoopLength, feedOnly, requests
<1>6. Prefetched'
  BY <1>1 DEF Live, Prefetched, PfOk, feedOnly
<1> QED
  BY <1>2, <1>3, <1>4, <1>5, <1>6 DEF Live

\* ... a request is taken before the last block, ...
LEMMA LiveRequest ==
  ASSUME Good, Live, Request
  PROVE  Live'
<1>1. fp.at = "request" /\ fp'.at = (IF startReq THEN "arm" ELSE "dirty")
      /\ startReq' = FALSE /\ UNCHANGED <<feedOnly, active, pfDirty, div>>
  BY DEF Request, Goto
<1>2. Positioned'
  BY <1>1 DEF Live, Positioned, Requested, Sync, feedOnly
<1>3. Requested'
  BY <1>1 DEF Live, Requested
<1>4. Looping'
  BY <1>1 DEF Live, Looping, Placed, Sync, Starting, feedOnly
<1>5. Cached'
  BY <1>1 DEF Live, Cached, LoopLength, feedOnly
<1>6. Prefetched'
  BY <1>1 DEF Live, Prefetched, PfOk, feedOnly
<1> QED
  BY <1>2, <1>3, <1>4, <1>5, <1>6 DEF Live

\* A loop placed at the current block ends behind it, in the song.
LEMMA LoopEndFacts ==
  ASSUME Good, cur < song.len
  PROVE  /\ LoopLength \in Nat /\ LoopEnd(cur) \in Nat
         /\ cur < LoopEnd(cur) /\ LoopEnd(cur) <= song.len
         /\ LoopEnd(cur) <= cur + LoopLength
<1> DEFINE len == LoopBase \div Divisors[div]
           least == IF len = 0 THEN 1 ELSE len
<1>1. len \in Nat
  BY DivisorFacts, Quotient DEF Good, TypeOK
<1>2. least \in Nat /\ least > 0
  BY <1>1
<1>3. LoopLength = Least(least, song.len)
  BY DEF LoopLength
<1> HIDE DEF least
<1>4. LoopLength \in Nat /\ LoopLength > 0
  BY <1>2, <1>3, PlayFacts DEF Least
<1> QED
  BY <1>4, PlayFacts DEF LoopEnd, Least

\* ... the loop is placed: the cache that held the old one holds the new one, ...
LEMMA LiveArm ==
  ASSUME Good, Live, Arm
  PROVE  Live'
<1> DEFINE end == LoopEnd(cur)
<1>1. fp.at = "arm" /\ fp'.at = "preload" /\ cacheOk' = FALSE
      /\ UNCHANGED <<song, cur, dec, pf, pool, startReq, pfDirty, div>>
  BY DEF Arm, Goto
<1>2. cur < song.len
  BY <1>1 DEF Live, Positioned
<1>3. end \in Nat /\ cur < end /\ end <= song.len /\ LoopLength \in Nat
      /\ end <= cur + LoopLength
  BY <1>2, LoopEndFacts
<1>4. loop' = [start |-> cur, end |-> end, len |-> end - cur,
               pos |-> loop.pos, saved |-> dec]
  BY <1>2 DEF Arm, ArmedLoop
<1>5. active' = TRUE
  <2> HIDE DEF end
  <2>1. loop'.end = end /\ loop'.start = cur
    BY <1>4
  <2> QED
    BY <1>3, <2>1, PlayFacts DEF Arm
<1>6. (LoopEnd(loop.start))' = end
  BY <1>1, <1>4 DEF LoopEnd, LoopLength
<1> HIDE DEF end
<1>7. Positioned'
  BY <1>1, <1>2 DEF Live, Positioned, Sync
<1>8. Requested'
  BY <1>1 DEF Live, Requested
<1>9. Looping'
  <2>1. Placed'
    BY <1>1, <1>3, <1>4, PlayFacts DEF Live, Positioned, Placed, Sync
  <2>2. loop'.end = (LoopEnd(loop.start))' /\ cur' = loop'.start
    BY <1>1, <1>4, <1>6
  <2> QED
    BY <2>1, <2>2, <1>1, <1>5 DEF Looping
<1>10. Cached'
  BY <1>1 DEF Cached
<1>11. Prefetched'
  <2>1. CASE cacheOk
    <3>1. loop'.len <= LoopCap
      <4>1. cur = loop.start + loop.pos /\ loop.len <= LoopCap
            /\ (LoopLength <= LoopCap \/ loop.end = song.len)
        BY <2>1 DEF Live, Cached
      <4>2. loop.len = loop.end - loop.start
        BY <2>1 DEF Live, Looping, Placed
      <4>3. loop'.len = end - cur
        BY <1>4
      <4> QED
        BY <4>1, <4>2, <4>3, <1>3, PlayFacts, Sizes
    <3>2. loop'.len # 0
      BY <1>3, <1>4, PlayFacts
    <3> QED
      BY <3>1, <3>2, <1>1 DEF Prefetched, Fits
  <2>2. CASE ~cacheOk
    BY <2>2, <1>1 DEF Live, Prefetched, PfOk
  <2> QED
    BY <2>1, <2>2
<1> QED
  BY <1>7, <1>8, <1>9, <1>10, <1>11 DEF Live

\* ... the read begins, over prefetched blocks if the loop fits, ...
LEMMA LivePreload ==
  ASSUME Good, Live, Preload
  PROVE  Live'
<1>1. fp.at = "preload" /\ fp'.at = (IF Fits THEN "read" ELSE "clear")
      /\ UNCHANGED <<song, cur, dec, pf, loop, cacheOk, active, startReq, pfDirty, div>>
  BY DEF Preload, Goto, requests
<1>2. cacheOk = FALSE
  BY <1>1, PlayFacts DEF Live, Cached
<1>3. Positioned'
  BY <1>1 DEF Live, Positioned, Sync
<1>4. Requested'
  BY <1>1 DEF Live, Requested
<1>5. Looping'
  <2>1. Placed /\ active /\ cur = loop.start /\ loop.end = LoopEnd(loop.start)
    BY <1>1 DEF Live, Looping, Starting
  <2> QED
    BY <1>1, <2>1 DEF Looping, Starting, Placed, Sync, LoopEnd, LoopLength
<1>6. Cached'
  BY <1>1, <1>2 DEF Cached, Fits
<1>7. Prefetched'
  <2>1. CASE Fits
    BY <1>1, <2>1 DEF Prefetched
  <2>2. CASE ~Fits
    <3>1. pool' = pool /\ PfOk
      BY <1>1, <2>2 DEF Preload, Live, Prefetched
    <3> QED
      BY <1>1, <2>2, <3>1 DEF Prefetched, PfOk
  <2> QED
    BY <2>1, <2>2
<1> QED
  BY <1>3, <1>4, <1>5, <1>6, <1>7 DEF Live

\* ... ends, ...
LEMMA LivePreloadRead ==
  ASSUME Good, Live, PreloadRead(TRUE)
  PROVE  Live'
<1>1. fp.at = "read" /\ fp'.at = "clear" /\ cacheOk' = TRUE
      /\ loop' = [loop EXCEPT !.pos = 0]
      /\ UNCHANGED <<song, cur, dec, pf, active, startReq, pfDirty, div>>
      /\ pool' = [i \in Slots |-> IF i < loop.len
                                    THEN Audio(song.start, loop.start + i)
                                    ELSE pool[i]]
  BY DEF PreloadRead, Goto, requests
<1>2. loop'.start = loop.start /\ loop'.end = loop.end /\ loop'.len = loop.len
      /\ loop'.saved = loop.saved /\ loop'.pos = 0
  BY <1>1 DEF Good, TypeOK
<1>3. Placed /\ active /\ cur = loop.start /\ loop.end = LoopEnd(loop.start)
  BY <1>1 DEF Live, Looping, Starting
<1>4. loop.len # 0 /\ loop.len <= LoopCap
  BY <1>1 DEF Live, Cached, Fits
<1>5. Positioned'
  BY <1>1 DEF Live, Positioned, Sync
<1>6. Requested'
  BY <1>1 DEF Live, Requested
<1>7. Looping'
  BY <1>1, <1>2, <1>3 DEF Looping, Starting, Placed, Sync
<1>8. Cached'
  <2>1. \A i \in 0 .. (loop.len - 1) : pool'[i] = Audio(song.start, loop.start + i)
    <3>1. 0 .. (loop.len - 1) \subseteq Slots
      BY <1>4, PlayFacts, Sizes DEF Slots
    <3> QED
      BY <1>1, <3>1, PlayFacts
  <2>2. LoopLength <= LoopCap \/ loop.end = song.len
    <3>1. cur < song.len
      BY <1>3, PlayFacts DEF Placed
    <3>2. LoopLength \in Nat
      BY <3>1, LoopEndFacts
    <3>3. loop.end = loop.start + LoopLength \/ loop.end = song.len
      BY <1>3 DEF LoopEnd, Least
    <3>4. loop.len = loop.end - loop.start
      BY <1>3 DEF Placed
    <3> QED
      BY <3>2, <3>3, <3>4, <1>4, PlayFacts
  <2>3. (LoopLength <= LoopCap \/ loop.end = song.len)'
    BY <2>2, <1>1, <1>2 DEF LoopLength
  <2>4. cur' = loop'.start + loop'.pos /\ loop'.pos < loop'.len
    BY <1>1, <1>2, <1>3, <1>4, PlayFacts
  <2>5. \A i \in 0 .. (loop'.len - 1) : pool'[i] = Audio(song'.start, loop'.start + i)
    BY <2>1, <1>1, <1>2
  <2> QED
    BY <1>1, <1>2, <1>3, <1>4, <2>3, <2>4, <2>5 DEF Cached
<1>9. Prefetched'
  BY <1>1 DEF Prefetched
<1> QED
  BY <1>5, <1>6, <1>7, <1>8, <1>9 DEF Live

\* ... and the start is complete;
LEMMA LiveClear ==
  ASSUME Good, Live, ClearDirty
  PROVE  Live'
<1>1. fp.at = "clear" /\ fp'.at = "dirty" /\ pfDirty' = FALSE
      /\ UNCHANGED <<feedOnly, active, startReq, div>>
  BY DEF ClearDirty, Goto
<1>2. active /\ Placed
  BY <1>1 DEF Live, Looping, Starting
<1>3. startReq = FALSE
  BY <1>1, PlayFacts DEF Live, Requested
<1>4. Positioned'
  BY <1>1 DEF Live, Positioned, Sync, feedOnly
<1>5. Requested'
  BY <1>1, <1>3 DEF Requested
<1>6. Looping'
  BY <1>1, <1>2 DEF Looping, Placed, Sync, Starting, feedOnly
<1>7. Cached'
  BY <1>1, <1>2 DEF Live, Cached, LoopLength, feedOnly
<1>8. Prefetched'
  BY <1>1 DEF Live, Prefetched, PfOk, feedOnly
<1> QED
  BY <1>4, <1>5, <1>6, <1>7, <1>8 DEF Live

\* a stopped loop takes its prefetch with it, ...
LEMMA LiveDrop ==
  ASSUME Good, Live, DropPrefetch
  PROVE  Live'
<1>1. fp.at = "dirty" /\ fp'.at = "serve" /\ pfDirty' = FALSE
      /\ UNCHANGED <<song, cur, dec, loop, pool, active, startReq, div>>
      /\ cacheOk' = (cacheOk /\ ~pfDirty)
  BY PlayFacts DEF DropPrefetch, Goto
<1>2. pf' = IF pfDirty THEN EmptyPf ELSE pf
  BY DEF DropPrefetch, DroppedPf
<1>3. Positioned'
  BY <1>1 DEF Live, Positioned, Sync
<1>4. Requested'
  BY <1>1 DEF Live, Requested
<1>5. Looping'
  BY <1>1 DEF Live, Looping, Placed, Sync, Starting
<1>6. Cached'
  <2>1. CASE cacheOk /\ ~pfDirty
    BY <1>1, <2>1 DEF Live, Cached, LoopLength
  <2>2. CASE ~(cacheOk /\ ~pfDirty)
    BY <1>1, <2>2 DEF Cached
  <2> QED
    BY <2>1, <2>2
<1>7. Prefetched'
  <2>1. CASE pfDirty
    <3>1. PfOk'
      BY <1>1, <1>2, <2>1, PlayFacts DEF Live, Positioned, PfOk, EmptyPf
    <3> QED
      BY <1>1, <3>1 DEF Prefetched
  <2>2. CASE ~pfDirty
    BY <1>1, <1>2, <2>2 DEF Live, Prefetched, PfOk
  <2> QED
    BY <2>1, <2>2
<1> QED
  BY <1>3, <1>4, <1>5, <1>6, <1>7 DEF Live

\* ... a cached one is played and wraps, ...
LEMMA LiveServe ==
  ASSUME Good, Live, ServeLoop
  PROVE  Live'
<1>1. fp.at = "serve" /\ active /\ cacheOk /\ fp'.at = "idle"
      /\ UNCHANGED <<song, pf, cacheOk, pool, active, startReq, pfDirty, div>>
  BY DEF ServeLoop, Goto, requests
<1>2. Placed
  BY <1>1 DEF Live, Looping
<1>3. /\ cur = loop.start + loop.pos /\ loop.pos < loop.len /\ loop.len <= LoopCap
      /\ \A i \in 0 .. (loop.len - 1) : pool[i] = Audio(song.start, loop.start + i)
      /\ LoopLength <= LoopCap \/ loop.end = song.len
  BY <1>1 DEF Live, Cached
<1>4. loop.len = loop.end - loop.start /\ loop.start < loop.end /\ loop.end <= song.len
  BY <1>2 DEF Placed
<1>5. /\ UNCHANGED <<loop.start, loop.end, loop.len, loop.saved>>
      /\ \/ loop'.pos = 0 /\ cur' = loop.start /\ dec' = loop.saved
         \/ /\ loop.pos + 1 < loop.len
            /\ loop'.pos = loop.pos + 1 /\ cur' = cur + 1
            /\ dec' = Decoded(dec, pool[loop.pos])
  BY PlayFacts DEF ServeLoop, Restored, Good, TypeOK
<1>6. cur' = loop'.start + loop'.pos /\ loop'.pos < loop'.len /\ loop'.pos \in Nat
  BY <1>3, <1>4, <1>5, PlayFacts
<1>7. cur' \in loop.start .. loop.end /\ cur' \in Nat /\ cur' < song.len
  BY <1>4, <1>5, <1>6, PlayFacts
<1>8. Sync(cur', dec')
  <2>1. CASE cur' = loop.start /\ dec' = loop.saved
    BY <1>2, <2>1 DEF Placed
  <2>2. CASE cur' = cur + 1 /\ dec' = Decoded(dec, pool[loop.pos])
    <3>1. loop.pos \in 0 .. (loop.len - 1)
      BY <1>3, PlayFacts
    <3>2. pool[loop.pos] = Audio(song.start, cur)
      BY <1>3, <3>1
    <3> QED
      BY <2>2, <3>2, NextBlock DEF Live, Positioned, Sync
  <2> QED
    BY <1>5, <2>1, <2>2
<1>9. Positioned'
  BY <1>1, <1>7, <1>8, PlayFacts DEF Live, Positioned, Sync
<1>10. Requested'
  BY <1>1, <1>7 DEF Requested
<1>11. Looping'
  <2>1. Placed'
    BY <1>1, <1>2, <1>5, <1>7 DEF Placed, Sync
  <2> QED
    BY <1>1, <2>1 DEF Looping, Starting
<1>12. Cached'
  <2>1. (LoopLength <= LoopCap \/ loop.end = song.len)'
    BY <1>1, <1>3, <1>5 DEF LoopLength
  <2>2. (\A i \in 0 .. (loop.len - 1) : pool[i] = Audio(song.start, loop.start + i))'
    BY <1>1, <1>3, <1>5
  <2> QED
    BY <1>1, <1>3, <1>5, <1>6, <2>1, <2>2 DEF Cached
<1>13. Prefetched'
  BY <1>1 DEF Prefetched
<1> QED
  BY <1>9, <1>10, <1>11, <1>12, <1>13 DEF Live

\* ... one that is not goes on to the prefetch, ...
LEMMA LiveNotCached ==
  ASSUME Good, Live, NotCached
  PROVE  Live'
<1>1. fp.at = "serve" /\ fp'.at = "seam" /\ UNCHANGED <<feedOnly, requests>>
      /\ ~(active /\ cacheOk)
  BY DEF NotCached, Goto
<1>2. cacheOk = FALSE
  BY <1>1, PlayFacts DEF Live, Cached
<1>3. PfOk
  BY <1>1, <1>2 DEF Live, Prefetched
<1>4. Positioned'
  BY <1>1 DEF Live, Positioned, Sync, feedOnly
<1>5. Requested'
  BY <1>1 DEF Live, Requested, feedOnly, requests
<1>6. Looping'
  BY <1>1 DEF Live, Looping, Placed, Sync, Starting, feedOnly, requests
<1>7. Cached'
  BY <1>1, <1>2 DEF Cached, feedOnly
<1>8. Prefetched'
  BY <1>1, <1>3 DEF Prefetched, PfOk, feedOnly
<1> QED
  BY <1>4, <1>5, <1>6, <1>7, <1>8 DEF Live

\* ... wraps at its end, ...
LEMMA LiveWrap ==
  ASSUME Good, Live, Wrap
  PROVE  Live'
<1>1. fp.at = "seam" /\ active /\ fp'.at = "refill"
      /\ cur' = loop.start /\ pf' = EmptyPf /\ dec' = loop.saved
      /\ UNCHANGED <<song, loop, cacheOk, pool, requests>>
  BY DEF Wrap, Goto
<1>2. Placed /\ cacheOk = FALSE
  BY <1>1, PlayFacts DEF Live, Looping, Cached
<1>3. loop.start < loop.end /\ loop.end <= song.len /\ loop.start <= cur
  BY <1>2, PlayFacts DEF Placed
<1>4. Positioned'
  BY <1>1, <1>2, <1>3, PlayFacts DEF Live, Positioned, Placed, Sync
<1>5. Requested'
  <2>1. startReq => cur + 1 < song.len
    BY <1>1 DEF Live, Requested
  <2>2. startReq => loop.start + 1 < song.len
    BY <2>1, <1>3, PlayFacts
  <2> QED
    BY <1>1, <2>2 DEF Requested, requests
<1>6. Looping'
  <2>1. Placed'
    BY <1>1, <1>2, <1>3, PlayFacts DEF Placed, Sync
  <2>2. cur' < loop'.end
    BY <1>1, <1>3
  <2> QED
    BY <1>1, <2>1, <2>2 DEF Looping, Starting
<1>7. Cached'
  BY <1>1, <1>2 DEF Cached
<1>8. Prefetched'
  BY <1>1, <1>3, PlayFacts DEF Prefetched, PfOk, EmptyPf
<1> QED
  BY <1>4, <1>5, <1>6, <1>7, <1>8 DEF Live

\* ... and a skip or the end of the song leads to change_song, ...
LEMMA LiveNextSong ==
  ASSUME Good, Live, NextSong
  PROVE  Live'
<1>1. fp.at = "seam" /\ fp'.at = "change" /\ UNCHANGED <<feedOnly, requests>>
  BY DEF NextSong
<1>2. Positioned'
  BY <1>1 DEF Live, Positioned, Sync, feedOnly
<1>3. Requested'
  BY <1>1 DEF Requested
<1>4. Looping'
  BY <1>1 DEF Live, Looping, Placed, Sync, Starting, feedOnly, requests
<1>5. Cached'
  BY <1>1, PlayFacts DEF Live, Cached, feedOnly
<1>6. Prefetched'
  BY <1>1 DEF Prefetched
<1> QED
  BY <1>2, <1>3, <1>4, <1>5, <1>6 DEF Live

\* ... or the song goes on.
LEMMA LivePlayOn ==
  ASSUME Good, Live, PlayOn
  PROVE  Live'
<1>1. fp.at = "seam" /\ fp'.at = "refill" /\ UNCHANGED <<feedOnly, requests>>
      /\ cur < song.len /\ (active => ~(cur >= loop.end))
  BY DEF PlayOn, Goto, AtLoopEnd
<1>2. Positioned'
  BY <1>1 DEF Live, Positioned, Sync, feedOnly
<1>3. Requested'
  BY <1>1 DEF Live, Requested, feedOnly, requests
<1>4. Looping'
  <2>1. active => cur < loop.end
    BY <1>1, PlayFacts
  <2> QED
    BY <1>1, <2>1 DEF Live, Looping, Placed, Sync, Starting, feedOnly, requests
<1>5. Cached'
  BY <1>1, PlayFacts DEF Live, Cached, feedOnly
<1>6. Prefetched'
  BY <1>1 DEF Live, Prefetched, PfOk, feedOnly
<1> QED
  BY <1>2, <1>3, <1>4, <1>5, <1>6 DEF Live

\* The entry found has something to play.
LEMMA NearestPlayable ==
  ASSUME PlayTypes, NEW dir, NEW unread, Found(dir, unread) # {}
  PROVE  Lengths[Nearest(dir, unread)] > 0
<1> DEFINE found == Found(dir, unread)
           step == CHOOSE k \in found : \A other \in found : k <= other
<1>1. song.n \in Nat
  BY EntryFacts DEF PlayTypes, Songs
<1>2. found \in SUBSET Nat /\ found # {}
  BY <1>1 DEF Found
<1>3. step \in found
  <2> HIDE DEF found
  <2> QED
    BY <1>2, Smallest
<1>4. PlayableEntry(EntryAt(dir, step))
  <2> HIDE DEF step
  <2> QED
    BY <1>3 DEF Found
<1> QED
  BY <1>4 DEF Nearest, PlayableEntry

\* The next song starts at its first block, and has two.
LEMMA LiveChangeSong ==
  ASSUME Undisturbed, Good, Live, NEW unread, ChangeSong(unread)
  PROVE  Live'
<1>1. fp.at = "change" /\ fp'.at = "refill" /\ cur' = 0 /\ pf' = EmptyPf
      /\ dec' = Reset /\ active' = FALSE /\ cacheOk' = FALSE
      /\ UNCHANGED <<loop, pool, startReq, pfDirty, div>>
  BY DEF ChangeSong, Goto
<1>2. song'.len \in Nat /\ song'.len > 1
  <2>1. CASE Found(fp.dir, unread) = {}
    <3>1. song' = song
      BY <2>1 DEF ChangeSong
    <3>2. song.len > 0 /\ song.len # 1
      BY <1>1 DEF Live, Positioned
    <3> QED
      BY <3>1, <3>2, PlayFacts
  <2>2. CASE Found(fp.dir, unread) # {}
    <3> DEFINE i == Nearest(fp.dir, unread)
    <3>1. PlayTypes /\ FpTypes
      BY TypeGroups DEF Good
    <3>2. i \in Entries /\ Lengths[i] > 0
      BY <2>2, <3>1, NearestEntry, NearestPlayable
    <3> HIDE DEF i
    <3>3. Lengths[i] \in Nat /\ Lengths[i] # 1
      BY <3>2, EntryFacts DEF Undisturbed
    <3>4. song'.len = Lengths[i]
      BY <2>2, <3>1 DEF ChangeSong, i, PlayTypes, Songs
    <3> QED
      BY <3>2, <3>3, <3>4
  <2> QED
    BY <2>1, <2>2
<1>3. Positioned'
  BY <1>1, <1>2 DEF Positioned, Sync, Reset
<1>4. Requested'
  BY <1>1, <1>2 DEF Requested
<1>5. Looping'
  BY <1>1 DEF Looping, Starting
<1>6. Cached'
  BY <1>1 DEF Cached
<1>7. Prefetched'
  BY <1>1, <1>2 DEF Prefetched, PfOk, EmptyPf
<1> QED
  BY <1>3, <1>4, <1>5, <1>6, <1>7 DEF Live

\* A block of the prefetch is decoded: the feed is one block further.
LEMMA LiveDecoded ==
  ASSUME Good, Live, fp.at = "refill",
         NEW slots \in [Slots -> Tags], NEW window \in [pos : Nat, count : Nat],
         window.pos < window.count, window.count <= PoolSize,
         cur + (window.count - window.pos) <= song.len,
         \A i \in window.pos .. (window.count - 1) :
           slots[i] = Audio(song.start, cur + (i - window.pos)),
         DecodeFrom(slots, window), pool' = slots,
         UNCHANGED <<song, loop, cacheOk, requests>>
  PROVE  Live'
<1>1. cur' = cur + 1 /\ fp'.at = "idle" /\ dec' = Decoded(dec, slots[window.pos])
      /\ pf'.pos = window.pos + 1 /\ pf'.count = window.count
  BY DEF DecodeFrom, Goto
<1>2. cacheOk = FALSE
  BY PlayFacts DEF Live, Cached
<1>3. cur < song.len
  BY DEF Live, Positioned
<1>4. slots[window.pos] = Audio(song.start, cur)
  <2>1. window.pos \in window.pos .. (window.count - 1)
    OBVIOUS
  <2>2. slots[window.pos] = Audio(song.start, cur + (window.pos - window.pos))
    BY <2>1
  <2>3. cur + (window.pos - window.pos) = cur
    BY PlayFacts
  <2> QED
    BY <2>2, <2>3
<1>5. Sync(cur + 1, dec')
  BY <1>1, <1>4, NextBlock DEF Live, Positioned, Sync
<1>6. Positioned'
  BY <1>1, <1>3, <1>5, PlayFacts DEF Live, Positioned, Sync
<1>7. Requested'
  BY <1>1 DEF Live, Requested, requests
<1>8. Looping'
  <2>1. active => Placed /\ cur < loop.end
    BY DEF Live, Looping
  <2>2. active => cur + 1 \in loop.start .. loop.end
    BY <2>1, PlayFacts DEF Placed
  <2>3. active => Placed'
    BY <1>1, <2>1, <2>2 DEF Placed, Sync
  <2> QED
    BY <1>1, <1>2, <2>3 DEF Looping, Starting, requests
<1>9. Cached'
  BY <1>1, <1>2 DEF Cached
<1>10. Prefetched'
  <2>1. (cur + 1) + (window.count - (window.pos + 1)) <= song.len
    BY PlayFacts
  <2>2. ASSUME NEW i \in (window.pos + 1) .. (window.count - 1)
        PROVE  slots[i] = Audio(song.start, (cur + 1) + (i - (window.pos + 1)))
    <3>1. i \in window.pos .. (window.count - 1)
      OBVIOUS
    <3>2. (cur + 1) + (i - (window.pos + 1)) = cur + (i - window.pos)
      BY PlayFacts
    <3> QED
      BY <3>1, <3>2
  <2>3. PfOk'
    BY <1>1, <2>1, <2>2 DEF PfOk
  <2> QED
    BY <1>1, <2>3 DEF Prefetched
<1> QED
  BY <1>6, <1>7, <1>8, <1>9, <1>10 DEF Live

\* A prefetched block, ...
LEMMA LivePrefetched ==
  ASSUME Good, Live, PlayPrefetched
  PROVE  Live'
<1>1. fp.at = "refill" /\ pf.pos < pf.count /\ DecodeFrom(pool, pf) /\ pool' = pool
      /\ UNCHANGED <<song, loop, cacheOk, requests>>
  BY DEF PlayPrefetched
<1>2. PfOk
  BY <1>1 DEF Live, Prefetched
<1>3. pool \in [Slots -> Tags] /\ pf \in [pos : Nat, count : Nat]
  BY DEF Good, TypeOK
<1>4. pf.count <= PoolSize
  BY PlayFacts, Sizes
<1> QED
  BY <1>1, <1>2, <1>3, <1>4, LiveDecoded DEF PfOk

\* ... and the first one of a refill.
LEMMA LiveRefill ==
  ASSUME Good, Live, NEW levelsOk \in BOOLEAN, Refill(levelsOk)
  PROVE  Live'
<1> DEFINE n == RefillSize
           window == [pos |-> 0, count |-> n]
<1>1. fp.at = "refill" /\ n > 0 /\ DecodeFrom(pool', window)
      /\ UNCHANGED <<song, loop, cacheOk, requests>>
  BY DEF Refill
<1>2. n \in Nat /\ n <= Prefetch
  BY RefillFits DEF Good
<1>3. cur + n <= song.len
  <2>1. cur < song.len
    BY <1>1 DEF Live, Positioned
  <2> QED
    BY <2>1, PlayFacts, Sizes DEF RefillSize, Remaining, Least
<1>4. ASSUME NEW i \in 0 .. (n - 1)
      PROVE  pool'[i] = Audio(song.start, cur + (i - 0))
  <2> HIDE DEF n
  <2>1. i \in Slots /\ i < n
    BY <1>2, Sizes DEF Slots
  <2>2. pool'[i] = Audio(song.start, cur + i)
    BY <2>1 DEF Refill, n
  <2>3. i - 0 = i
    OBVIOUS
  <2> QED
    BY <2>2, <2>3
<1>5. pool' \in [Slots -> Tags]
  BY TypeRefill DEF Good, TypeOK
<1> HIDE DEF n
<1>6. window.pos = 0 /\ window.count = n /\ window \in [pos : Nat, count : Nat]
  BY <1>2
<1>7. n <= PoolSize /\ cur + (n - 0) <= song.len
  BY <1>2, <1>3, PlayFacts, Sizes
<1> HIDE DEF window
<1> QED
  BY <1>1, <1>4, <1>5, <1>6, <1>7, LiveDecoded

\* With a working card and a block to play there is no tone.
LEMMA NoTone ==
  ASSUME Undisturbed, Good, Live, Tone
  PROVE  FALSE
<1>1. cur < song.len
  BY DEF Tone, Live, Positioned
<1>2. RefillSize > 0
  BY <1>1, PlayFacts, Sizes DEF RefillSize, Remaining, Least
<1>3. FALSE \notin ReadOutcomes
  BY DEF ReadOutcomes, Undisturbed
<1>4. RefillSize = 0 \/ FALSE \in ReadOutcomes
  BY DEF Tone
<1>5. RefillSize # 0
  BY <1>2
<1> QED
  BY <1>3, <1>4, <1>5, Zenon

\* So every step of the feed.
LEMMA LiveFeed ==
  ASSUME Undisturbed, Good, Live, Feed
  PROVE  Live' \/ Silence
<1>1. ReadOutcomes = {TRUE}
  BY DEF ReadOutcomes, Undisturbed
<1>2. ASSUME NEW ok \in ReadOutcomes, PreloadRead(ok) \/ Refill(ok) PROVE Live'
  BY <1>1, <1>2, LivePreloadRead, LiveRefill
<1>3. ASSUME NEW unread \in Unread, ChangeSong(unread) PROVE Live'
  BY <1>3, LiveChangeSong
<1> QED
  BY <1>2, <1>3, LiveEnter, LiveRequest, LiveArm, LivePreload, LiveClear, LiveDrop,
     LiveServe, LiveNotCached, LiveWrap, LiveNextSong, LivePlayOn, LivePrefetched,
     NoTone DEF Feed

\* A step of the UI thread that asks for a loop, or for nothing; ...
LEMMA LiveRequested ==
  ASSUME Undisturbed, Good, Live, UiMay,
         startReq' => startReq \/ NotAtEnd,
         UNCHANGED <<feedOnly, active, pfDirty, div, fp>>
  PROVE  Live'
<1>1. fp.at \in {"idle", "request", "dirty", "seam", "refill"} /\ fp' = fp
  BY UserPlace
<1>2. NotAtEnd => cur + 1 < song.len
  BY DEF NotAtEnd, Undisturbed
<1>3. NotAtEnd => cur < song.len
  BY <1>2, PlayFacts
<1>4. Positioned'
  BY <1>1 DEF Live, Positioned, Sync, feedOnly
<1>5. Requested'
  BY <1>1, <1>2, <1>3 DEF Live, Requested, feedOnly
<1>6. Looping'
  BY <1>1 DEF Live, Looping, Placed, Sync, Starting, feedOnly
<1>7. Cached'
  BY <1>1 DEF Live, Cached, LoopLength, feedOnly
<1>8. Prefetched'
  BY <1>1 DEF Live, Prefetched, PfOk, feedOnly
<1> QED
  BY <1>4, <1>5, <1>6, <1>7, <1>8 DEF Live

\* ... the end of a loop; ...
LEMMA LiveRelease ==
  ASSUME Undisturbed, Good, Live, NEW short \in BOOLEAN, Release(short)
  PROVE  Live'
<1>1. fp.at \in {"idle", "request", "dirty", "seam", "refill"} /\ fp' = fp
  BY UserPlace DEF Release
<1>2. startReq' = FALSE /\ active' = FALSE /\ pfDirty' = TRUE /\ UNCHANGED <<feedOnly, div>>
  BY DEF Release, LoopStopped
<1>3. Positioned'
  BY <1>1, <1>2 DEF Live, Positioned, Sync, feedOnly
<1>4. Requested'
  BY <1>2 DEF Requested
<1>5. Looping'
  BY <1>1, <1>2 DEF Live, Looping, Placed, Sync, Starting, feedOnly
<1>6. Cached'
  BY <1>1, <1>2 DEF Live, Cached, LoopLength, feedOnly
<1>7. Prefetched'
  BY <1>1, <1>2 DEF Live, Prefetched, PfOk, feedOnly
<1> QED
  BY <1>3, <1>4, <1>5, <1>6, <1>7 DEF Live

\* ... another length, which the cache still holds.
LEMMA LiveDivider ==
  ASSUME Undisturbed, Good, Live, NEW dir \in {1, -1}, ChangeDivider(dir)
  PROVE  Live'
<1>1. fp.at \in {"idle", "request", "dirty", "seam", "refill"} /\ fp' = fp
  BY UserPlace DEF ChangeDivider
<1>2. div' = Clamped(dir) /\ (startReq' = (startReq \/ active))
      /\ UNCHANGED <<feedOnly, active, pfDirty>>
  BY DEF ChangeDivider
<1>3. cur + 1 < song.len
  BY DEF ChangeDivider, NotAtEnd, Undisturbed
<1>4. Positioned'
  BY <1>1, <1>2 DEF Live, Positioned, Sync, feedOnly
<1>5. Requested'
  <2>1. cur < song.len
    BY <1>3, PlayFacts
  <2> QED
    BY <1>1, <1>2, <1>3, <2>1 DEF Requested, feedOnly
<1>6. Looping'
  BY <1>1, <1>2 DEF Live, Looping, Placed, Sync, Starting, feedOnly
<1>7. Cached'
  <2>1. CASE cacheOk
    <3> DEFINE len == LoopBase \div Divisors[div']
               least == IF len = 0 THEN 1 ELSE len
    <3>1. div' \in DOMAIN Divisors
      BY <1>2 DEF Clamped, Good, TypeOK
    <3>2. len \in Nat
      BY <3>1, DivisorFacts, Quotient
    <3>3. len <= LoopCap
      BY <1>2, <2>1 DEF ChangeDivider, Undisturbed
    <3>4. LoopCap >= 1
      BY <2>1, PlayFacts, Sizes DEF Live, Cached
    <3> HIDE DEF len
    <3>5. least \in Nat /\ least <= LoopCap
      BY <3>2, <3>3, <3>4, Sizes
    <3>6. LoopLength' = Least(least, song.len)
      BY <1>2 DEF LoopLength, len, feedOnly
    <3> HIDE DEF least
    <3>7. LoopLength' <= LoopCap
      BY <3>5, <3>6, PlayFacts, Sizes DEF Least
    <3> QED
      BY <1>1, <1>2, <2>1, <3>7 DEF Live, Cached, feedOnly
  <2>2. CASE ~cacheOk
    BY <1>1, <1>2, <2>2 DEF Cached, feedOnly
  <2> QED
    BY <2>1, <2>2
<1>8. Prefetched'
  BY <1>1, <1>2 DEF Live, Prefetched, PfOk, feedOnly
<1> QED
  BY <1>4, <1>5, <1>6, <1>7, <1>8 DEF Live

\* Together.
LEMMA LiveUser ==
  ASSUME Undisturbed, Good, Live, User
  PROVE  Live' /\ mp.at = 0
<1>1. UiMay
  BY DEF User, Press, MoveLoop, Release, ChangeDivider, Skip
<1>2. mp.at = 0
  BY <1>1, UserPlace
<1>3. CASE Press \/ MoveLoop \/ \E dir \in {1, -1} : Skip(dir)
  <2>1. startReq' => startReq \/ NotAtEnd
    BY <1>3 DEF Press, MoveLoop, Skip
  <2>2. UNCHANGED <<feedOnly, active, pfDirty, div, fp>>
    BY <1>3 DEF Press, MoveLoop, Skip
  <2> QED
    BY <1>1, <1>2, <2>1, <2>2, LiveRequested
<1> QED
  BY <1>2, <1>3, LiveRelease, LiveDivider DEF User

\* A step that leaves the player alone.
LEMMA LiveFrame ==
  ASSUME Live, UNCHANGED <<feedOnly, requests, fp>>
  PROVE  Live'
<1>1. Positioned'
  BY DEF Live, Positioned, Sync, feedOnly
<1>2. Requested'
  BY DEF Live, Requested, feedOnly, requests
<1>3. Looping'
  BY DEF Live, Looping, Placed, Sync, Starting, LoopEnd, LoopLength, feedOnly, requests
<1>4. Cached'
  BY DEF Live, Cached, Fits, LoopLength, feedOnly, requests
<1>5. Prefetched'
  BY DEF Live, Prefetched, PfOk, Fits, feedOnly
<1> QED
  BY <1>1, <1>2, <1>3, <1>4, <1>5 DEF Live

\* No song main loads has a single block.
LEMMA LoadLengths ==
  ASSUME Undisturbed, NEW target \in Loads
  PROVE  target.len # 1
<1>1. Nothing.len = 0
  BY DEF Nothing
<1>2. ASSUME NEW i \in Entries PROVE Lengths[i] # 1
  BY DEF Undisturbed
<1> QED
  BY <1>1, <1>2 DEF Loads

\* The reload: pause, then one assignment after the other.
LEMMA FollowLoad ==
  ASSUME Undisturbed, Good, Following, LoadStep
  PROVE  Following'
<1> DEFINE at == mp.at
           to == mp.target
<1>1. at \in 0 .. LastStep /\ at # 0 /\ fp.at = "idle" /\ fp' = fp
      /\ UNCHANGED <<loop, pool, div>>
  BY DEF LoadStep, Good, TypeOK
<1>2. to.len # 1
  BY DEF Following
<1>3. CASE at = LastStep
  <2>1. Reloading
    BY <1>3 DEF Following, LastStep
  <2>2. song.start = to.start /\ song.len = to.len /\ cur = 0 /\ pf = EmptyPf
        /\ dec = Reset /\ ~active /\ ~startReq /\ ~cacheOk
    BY <1>3, <2>1 DEF Reloading, LastStep
  <2>3. song'.start = song.start /\ song'.len = song.len /\ cur' = 0 /\ pf' = EmptyPf
        /\ dec' = Reset /\ active' = FALSE /\ startReq' = FALSE /\ cacheOk' = FALSE
        /\ mp' = NoLoad
    BY <1>3, <2>2 DEF LoadStep, LastStep, LoopDropped
  <2>4. Positioned'
    BY <1>1, <1>2, <2>2, <2>3, PlayFacts DEF Positioned, Sync, Reset
  <2>5. Requested'
    BY <2>3 DEF Requested
  <2>6. Looping'
    BY <1>1, <2>3 DEF Looping, Starting
  <2>7. Cached'
    BY <1>1, <2>3 DEF Cached
  <2>8. Prefetched'
    BY <1>1, <2>2, <2>3, PlayFacts DEF Prefetched, PfOk, EmptyPf
  <2> QED
    BY <2>3, <2>4, <2>5, <2>6, <2>7, <2>8 DEF Following, NoLoad, Nothing
<1>4. CASE at # LastStep
  <2>1. mp' = [mp EXCEPT !.at = at + 1]
    BY <1>4 DEF LoadStep
  <2>2. mp'.at = at + 1 /\ mp'.target = to
    BY <2>1 DEF Good, TypeOK
  <2>3. at > 1 => Reloading
    BY DEF Following
  <2> HIDE DEF at, to
  <2>4. at \in 1 .. 13
    BY <1>1, <1>4 DEF LastStep
  <2>5. ~playing'
    <3>1. CASE at = 1
      BY <3>1 DEF LoadStep, at
    <3>2. CASE at > 1
      BY <2>3, <3>2 DEF LoadStep, Reloading, at
    <3> QED
      BY <2>4, <3>1, <3>2
  <2>6. (at > 4 => ~active') /\ (at > 5 => ~startReq') /\ (at > 6 => ~cacheOk')
    <3>1. active' = (active /\ at # 5) /\ startReq' = (startReq /\ at # 6)
          /\ cacheOk' = (cacheOk /\ at # 7)
      BY DEF LoadStep, LoopDropped, at
    <3>2. (at > 5 => ~active) /\ (at > 6 => ~startReq) /\ (at > 7 => ~cacheOk)
      BY <2>3, <2>4 DEF Reloading, at
    <3>3. (at > 4 => at = 5 \/ at > 5) /\ (at > 5 => at = 6 \/ at > 6)
          /\ (at > 6 => at = 7 \/ at > 7)
      BY <2>4
    <3> QED
      BY <3>1, <3>2, <3>3, Zenon
  <2>7. (at > 8 => song'.start = to.start) /\ (at > 9 => song'.len = to.len)
    BY <2>3, <2>4 DEF LoadStep, Reloading, at, to
  <2>8. (at > 10 => cur' = 0) /\ (at > 11 => pf' = EmptyPf) /\ (at > 12 => dec' = Reset)
    BY <2>3, <2>4 DEF LoadStep, Reloading, at
  <2>9. Reloading'
    BY <1>1, <2>2, <2>4, <2>5, <2>6, <2>7, <2>8 DEF Reloading
  <2> QED
    BY <1>2, <2>2, <2>4, <2>9 DEF Following, to
<1> QED
  BY <1>3, <1>4

\* Following holds at the start, ...
LEMMA FollowInit ==
  ASSUME Undisturbed, Init
  PROVE  Following
<1>1. mp.at = 1 /\ mp.target \in Loads
  BY DEF Init
<1>2. song.len = 0 /\ cur = 0 /\ dec = Reset /\ pf = EmptyPf /\ ~active /\ ~startReq
      /\ ~cacheOk /\ fp.at = "idle"
  BY DEF Init, Nothing
<1>3. Positioned
  BY <1>2 DEF Positioned, Sync, Reset
<1>4. Requested /\ Looping /\ Cached
  BY <1>2 DEF Requested, Looping, Starting, Cached
<1>5. Prefetched
  BY <1>2 DEF Prefetched, PfOk, EmptyPf
<1> QED
  BY <1>1, <1>3, <1>4, <1>5, LoadLengths DEF Following

\* ... and every step keeps it, ...
LEMMA FollowStep ==
  ASSUME Undisturbed, Good, Following, [Next]_vars
  PROVE  Following'
<1>0. mp.at \in Nat
  BY DEF Good, TypeOK
<1>1. ASSUME UNCHANGED <<feedOnly, requests, fp, mp>> PROVE Following'
  <2>1. Reloading => Reloading'
    BY <1>1 DEF Reloading, feedOnly, requests
  <2>2. Live => Live'
    BY <1>1, LiveFrame
  <2> QED
    BY <1>1, <2>1, <2>2 DEF Following, Live
<1>2. CASE UNCHANGED vars \/ Silence \/ Session
  <2>1. UNCHANGED <<feedOnly, requests, fp, mp>>
    BY <1>2 DEF vars, Silence, Session
  <2> QED
    BY <1>1, <2>1
<1>3. CASE Feed /\ ~Silence
  <2>1. fp.at # "idle" \/ playing
    BY <1>3 DEF Feed, Silence, Enter, Request, Arm, Preload, PreloadRead, ClearDirty,
       DropPrefetch, ServeLoop, NotCached, Wrap, NextSong, PlayOn, ChangeSong,
       PlayPrefetched, Refill, Tone, Sounding
  <2>2. mp.at <= 1 /\ Live
    BY <1>0, <2>1 DEF Following, Reloading, Live
  <2>3. Live'
    BY <1>3, <2>2, LiveFeed
  <2>4. mp' = mp
    BY <1>3 DEF Feed, Enter, Request, Arm, Preload, PreloadRead, ClearDirty,
       DropPrefetch, ServeLoop, NotCached, Wrap, NextSong, PlayOn, ChangeSong,
       PlayPrefetched, Refill, Tone
  <2> QED
    BY <1>0, <2>2, <2>3, <2>4 DEF Following, Live
<1>4. CASE User
  <2>1. mp.at = 0
    BY <1>4, UserPlace DEF User, Press, MoveLoop, Release, ChangeDivider, Skip
  <2>2. Live
    BY <2>1 DEF Following, Live
  <2>3. Live' /\ mp' = mp
    BY <1>4, <2>2, LiveUser DEF User, Press, MoveLoop, Release, ChangeDivider, Skip
  <2> QED
    BY <2>1, <2>3 DEF Following, Live
<1>5. CASE LoadStep
  BY <1>5, FollowLoad
<1>6. ASSUME NEW target \in Loads, LoadBegins(target) PROVE Following'
  <2>1. mp.at = 0 /\ mp'.at = 1 /\ mp'.target = target
        /\ UNCHANGED <<feedOnly, requests, fp>>
    BY <1>6 DEF LoadBegins
  <2>2. Live'
    BY <2>1, LiveFrame DEF Following, Live
  <2> QED
    BY <2>1, <2>2, LoadLengths DEF Following, Live
<1> QED
  BY <1>2, <1>3, <1>4, <1>5, <1>6 DEF Next, Main

\* ... so it holds always.
LEMMA AlwaysFollowing ==
  ASSUME Undisturbed
  PROVE  Spec => []Following
<1>1. Init => Following
  BY FollowInit
<1>2. Good /\ Following /\ [Next]_vars => Following'
  BY FollowStep
<1> QED
  BY <1>1, <1>2, AlwaysGood, PTL DEF Spec

\* Between two buffers the decoder has decoded exactly the blocks of the
\* current song before s_cur_block, through every seam of a loop, cached or
\* not, every stop, divider, move and skip, and every reload.
THEOREM StaysInStep ==
  ASSUME Undisturbed
  PROVE  Spec => []InStep
<1>1. Following => InStep
  BY DEF Following, Positioned, Sync, InStep, Quiet
<1> QED
  BY <1>1, AlwaysFollowing, PTL

\* ... a loop plays its own blocks ...
THEOREM LoopPlaysItself ==
  ASSUME Undisturbed
  PROVE  Spec => []LoopHeld
<1>1. Following => LoopHeld
  BY DEF Following, Looping, Placed, Cached, LoopHeld, Quiet
<1> QED
  BY <1>1, AlwaysFollowing, PTL

\* ... and the feed never comes to the refill with nothing to read.
THEOREM AlwaysBlocks ==
  ASSUME Undisturbed
  PROVE  Spec => []NeverStarved
<1>1. Good /\ Following => NeverStarved
  <2> SUFFICES ASSUME Good, Following, fp.at = "refill" PROVE RefillSize > 0
    BY DEF NeverStarved
  <2>1. mp.at <= 1
    BY DEF Following, Reloading, Good, TypeOK
  <2>2. cur < song.len
    BY <2>1 DEF Following, Positioned
  <2> QED
    BY <2>2, PlayFacts, Sizes DEF RefillSize, Remaining, Least
<1> QED
  BY <1>1, AlwaysGood, AlwaysFollowing, PTL

(***************************************************************************)
(* SkipHonoured.                                                           *)
(***************************************************************************)

\* The direction change_song was called with is that of the request it will
\* take back.
SkipTaken == fp.at = "change" /\ skip # 0 => fp.dir = skip

\* Every step keeps that.
LEMMA SkipStep ==
  ASSUME "change" \notin Windows, TypeOK, SkipTaken, [Next]_vars
  PROVE  SkipTaken'
<1>1. skip \in {-1, 0, 1}
  BY DEF TypeOK
<1>2. CASE fp' = fp /\ skip' = skip
  BY <1>2 DEF SkipTaken
<1>3. CASE fp'.at # "change"
  BY <1>3 DEF SkipTaken
<1>4. CASE NextSong
  BY <1>1, <1>4 DEF NextSong, Direction, SkipTaken, requests
<1>5. ASSUME NEW dir \in {1, -1}, Skip(dir) PROVE fp'.at # "change"
  BY <1>5 DEF Skip, UiMay
<1>6. CASE User
  BY <1>2, <1>3, <1>5, <1>6 DEF User, Press, MoveLoop, Release, ChangeDivider
<1>7. CASE Main
  BY <1>2, <1>7 DEF Main, Session, LoadStep, LoadBegins, requests
<1>8. CASE Feed
  <2>1. (fp' = fp /\ skip' = skip) \/ NextSong \/ fp'.at # "change"
    <3>1. CASE Silence
      BY <3>1 DEF Silence, vars, requests
    <3>2. CASE Enter \/ Request \/ Arm \/ Preload \/ ClearDirty \/ DropPrefetch
      BY <3>2 DEF Enter, Request, Arm, Preload, ClearDirty, DropPrefetch, Goto
    <3>3. CASE ServeLoop \/ NotCached \/ Wrap \/ PlayOn \/ PlayPrefetched \/ Tone
      <4>1. fp' \in {[at |-> "idle", dir |-> 1], [at |-> "seam", dir |-> 1],
                     [at |-> "refill", dir |-> 1]}
        BY <3>3, Zenon DEF ServeLoop, NotCached, Wrap, PlayOn, PlayPrefetched,
           DecodeFrom, Tone, Goto
      <4> QED
        BY <4>1
    <3>4. CASE \E ok \in ReadOutcomes : PreloadRead(ok) \/ Refill(ok)
      BY <3>4 DEF PreloadRead, Refill, DecodeFrom, Goto
    <3>5. CASE \E unread \in Unread : ChangeSong(unread)
      BY <3>5 DEF ChangeSong, Goto
    <3> QED
      BY <1>8, <3>1, <3>2, <3>3, <3>4, <3>5 DEF Feed
  <2> QED
    BY <2>1, <1>2, <1>3, <1>4
<1>9. CASE UNCHANGED vars
  BY <1>2, <1>9 DEF vars, requests
<1> QED
  BY <1>6, <1>7, <1>8, <1>9 DEF Next

\* Unless the UI thread comes in while change_song runs, a skip is taken back
\* only by a change of song in its direction: whatever fails, and wherever else
\* the three threads meet.
THEOREM SkipsHonoured ==
  ASSUME "change" \notin Windows
  PROVE  Spec => SkipHonoured
<1>1. Init => SkipTaken
  BY DEF Init, SkipTaken
<1>2. TypeOK /\ SkipTaken /\ [Next]_vars => SkipTaken'
  BY SkipStep
<1>3. TypeOK /\ SkipTaken /\ [Next]_vars
        => [skip # 0 /\ skip' = 0 => fp.at = "change" /\ fp.dir = skip]_vars
  <2> SUFFICES ASSUME TypeOK, SkipTaken, Next, skip # 0, skip' = 0
               PROVE  fp.at = "change" /\ fp.dir = skip
    OBVIOUS
  <2>1. fp.at = "change"
    <3>1. CASE User
      BY <3>1 DEF User, Press, MoveLoop, Release, ChangeDivider, Skip
    <3>2. CASE Main
      BY <3>2 DEF Main, Session, LoadStep, LoadBegins, requests
    <3>3. CASE Feed
      BY <3>3 DEF Feed, Silence, vars, requests, Enter, Request, Arm, Preload,
         PreloadRead, ClearDirty, DropPrefetch, ServeLoop, NotCached, Wrap, NextSong,
         PlayOn, ChangeSong, PlayPrefetched, Refill, Tone
    <3> QED
      BY <3>1, <3>2, <3>3 DEF Next
  <2> QED
    BY <2>1 DEF SkipTaken
<1> QED
  BY <1>1, <1>2, <1>3, FeedTyping, PTL DEF Spec, SkipHonoured

=============================================================================
