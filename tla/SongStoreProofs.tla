--------------------------- MODULE SongStoreProofs ---------------------------

(***************************************************************************)
(* What SongStore guarantees for every size of the card, every catalog,    *)
(* every set of songs and every run of the protocol.                       *)
(***************************************************************************)
EXTENDS SongStore, TLAPS, WellFoundedInduction

DiskOK ==
  /\ hdr \in Headers /\ cat \in Catalogs /\ data \in Contents
  /\ nand \in Cards

(***************************************************************************)
(* What one block write, one flush, one restart does to the card.          *)
(***************************************************************************)

\* A header write leaves the catalog and the data alone, and the header is the
\* new one or, rejected, the old one.
LEMMA HeaderWrite ==
  ASSUME DiskOK, NEW h \in Headers, NEW o, WriteHeader(h, o)
  PROVE  DiskOK' /\ cat' = cat /\ data' = data /\ hdr' \in {h, hdr}
BY DEF DiskOK, WriteHeader, Cards

\* A catalog write leaves the header and the data alone.
LEMMA CatalogWrite ==
  ASSUME DiskOK, NEW c \in Catalogs, NEW o, WriteCatalog(c, o)
  PROVE  DiskOK' /\ hdr' = hdr /\ data' = data
BY DEF DiskOK, WriteCatalog, Cards

\* A data write leaves the header and the catalog alone.
LEMMA DataWrite ==
  ASSUME DiskOK, NEW b, NEW s \in Names, NEW k \in Nat, NEW o, WriteData(b, s, k, o)
  PROVE  DiskOK' /\ hdr' = hdr /\ cat' = cat
BY DEF DiskOK, WriteData, Cards, Contents, Stamp

\* A flush changes nothing a read returns.
LEMMA CacheFlush ==
  ASSUME DiskOK, FlushCache
  PROVE  DiskOK' /\ hdr' = hdr /\ cat' = cat /\ data' = data
BY DEF DiskOK, FlushCache, AllBlocks, Cards

(***************************************************************************)
(* Types and bounds, whatever the host, the user and the card do.          *)
(***************************************************************************)

\* What the assumptions say of the sizes, in the form the steps use.
LEMMA ConstantFacts ==
  /\ MaxSongs \in Nat /\ MaxSongs > 0 /\ DataStart \in 0 .. Capacity
  /\ Capacity \in Nat /\ Word \in Nat /\ Word > 0
  /\ AudioSizes \subseteq Nat /\ LevelSizes \subseteq Nat
  /\ 0 \in Slots /\ Slots \subseteq Nat
BY SizesAssumption DEF Slots

\* The CHOOSE of the catalog scans: a set of indices has a smallest one.
LEMMA Smallest ==
  ASSUME NEW S \in SUBSET Nat, S # {}
  PROVE  (CHOOSE i \in S : \A j \in S : i <= j) \in S
<1> DEFINE less == OpToRel(<, Nat)
<1>1. less = {p \in Nat \X Nat : p[1] < p[2]}
  BY DEF OpToRel
<1>2. IsWellFoundedOn(less, Nat)
  BY NatLessThanWellFounded, Zenon
<1> HIDE DEF less
<1>3. PICK i \in S : \A j \in S : ~(<<j, i>> \in less)
  BY <1>2, WFMin, Zenon
<1>4. ASSUME NEW j \in S PROVE i <= j
  <2>1. i \in Nat /\ j \in Nat
    OBVIOUS
  <2>2. <<j, i>> \notin {p \in Nat \X Nat : p[1] < p[2]}
    BY <1>1, <1>3
  <2> QED BY <2>1, <2>2
<1> QED BY <1>4

\* The constant records have their types.
LEMMA FixedTypes ==
  /\ Free \in Entries /\ Formatted \in Headers
  /\ NoUpload \in Uploads /\ Closed \in Sessions /\ NoLocals \in Locals
  /\ EmptyPlaylist \in Playlists
  /\ ~NoUpload.active /\ ~NoUpload.begun /\ NoLocals.then = "idle" /\ ~Closed.open
<1>1. Free \in Entries
  BY ConstantFacts DEF Free, Entries, Names
<1> QED
  BY <1>1, ConstantFacts
  DEF Formatted, Headers, NoUpload, Uploads, Closed, Sessions, NoLocals, Locals,
      EmptyPlaylist, Playlists, Names

\* An answered command leaves no locals behind.
LEMMA AnswerTypes ==
  ASSUME Answer
  PROVE  pc' = "idle" /\ pc' \in Steps /\ loc' = NoLocals /\ loc' \in Locals
         /\ loc'.then = "idle"
BY FixedTypes DEF Answer, Steps

\* SONG_BEGIN starting keeps every type and bound.
LEMMA TypeSongBegin ==
  ASSUME TypeOK, Bounds, NEW s \in Songs, NEW audio \in AudioSizes,
         NEW level \in LevelSizes, SongBegin(s, audio, level)
  PROVE  TypeOK' /\ Bounds'
<1>1. loc' \in Locals /\ loc'.song = s /\ loc'.then = "begin"
  BY ConstantFacts, FixedTypes DEF SongBegin, Locals, Names
<1>2. pc' \in {"abort", "begin"}
  BY DEF SongBegin, BeginWith
<1>3. TypeOK'
  BY <1>1, <1>2 DEF TypeOK, SongBegin, disk, Steps
<1>4. Bounds'
  BY <1>1, <1>2 DEF Bounds, SongBegin, Receiving, disk
<1> QED BY <1>3, <1>4

\* A refused SONG_BEGIN keeps every type and bound.
LEMMA TypeBeginRejected ==
  ASSUME TypeOK, Bounds, BeginRejected
  PROVE  TypeOK' /\ Bounds'
BY AnswerTypes DEF TypeOK, Bounds, Receiving, BeginRejected, disk

\* Disk_add_song keeps every type and bound.
LEMMA TypeBeginAddSong ==
  ASSUME TypeOK, Bounds, NEW o, BeginAddSong(o)
  PROVE  TypeOK' /\ Bounds'
<1>1. ClaimSlot \in Slots /\ CountAfterClaim \in 0 .. MaxSongs
  <2>1. CASE Holes # {}
    <3>1. Holes \subseteq Slots /\ Holes \in SUBSET Nat
      BY ConstantFacts DEF Holes
    <3>2. ClaimSlot \in Holes
      BY <2>1, <3>1, Smallest DEF ClaimSlot
    <3> QED BY <2>1, <3>1, <3>2, ConstantFacts DEF CountAfterClaim, TypeOK, Headers
  <2>2. CASE Holes = {}
    BY <2>2, ConstantFacts
    DEF BeginAddSong, ClaimSlot, CountAfterClaim, TypeOK, Headers, Slots
  <2> QED BY <2>1, <2>2
<1>2. DiskOK' /\ hdr' = hdr
  <2> DEFINE entry == [name |-> loc.song, start |-> hdr.next, count |-> loc.audio]
  <2>1. entry \in Entries
    BY DEF TypeOK, Entries, Headers, Locals
  <2>2. [cat EXCEPT ![ClaimSlot] = entry] \in Catalogs
    BY <2>1 DEF TypeOK, Catalogs
  <2> QED BY <2>2, CatalogWrite DEF BeginAddSong, TypeOK, DiskOK
<1>3. place' \in Places
  BY DEF BeginAddSong, TypeOK, Places, Headers, Locals
<1>4. loc' \in Locals /\ pc' \in {"idle", "beginHdr"}
  <2>1. CASE o = "ok"
    BY <1>1, <2>1, ConstantFacts DEF BeginAddSong, TypeOK, Locals
  <2>2. CASE o # "ok"
    BY <2>2, AnswerTypes DEF BeginAddSong
  <2> QED BY <2>1, <2>2
<1>5. pc' = "beginHdr" =>
        /\ loc'.idx = ClaimSlot /\ loc'.then = loc.then /\ loc'.song = loc.song
        /\ loc'.audio = loc.audio /\ loc'.level = loc.level
  BY AnswerTypes DEF BeginAddSong, TypeOK, Locals
<1>6. pc' # "beginHdr" => loc'.then = "idle"
  BY AnswerTypes DEF BeginAddSong
<1>7. TypeOK'
  BY <1>2, <1>3, <1>4 DEF TypeOK, DiskOK, BeginAddSong, Steps
<1>8. Bounds'
  BY <1>1, <1>2, <1>4, <1>5, <1>6
  DEF Bounds, Receiving, BeginAddSong, BeginAccepted, TotalBlocks
<1> QED BY <1>7, <1>8

\* SONG_BEGIN's header write keeps every type and bound.
LEMMA TypeBeginWriteHeader ==
  ASSUME TypeOK, Bounds, NEW o, BeginWriteHeader(o)
  PROVE  TypeOK' /\ Bounds'
<1>1. DiskOK'
  <2>1. [hdr EXCEPT !.count = loc.count] \in Headers
    BY DEF TypeOK, Headers, Locals
  <2> QED BY <2>1, HeaderWrite DEF BeginWriteHeader, TypeOK, DiskOK
<1>2. TotalBlocks(loc.audio, loc.level) \in Nat
  BY ConstantFacts DEF TotalBlocks, TypeOK, Locals
<1>3. CASE o = "ok"
  <2>1. up' \in Uploads
    BY <1>2, <1>3 DEF BeginWriteHeader, TypeOK, Bounds, Uploads, Locals, Headers
  <2>2. /\ up'.start = hdr.next /\ up'.written = 0
        /\ up'.expected = TotalBlocks(loc.audio, loc.level)
        /\ up'.song = loc.song
    BY <1>3 DEF BeginWriteHeader
  <2>3. TypeOK'
    BY <1>1, <2>1, AnswerTypes DEF TypeOK, DiskOK, BeginWriteHeader
  <2>4. Bounds'
    BY <1>2, <2>2, AnswerTypes DEF Bounds, Receiving, BeginWriteHeader, BeginAccepted
  <2> QED BY <2>3, <2>4
<1>4. CASE o # "ok"
  BY <1>1, <1>4, AnswerTypes DEF TypeOK, DiskOK, BeginWriteHeader, Bounds, Receiving
<1> QED BY <1>3, <1>4

\* emmc_write_multi_end closes the session and leaves the upload's counts.
LEMMA SessionClosed ==
  ASSUME TypeOK, CloseSession
  PROVE  /\ DiskOK' /\ hdr' = hdr /\ cat' = cat /\ data' = data
         /\ card' \in Sessions /\ ~card'.open
         /\ up' \in Uploads /\ ~up'.begun
         /\ up'.active = up.active /\ up'.song = up.song /\ up'.idx = up.idx
         /\ up'.start = up.start /\ up'.expected = up.expected
         /\ up'.audio = up.audio /\ up'.written = up.written
<1>1. DiskOK' /\ hdr' = hdr /\ cat' = cat /\ data' = data
  BY CacheFlush DEF CloseSession, TypeOK, DiskOK
<1> QED
  BY <1>1, FixedTypes DEF CloseSession, TypeOK, Uploads, Closed

\* Upload_abort ending the session keeps every type and bound.
LEMMA TypeAbortSession ==
  ASSUME TypeOK, Bounds, AbortSession
  PROVE  TypeOK' /\ Bounds'
<1>1. CASE up.begun
  BY <1>1, SessionClosed DEF AbortSession, TypeOK, DiskOK, Bounds, Receiving, Steps
<1>2. CASE ~up.begun
  BY <1>2 DEF AbortSession, TypeOK, disk, Bounds, Receiving, Steps
<1> QED BY <1>1, <1>2

\* Upload_abort removing the entry keeps every type and bound.
LEMMA TypeAbortRemove ==
  ASSUME TypeOK, Bounds, NEW o, AbortRemove(o)
  PROVE  TypeOK' /\ Bounds'
<1>1. DiskOK'
  <2>1. AfterAbort \in Catalogs
    BY FixedTypes DEF AfterAbort, TypeOK, Catalogs
  <2> QED BY <2>1, CatalogWrite DEF AbortRemove, TypeOK, DiskOK
<1>2. /\ pc' \in {"idle", "begin", "format"} /\ loc' \in Locals
      /\ loc'.then = loc.then /\ pc' = loc.then
      /\ loc'.then = "begin" => loc'.song = loc.song
  BY FixedTypes DEF AbortRemove, Resume, TypeOK, Locals
<1>3. up' \in Uploads /\ ~up'.active
  BY FixedTypes DEF AbortRemove, NoUpload
<1>4. TypeOK'
  BY <1>1, <1>2, <1>3 DEF TypeOK, DiskOK, AbortRemove, Steps
<1>5. Bounds'
  BY <1>2, <1>3 DEF Bounds, Receiving
<1> QED BY <1>4, <1>5

\* A DTR drop keeps every type and bound.
LEMMA TypeDtrDrop ==
  ASSUME TypeOK, Bounds, DtrDrop
  PROVE  TypeOK' /\ Bounds'
BY DEF TypeOK, Bounds, Receiving, DtrDrop, disk, Steps

(***************************************************************************)
(* The receiving loop.                                                     *)
(***************************************************************************)

\* A session opened at an address, and the two ways g_upload changes with it.
LEMMA SessionOpened ==
  ASSUME NEW addr \in Nat, card' = OpenedAt(addr)
  PROVE  card' \in Sessions /\ card'.open /\ card'.pos = addr
BY DEF OpenedAt, Sessions

\* Opening a session changes begun and nothing else of g_upload,
LEMMA UploadOpened ==
  ASSUME up \in Uploads, up' = [up EXCEPT !.begun = TRUE]
  PROVE  /\ up' \in Uploads /\ up'.begun /\ up'.written = up.written
         /\ up'.active = up.active /\ up'.song = up.song
         /\ up'.start = up.start /\ up'.expected = up.expected
BY DEF Uploads

\* counting a block changes written only,
LEMMA BlockCounted ==
  ASSUME up \in Uploads, up' = [up EXCEPT !.written = @ + 1]
  PROVE  /\ up' \in Uploads /\ up'.begun = up.begun
         /\ up'.written = up.written + 1
         /\ up'.active = up.active /\ up'.song = up.song
         /\ up'.start = up.start /\ up'.expected = up.expected
BY DEF Uploads

\* and the recovery loop does both at once.
LEMMA BlockCountedOpen ==
  ASSUME up \in Uploads, up' = [up EXCEPT !.written = @ + 1, !.begun = TRUE]
  PROVE  /\ up' \in Uploads /\ up'.begun /\ up'.written = up.written + 1
         /\ up'.active = up.active /\ up'.song = up.song
         /\ up'.start = up.start /\ up'.expected = up.expected
<1>1. up.written + 1 \in Nat
  BY DEF Uploads
<1>2. DOMAIN up = {"active", "begun", "song", "idx", "start", "expected",
                   "audio", "written"}
  BY DEF Uploads
<1>3. /\ up'.written = up.written + 1 /\ up'.begun = TRUE
      /\ up'.active = up.active /\ up'.song = up.song /\ up'.idx = up.idx
      /\ up'.start = up.start /\ up'.expected = up.expected
      /\ up'.audio = up.audio
  BY <1>2
<1>4. up' \in Uploads
  BY <1>1 DEF Uploads
<1> QED BY <1>3, <1>4

\* The start of a batch keeps every type and bound.
LEMMA TypeSongMultiblock ==
  ASSUME TypeOK, Bounds, NEW n \in 1 .. Capacity, SongMultiblock(n)
  PROVE  TypeOK' /\ Bounds'
<1>1. /\ card' \in Sessions /\ up' \in Uploads
      /\ up'.active = up.active /\ up'.start = up.start /\ up'.song = up.song
      /\ up'.expected = up.expected /\ up'.written = up.written
  <2>1. CASE up.begun
    BY <2>1 DEF SongMultiblock, TypeOK
  <2>2. CASE ~up.begun
    <3>1. card' = OpenedAt(up.start) /\ up' = [up EXCEPT !.begun = TRUE]
      BY <2>2 DEF SongMultiblock, SessionStart
    <3>2. up.start \in Nat
      BY ConstantFacts DEF TypeOK, Uploads
    <3> QED BY <3>1, <3>2, SessionOpened, UploadOpened DEF TypeOK
  <2> QED BY <2>1, <2>2
<1>2. loc' \in Locals /\ loc'.left = n /\ n \in Nat /\ loc'.then = "idle"
  BY ConstantFacts, FixedTypes DEF SongMultiblock, Locals
<1>3. TypeOK'
  BY <1>1, <1>2 DEF TypeOK, SongMultiblock, disk, Steps
<1>4. Bounds'
  BY <1>1, <1>2 DEF Bounds, Receiving, SongMultiblock
<1> QED BY <1>3, <1>4

\* A host that stalls in a batch keeps every type and bound.
LEMMA TypeBatchTimeout ==
  ASSUME TypeOK, Bounds, BatchTimeout
  PROVE  TypeOK' /\ Bounds'
BY FixedTypes DEF TypeOK, Bounds, Receiving, BatchTimeout, disk, Steps

\* The batch goes on with one block less, or is answered.
LEMMA NextBlock ==
  ASSUME TypeOK, loc.left >= 1, BlockDone
  PROVE  /\ pc' \in {"idle", "batch"} /\ loc' \in Locals /\ loc'.then = "idle"
         /\ pc' = "batch" => loc.left > 1 /\ loc'.left = loc.left - 1
<1>1. CASE loc.left = 1
  BY <1>1, AnswerTypes DEF BlockDone, NoLocals
<1>2. CASE loc.left # 1
  <2>1. loc.left \in Nat /\ loc.left > 1
    BY <1>2 DEF TypeOK, Locals
  <2>2. loc' = [NoLocals EXCEPT !.left = loc.left - 1] /\ pc' = "batch"
    BY <1>2 DEF BlockDone
  <2>3. loc'.left = loc.left - 1 /\ loc'.then = "idle" /\ loc' \in Locals
    BY <2>1, <2>2, FixedTypes DEF NoLocals, Locals
  <2> QED BY <2>1, <2>2, <2>3
<1> QED BY <1>1, <1>2

\* A block sent through the session reaches data blocks only.
LEMMA StreamTypes ==
  ASSUME TypeOK, NEW o, StreamBlock(o)
  PROVE  /\ DiskOK' /\ hdr' = hdr /\ cat' = cat /\ card' \in Sessions
         /\ card'.open = card.open
<1>1. DiskOK' /\ hdr' = hdr /\ cat' = cat
  <2>1. up.song \in Names /\ up.written \in Nat
    BY DEF TypeOK, Uploads
  <2> QED BY <2>1, DataWrite DEF StreamBlock, TypeOK, DiskOK
<1> QED BY <1>1 DEF StreamBlock, TypeOK, Sessions

\* A block of a batch keeps every type and bound.
LEMMA TypeBatchBlock ==
  ASSUME TypeOK, Bounds, NEW o, BatchBlock(o)
  PROVE  TypeOK' /\ Bounds'
<1>1. DiskOK' /\ hdr' = hdr /\ cat' = cat /\ card' \in Sessions
  BY StreamTypes DEF BatchBlock
<1>2. up.active /\ loc.left >= 1 /\ up.written + loc.left <= up.expected
  BY DEF BatchBlock, Bounds, Receiving
<1>3. CASE o = "ok"
  <2>1. /\ up' \in Uploads /\ up'.written = up.written + 1
        /\ up'.active = up.active /\ up'.start = up.start
        /\ up'.expected = up.expected /\ up'.song = up.song
    BY <1>3, BlockCounted DEF BatchBlock, TypeOK
  <2>2. BlockDone
    BY <1>3 DEF BatchBlock
  <2>3. TypeOK'
    BY <1>1, <1>2, <2>1, <2>2, NextBlock DEF TypeOK, DiskOK, BatchBlock, Steps
  <2>4. Bounds'
    <3>1. up.written \in Nat /\ up.expected \in Nat /\ loc.left \in Nat
      BY DEF TypeOK, Uploads, Locals
    <3> QED BY <1>2, <2>1, <2>2, <3>1, NextBlock DEF Bounds, Receiving, Complete
  <2> QED BY <2>3, <2>4
<1>4. CASE o # "ok"
  <2>1. up' = up /\ pc' = "verify" /\ loc' = [loc EXCEPT !.attempt = 0]
    BY <1>4 DEF BatchBlock
  <2>2. /\ loc' \in Locals /\ loc'.left = loc.left
        /\ loc'.then = loc.then /\ loc'.song = loc.song
    BY <2>1 DEF TypeOK, Locals
  <2> QED
    BY <1>1, <1>2, <2>1, <2>2
    DEF TypeOK, DiskOK, BatchBlock, Steps, Bounds, Receiving
<1> QED BY <1>3, <1>4

\* A rewritten block keeps every type and bound.
LEMMA TypeRewriteBlock ==
  ASSUME TypeOK, Bounds, NEW o, RewriteBlock(o)
  PROVE  TypeOK' /\ Bounds'
<1>1. DiskOK' /\ hdr' = hdr /\ cat' = cat /\ card' \in Sessions
  BY StreamTypes DEF RewriteBlock
<1>2. up.active /\ loc.left >= 1 /\ up.written + loc.left <= up.expected
  BY DEF RewriteBlock, Bounds, Receiving
<1>3. CASE o = "ok"
  <2>1. /\ up' \in Uploads /\ up'.written = up.written + 1
        /\ up'.active = up.active /\ up'.start = up.start
        /\ up'.expected = up.expected /\ up'.song = up.song
    BY <1>3, BlockCounted DEF RewriteBlock, TypeOK
  <2>2. BlockDone
    BY <1>3 DEF RewriteBlock
  <2>3. TypeOK'
    BY <1>1, <1>2, <2>1, <2>2, NextBlock DEF TypeOK, DiskOK, RewriteBlock, Steps
  <2>4. Bounds'
    <3>1. up.written \in Nat /\ up.expected \in Nat /\ loc.left \in Nat
      BY DEF TypeOK, Uploads, Locals
    <3> QED BY <1>2, <2>1, <2>2, <3>1, NextBlock DEF Bounds, Receiving, Complete
  <2> QED BY <2>3, <2>4
<1>4. CASE o # "ok"
  <2>1. up' = up /\ pc' = "verify" /\ loc' = [loc EXCEPT !.attempt = NextAttempt]
    BY <1>4 DEF RewriteBlock
  <2>2. /\ loc' \in Locals /\ loc'.left = loc.left
        /\ loc'.then = loc.then /\ loc'.song = loc.song
    BY <2>1 DEF TypeOK, Locals, NextAttempt
  <2> QED
    BY <1>1, <1>2, <2>1, <2>2
    DEF TypeOK, DiskOK, RewriteBlock, Steps, Bounds, Receiving
<1> QED BY <1>3, <1>4

\* The session end before a verify keeps every type and bound.
LEMMA TypeEndBeforeVerify ==
  ASSUME TypeOK, Bounds, EndBeforeVerify
  PROVE  TypeOK' /\ Bounds'
BY SessionClosed DEF EndBeforeVerify, TypeOK, DiskOK, Bounds, Receiving

\* A block found good keeps every type and bound.
LEMMA TypeVerifyMatches ==
  ASSUME TypeOK, Bounds, VerifyMatches
  PROVE  TypeOK' /\ Bounds'
<1>1. /\ up.active /\ loc.left >= 1 /\ up.written + loc.left <= up.expected
      /\ up.written \in Nat /\ up.expected \in Nat /\ loc.left \in Nat
      /\ ReopenAt \in Nat
  BY DEF VerifyMatches, Bounds, Receiving, TypeOK, Uploads, Locals, ReopenAt, FailedBlock
<1>2. /\ up' \in Uploads /\ card' \in Sessions
      /\ up'.written = up.written + 1 /\ up'.active = up.active
      /\ up'.start = up.start /\ up'.expected = up.expected
      /\ up'.song = up.song
  <2>1. CASE up' = [up EXCEPT !.written = @ + 1] /\ card' = card
    BY <2>1, BlockCounted DEF TypeOK
  <2>2. CASE /\ up' = [up EXCEPT !.written = @ + 1, !.begun = TRUE]
             /\ card' = OpenedAt(ReopenAt)
    BY <1>1, <2>2, SessionOpened, BlockCountedOpen DEF TypeOK
  <2> QED BY <2>1, <2>2 DEF VerifyMatches
<1>3. DiskOK' /\ hdr' = hdr /\ pl' = pl /\ place' = place /\ acked' = acked
  BY DEF VerifyMatches, disk, DiskOK, TypeOK
<1>4. CASE BlockDone
  BY <1>1, <1>2, <1>3, <1>4, NextBlock
  DEF TypeOK, DiskOK, Steps, Bounds, Receiving
<1>5. CASE pc' = "abort" /\ loc' = NoLocals
  BY <1>1, <1>2, <1>3, <1>5, FixedTypes
  DEF TypeOK, DiskOK, Steps, Bounds, Receiving
<1> QED BY <1>4, <1>5 DEF VerifyMatches

\* A block found bad keeps every type and bound.
LEMMA TypeVerifyFails ==
  ASSUME TypeOK, Bounds, VerifyFails
  PROVE  TypeOK' /\ Bounds'
<1>1. FailedBlock \in Nat /\ up.active
  BY DEF VerifyFails, Bounds, Receiving, TypeOK, Uploads, FailedBlock
<1>2. CASE pc' = "abort" /\ loc' = NoLocals /\ UNCHANGED <<card, up>>
  BY <1>1, <1>2, FixedTypes
  DEF VerifyFails, disk, TypeOK, Steps, Bounds, Receiving
<1>3. CASE /\ card' = OpenedAt(FailedBlock) /\ up' = [up EXCEPT !.begun = TRUE]
           /\ pc' = "rewrite" /\ UNCHANGED loc
  <2>1. /\ card' \in Sessions /\ up' \in Uploads
        /\ up'.active = up.active /\ up'.start = up.start /\ up'.song = up.song
        /\ up'.expected = up.expected /\ up'.written = up.written
    BY <1>1, <1>3, SessionOpened, UploadOpened DEF TypeOK
  <2> QED
    BY <1>3, <2>1 DEF VerifyFails, disk, TypeOK, Steps, Bounds, Receiving
<1> QED BY <1>2, <1>3 DEF VerifyFails

\* SONG_BLOCK keeps every type and bound.
LEMMA TypeSongBlock ==
  ASSUME TypeOK, Bounds, NEW o, SongBlock(o)
  PROVE  TypeOK' /\ Bounds'
<1>1. up.song \in Names /\ up.written \in Nat /\ up.expected \in Nat
  BY DEF TypeOK, Uploads
<1>2. DiskOK' /\ hdr' = hdr
  BY <1>1, DataWrite DEF SongBlock, TypeOK, DiskOK
<1>3. /\ up' \in Uploads /\ up'.active = up.active /\ up'.start = up.start
      /\ up'.expected = up.expected /\ up'.written \in {up.written, up.written + 1}
      /\ up'.song = up.song
  BY BlockCounted DEF SongBlock, TypeOK
<1> QED
  BY <1>1, <1>2, <1>3 DEF SongBlock, TypeOK, DiskOK, Bounds, Receiving

(***************************************************************************)
(* The other commands.                                                     *)
(***************************************************************************)

\* SONG_COMMIT starting keeps every type and bound.
LEMMA TypeSongCommit ==
  ASSUME TypeOK, Bounds, SongCommit
  PROVE  TypeOK' /\ Bounds'
<1>1. CASE up.begun
  BY <1>1, SessionClosed
  DEF SongCommit, TypeOK, DiskOK, Bounds, Receiving, Complete, Steps
<1>2. CASE ~up.begun
  BY <1>2 DEF SongCommit, TypeOK, disk, Bounds, Receiving, Complete, Steps
<1> QED BY <1>1, <1>2

\* SONG_COMMIT's catalog write keeps every type and bound.
LEMMA TypeCommitCatalog ==
  ASSUME TypeOK, Bounds, NEW o, CommitCatalog(o)
  PROVE  TypeOK' /\ Bounds'
<1>1. DiskOK'
  <2>1. [cat EXCEPT ![up.idx].count = up.audio] \in Catalogs
    BY DEF TypeOK, Catalogs, Entries, Uploads
  <2> QED BY <2>1, CatalogWrite DEF CommitCatalog, TypeOK, DiskOK
<1>2. /\ pc' \in {"idle", "commitHdr"} /\ loc' \in Locals
      /\ loc' = loc \/ loc'.then = "idle"
  BY AnswerTypes DEF CommitCatalog, TypeOK
<1> QED
  BY <1>1, <1>2 DEF CommitCatalog, TypeOK, DiskOK, Steps, Bounds, Receiving, Complete

\* A commit that cannot read the header keeps every type and bound.
LEMMA TypeCommitUnread ==
  ASSUME TypeOK, Bounds, CommitUnread
  PROVE  TypeOK' /\ Bounds'
BY AnswerTypes DEF CommitUnread, disk, TypeOK, Bounds, Receiving

\* SONG_COMMIT's header write keeps every type and bound.
LEMMA TypeCommitHeader ==
  ASSUME TypeOK, Bounds, NEW o, CommitHeader(o)
  PROVE  TypeOK' /\ Bounds'
<1>1. DiskOK'
  <2>1. NextFree \in 0 .. Capacity
    BY ConstantFacts DEF NextFree, CommitHeader, Bounds, Complete, TypeOK, Uploads
  <2>2. [hdr EXCEPT !.next = NextFree] \in Headers
    BY <2>1 DEF TypeOK, Headers
  <2> QED BY <2>2, HeaderWrite DEF CommitHeader, TypeOK, DiskOK
<1>2. pl' \in Playlists /\ acked' \subseteq Songs
  <2>1. CASE o = "ok"
    <3>1. pl' = [n |-> hdr.count, cur |-> up.idx, start |-> up.start, count |-> up.audio,
                 early |-> FALSE]
      BY <2>1 DEF CommitHeader
    <3>2. acked' \subseteq Songs
      BY <2>1 DEF CommitHeader, TypeOK, Bounds
    <3> QED BY <3>1, <3>2 DEF TypeOK, Headers, Uploads, Playlists
  <2>2. CASE o # "ok"
    BY <2>2 DEF CommitHeader, TypeOK
  <2> QED BY <2>1, <2>2
<1>3. up' \in Uploads /\ ~up'.active
  BY FixedTypes DEF CommitHeader, NoUpload
<1> QED
  BY <1>1, <1>2, <1>3, AnswerTypes
  DEF CommitHeader, TypeOK, DiskOK, Bounds, Receiving

\* SONG_REMOVE starting keeps every type and bound.
LEMMA TypeSongRemove ==
  ASSUME TypeOK, Bounds, NEW i \in Slots, SongRemove(i)
  PROVE  TypeOK' /\ Bounds'
<1>1. loc' \in Locals /\ loc'.then = "idle"
  BY ConstantFacts, FixedTypes DEF SongRemove, Locals
<1> QED
  BY <1>1 DEF SongRemove, disk, TypeOK, Steps, Bounds, Receiving

\* A command that only reads, and a removal the card refuses, keep every type
\* and bound.
LEMMA TypeNoWrite ==
  ASSUME TypeOK, Bounds, HostRead \/ HostReadDone \/ RemoveRefused
  PROVE  TypeOK' /\ Bounds'
<1>1. CASE HostRead
  BY <1>1 DEF HostRead, disk, TypeOK, Steps, Bounds, Receiving
<1>2. CASE HostReadDone \/ RemoveRefused
  BY <1>2, AnswerTypes DEF HostReadDone, RemoveRefused, disk, TypeOK, Bounds, Receiving
<1> QED BY <1>1, <1>2

\* SONG_REMOVE's write keeps every type and bound.
LEMMA TypeRemoveEntry ==
  ASSUME TypeOK, Bounds, NEW o, RemoveEntry(o)
  PROVE  TypeOK' /\ Bounds'
<1>1. DiskOK'
  <2>1. [cat EXCEPT ![loc.idx] = Free] \in Catalogs
    BY FixedTypes DEF TypeOK, Catalogs
  <2> QED BY <2>1, CatalogWrite DEF RemoveEntry, TypeOK, DiskOK
<1> QED
  BY <1>1, AnswerTypes DEF RemoveEntry, TypeOK, DiskOK, Bounds, Receiving

\* SONG_SWAP's first write keeps every type and bound.
LEMMA TypeSongSwap ==
  ASSUME TypeOK, Bounds, NEW i \in Slots, NEW j \in Slots, NEW o, SongSwap(i, j, o)
  PROVE  TypeOK' /\ Bounds'
<1>1. DiskOK'
  <2>1. [cat EXCEPT ![i] = cat[j]] \in Catalogs
    BY DEF TypeOK, Catalogs
  <2> QED BY <2>1, CatalogWrite DEF SongSwap, TypeOK, DiskOK
<1>2. /\ pc' \in {"idle", "swap"} /\ loc' \in Locals
      /\ loc' = loc \/ loc'.then = "idle"
  <2>1. CASE o = "ok"
    <3>1. cat[i] \in Entries /\ i \in Nat
      BY ConstantFacts DEF TypeOK, Catalogs
    <3>2. loc' = [NoLocals EXCEPT !.idx = i, !.other = j, !.saved = cat[i]]
      BY <2>1 DEF SongSwap
    <3>3. loc' \in Locals /\ loc'.then = "idle"
      BY <3>1, <3>2, FixedTypes DEF Locals
    <3> QED BY <2>1, <3>3 DEF SongSwap
  <2>2. CASE o # "ok"
    BY <2>2 DEF SongSwap, TypeOK
  <2> QED BY <2>1, <2>2
<1> QED
  BY <1>1, <1>2 DEF SongSwap, TypeOK, DiskOK, Steps, Bounds, Receiving

\* SONG_SWAP's second write keeps every type and bound.
LEMMA TypeSwapSecond ==
  ASSUME TypeOK, Bounds, NEW o, SwapSecond(o)
  PROVE  TypeOK' /\ Bounds'
<1>1. DiskOK'
  <2>1. [cat EXCEPT ![loc.other] = SwapEntry] \in Catalogs
    BY DEF TypeOK, Catalogs, Locals, SwapEntry
  <2> QED BY <2>1, CatalogWrite DEF SwapSecond, TypeOK, DiskOK
<1>2. /\ pc' \in {"idle", "swapBack"} /\ loc' \in Locals
      /\ loc' = loc \/ loc'.then = "idle"
  BY AnswerTypes DEF SwapSecond, TypeOK
<1> QED
  BY <1>1, <1>2 DEF SwapSecond, TypeOK, DiskOK, Steps, Bounds, Receiving

\* SONG_SWAP's rollback keeps every type and bound.
LEMMA TypeSwapBack ==
  ASSUME TypeOK, Bounds, NEW o, SwapBack(o)
  PROVE  TypeOK' /\ Bounds'
<1>1. DiskOK'
  <2>1. [cat EXCEPT ![loc.idx] = loc.saved] \in Catalogs
    BY DEF TypeOK, Catalogs, Locals
  <2> QED BY <2>1, CatalogWrite DEF SwapBack, TypeOK, DiskOK
<1> QED
  BY <1>1, AnswerTypes DEF SwapBack, TypeOK, DiskOK, Bounds, Receiving

\* DISK_FORMAT starting keeps every type and bound.
LEMMA TypeDiskFormat ==
  ASSUME TypeOK, Bounds, DiskFormat
  PROVE  TypeOK' /\ Bounds'
<1>1. loc' \in Locals /\ loc'.then = "format" /\ pc' \in {"abort", "format"}
  BY FixedTypes DEF DiskFormat, Locals
<1> QED
  BY <1>1 DEF DiskFormat, disk, TypeOK, Steps, Bounds, Receiving

\* DISK_FORMAT's header write keeps every type and bound.
LEMMA TypeFormatHeader ==
  ASSUME TypeOK, Bounds, NEW o, FormatHeader(o)
  PROVE  TypeOK' /\ Bounds'
<1>1. DiskOK'
  BY FixedTypes, HeaderWrite DEF FormatHeader, TypeOK, DiskOK
<1>2. pc' \in {"idle", "formatCat"} /\ loc' \in Locals /\ loc'.then = "idle"
  BY FixedTypes, AnswerTypes DEF FormatHeader
<1> QED
  BY <1>1, <1>2 DEF FormatHeader, TypeOK, DiskOK, Steps, Bounds, Receiving

\* Each zeroed catalog block keeps every type and bound.
LEMMA TypeFormatCatalog ==
  ASSUME TypeOK, Bounds, NEW o, FormatCatalog(o)
  PROVE  TypeOK' /\ Bounds'
<1>1. DiskOK'
  <2> DEFINE zeroed == [i \in Slots |-> IF CatBlock(i) = loc.idx THEN Free ELSE cat[i]]
  <2>1. zeroed \in Catalogs
    BY FixedTypes DEF TypeOK, Catalogs
  <2> QED BY <2>1, CatalogWrite DEF FormatCatalog, TypeOK, DiskOK
<1>2. /\ pc' \in {"idle", pc} /\ loc' \in Locals
      /\ loc'.then \in {"idle", loc.then} /\ loc'.song \in {NoLocals.song, loc.song}
  <2>1. CASE Answer
    BY <2>1, AnswerTypes
  <2>2. CASE ~Answer
    <3>1. loc' = [loc EXCEPT !.idx = @ + 1] /\ pc' = pc
      BY <2>2 DEF FormatCatalog
    <3> QED BY <3>1 DEF TypeOK, Locals
  <2> QED BY <2>1, <2>2
<1>3. pl' \in Playlists
  BY FixedTypes DEF FormatCatalog, FormattedPlaylist, TypeOK
<1>4. loc'.then = "begin" => loc'.song = loc.song
  BY AnswerTypes DEF FormatCatalog, TypeOK, Locals
<1> QED
  BY <1>1, <1>2, <1>3, <1>4
  DEF FormatCatalog, TypeOK, DiskOK, Steps, Bounds, Receiving

(***************************************************************************)
(* The readers of the catalog, and the restarts.                           *)
(***************************************************************************)

\* The index arithmetic of change_song stays in the playlist.
LEMMA RemainderInRange ==
  ASSUME NEW a \in Int, NEW n \in Nat, n > 0
  PROVE  a % n \in 0 .. (n - 1)
OBVIOUS

\* change_song stays inside the playlist and takes an entry it can play.
LEMMA SongFound ==
  ASSUME TypeOK, NEW dir \in {1, -1}, NEW unread, ChangeSong(dir, unread)
  PROVE  \E i \in Slots :
           /\ i < pl.n /\ Playable(cat[i])
           /\ pl' = [pl EXCEPT !.cur = i, !.start = cat[i].start,
                               !.count = cat[i].count, !.early = Pending(i)]
<1> DEFINE i == SongAt(dir, Nearest(dir, unread))
<1>1. pl.n \in 1 .. MaxSongs /\ pl.cur \in Nat /\ MaxSongs \in Nat
  BY ConstantFacts DEF ChangeSong, TypeOK, Playlists
<1>2. Nearest(dir, unread) \in Found(dir, unread)
  <2>1. Found(dir, unread) \in SUBSET Nat /\ Found(dir, unread) # {}
    BY <1>1 DEF ChangeSong, Found
  <2> QED BY <2>1, Smallest DEF Nearest
<1>3. Nearest(dir, unread) \in 1 .. pl.n /\ Playable(cat[i])
  BY <1>2 DEF Found
<1>4. i \in 0 .. (pl.n - 1)
  <2>1. pl.cur + dir * Nearest(dir, unread) \in Int
    BY <1>1, <1>3
  <2> QED BY <1>1, <2>1, RemainderInRange DEF SongAt
<1>5. pl' = [pl EXCEPT !.cur = i, !.start = cat[i].start, !.count = cat[i].count,
                       !.early = Pending(i)]
  BY DEF ChangeSong
<1> HIDE DEF i
<1>6. i \in Slots /\ i < pl.n
  BY <1>1, <1>4 DEF Slots
<1> QED BY <1>3, <1>5, <1>6

\* A skip keeps every type and bound.
LEMMA TypeChangeSong ==
  ASSUME TypeOK, Bounds, NEW dir \in {1, -1}, NEW unread, ChangeSong(dir, unread)
  PROVE  TypeOK' /\ Bounds'
<1>1. PICK i \in Slots :
        pl' = [pl EXCEPT !.cur = i, !.start = cat[i].start, !.count = cat[i].count,
                         !.early = Pending(i)]
  BY SongFound
<1>2. pl' \in Playlists
  <2>1. Pending(i) \in BOOLEAN
    BY DEF Pending, TypeOK, Uploads
  <2> QED BY <1>1, <2>1 DEF TypeOK, Playlists, Catalogs, Entries
<1> QED
  BY <1>2 DEF ChangeSong, disk, TypeOK, Bounds, Receiving, Complete,
     BeginAccepted, TotalBlocks

\* The boot scan arms a song of the catalog, or nothing.
LEMMA BootTypes ==
  ASSUME NEW h \in Headers, NEW c \in Catalogs, NEW unread
  PROVE  BootScan(h, c, unread) \in Playlists
<1> DEFINE valid == {i \in Slots \ unread : i < h.count /\ Playable(c[i])}
           first == CHOOSE i \in valid : \A j \in valid : i <= j
<1>1. CASE ~h.valid \/ valid = {}
  BY <1>1, FixedTypes DEF BootScan
<1>2. CASE h.valid /\ valid # {}
  <2>1. valid \in SUBSET Nat /\ valid \subseteq Slots
    BY ConstantFacts
  <2>2. first \in valid
    <3> HIDE DEF valid
    <3> QED BY <1>2, <2>1, Smallest
  <2>3. c[first] \in Entries /\ first \in Slots
    BY <2>1, <2>2 DEF Catalogs
  <2>4. BootScan(h, c, unread) =
          [n |-> h.count, cur |-> first, start |-> c[first].start, count |-> c[first].count,
           early |-> FALSE]
    BY <1>2 DEF BootScan
  <2> HIDE DEF first, valid
  <2> QED BY <2>3, <2>4 DEF Headers, Entries, Playlists
<1> QED BY <1>1, <1>2

\* A boot starts from typed state whatever the card holds.
LEMMA TypeRestart ==
  ASSUME TypeOK, NEW unread, Restart(unread), DiskOK'
  PROVE  TypeOK' /\ Bounds'
<1>1. pl' \in Playlists
  BY BootTypes DEF Restart, DiskOK
<1> QED
  BY <1>1, FixedTypes, AnswerTypes DEF Restart, TypeOK, DiskOK, Bounds, Receiving

\* A power cycle keeps every type and bound.
LEMMA TypePowerCycle ==
  ASSUME TypeOK, Bounds, NEW unread, PowerCycle(unread)
  PROVE  TypeOK' /\ Bounds'
<1>1. DiskOK'
  BY DEF PowerCycle, AllBlocks, Cards, TypeOK, DiskOK
<1> QED BY <1>1, TypeRestart DEF PowerCycle

\* A reset keeps every type and bound.
LEMMA TypeCrash ==
  ASSUME TypeOK, Bounds, NEW unread, Crash(unread)
  PROVE  TypeOK' /\ Bounds'
<1>1. hdr' \in Headers /\ cat' \in Catalogs /\ data' \in Contents
  BY DEF Crash, TypeOK, Cards, Catalogs, Contents
<1>2. DiskOK'
  BY <1>1 DEF Crash, DiskOK, Cards
<1> QED BY <1>2, TypeRestart DEF Crash

\* A blank card and a formatted one are typed and within bounds.
LEMMA TypeInit == Init => TypeOK /\ Bounds
<1> SUFFICES ASSUME Init PROVE TypeOK /\ Bounds
  OBVIOUS
<1>1. hdr \in Headers /\ cat \in Catalogs /\ data \in Contents
  <2>1. hdr \in Headers
    <3>1. [valid |-> FALSE, count |-> 0, next |-> 0] \in Headers
      BY ConstantFacts DEF Headers
    <3> QED BY <3>1, FixedTypes DEF Init
  <2>2. Blank \in [song : Names, off : Nat]
    BY DEF Blank, Names
  <2> QED BY <2>1, <2>2, FixedTypes DEF Init, Catalogs, Contents
<1>2. place \in Places
  BY ConstantFacts DEF Init, NoPlace, Places
<1> QED
  BY <1>1, <1>2, FixedTypes
  DEF Init, AllBlocks, Cards, TypeOK, Steps, Bounds, Receiving

\* No step leaves the types or the bounds.
LEMMA TypeStep == TypeOK /\ Bounds /\ [Next]_vars => TypeOK' /\ Bounds'
<1> SUFFICES ASSUME TypeOK, Bounds, [Next]_vars PROVE TypeOK' /\ Bounds'
  OBVIOUS
<1>1. CASE Command
  BY <1>1, TypeSongBegin, TypeSongMultiblock, TypeSongBlock, TypeSongCommit,
     TypeSongRemove, TypeNoWrite, TypeSongSwap, TypeDiskFormat, TypeDtrDrop
  DEF Command
<1>2. CASE Handler
  BY <1>2, TypeBeginRejected, TypeAbortSession, TypeCommitUnread,
     TypeEndBeforeVerify, TypeVerifyMatches, TypeVerifyFails, TypeBatchTimeout,
     TypeBeginAddSong, TypeBeginWriteHeader, TypeAbortRemove, TypeBatchBlock,
     TypeRewriteBlock, TypeCommitCatalog, TypeCommitHeader, TypeRemoveEntry,
     TypeSwapSecond, TypeSwapBack, TypeFormatHeader, TypeFormatCatalog, TypeNoWrite
  DEF Handler
<1>3. CASE Environment
  BY <1>3, TypeChangeSong, TypePowerCycle, TypeCrash DEF Environment
<1>4. CASE UNCHANGED vars
  BY <1>4 DEF vars, TypeOK, Bounds, Receiving, Complete, BeginAccepted, TotalBlocks
<1> QED BY <1>1, <1>2, <1>3, <1>4 DEF Next

\* The inductive invariant of Typing.
LEMMA TypesAndBounds == Spec => [](TypeOK /\ Bounds)
BY TypeInit, TypeStep, PTL DEF Spec

\* TypeOK holds whatever the host, the user, the card and the power supply do:
\* no catalog index, block address or count leaves its range.
THEOREM Typing == Spec => []TypeOK
BY TypesAndBounds, PTL

(***************************************************************************)
(* What is acknowledged stays: a card without a write cache, a host that   *)
(* does not mix SONG_BLOCK and SONG_MULTIBLOCK in one upload.              *)
(***************************************************************************)

Plain == "cache" \notin Faults /\ "mixed" \notin Commands

Synced == nand = AllBlocks

\* The fields of g_upload the invariants look at.
SameUpload ==
  /\ up'.active = up.active /\ up'.song = up.song /\ up'.start = up.start
  /\ up'.expected = up.expected /\ up'.written = up.written

\* With no cache a write reaches both what is read and what survives.
LEMMA SyncedHeader ==
  ASSUME Plain, TypeOK, Synced, NEW h, NEW o, WriteHeader(h, o)
  PROVE  Synced'
BY DEF Plain, TypeOK, Cards, Synced, WriteHeader, Cached, AllBlocks

\* The same of a catalog block,
LEMMA SyncedCatalog ==
  ASSUME Plain, TypeOK, Synced, NEW c, NEW o, WriteCatalog(c, o)
  PROVE  Synced'
BY DEF Plain, TypeOK, Cards, Synced, WriteCatalog, Cached, AllBlocks

\* of a data block,
LEMMA SyncedData ==
  ASSUME Plain, TypeOK, Synced, NEW b, NEW s, NEW k, NEW o, WriteData(b, s, k, o)
  PROVE  Synced'
BY DEF Plain, TypeOK, Cards, Synced, WriteData, Cached, AllBlocks

\* of a flush
LEMMA SyncedFlush ==
  ASSUME Synced, FlushCache
  PROVE  Synced'
BY DEF Synced, FlushCache, AllBlocks

\* and of a step that writes nothing.
LEMMA SyncedDisk ==
  ASSUME Synced, UNCHANGED disk
  PROVE  Synced'
BY DEF Synced, disk, AllBlocks

\* A step that writes no data block, frees no block and counts none.
LEMMA Frame ==
  ASSUME UploadInv, AckedInv, hdr'.next = hdr.next, data' = data, place' = place,
         acked' \subseteq acked, ~up'.active \/ SameUpload
  PROVE  UploadInv' /\ AckedInv'
<1>1. AckedInv'
  BY DEF AckedInv, AckedIntact, Len, Holds
<1>2. UploadInv'
  BY DEF UploadInv, SameUpload, Len, Holds
<1> QED BY <1>1, <1>2

\* A step that leaves the BEGIN and FORMAT steps behind.
LEMMA NoBegin ==
  ASSUME loc'.then # "begin", pc' \notin {"begin", "beginHdr", "format"}
  PROVE  BeginInv'
BY DEF BeginInv

\* A block of the upload written where it belongs, and counted if it landed:
\* everything acknowledged lies before the upload.
LEMMA BlockWritten ==
  ASSUME Good, Plain, up.active, up.written < up.expected, NEW o,
         WriteData(up.start + up.written, up.song, up.written, o),
         UNCHANGED <<place, acked>>,
         \/ SameUpload
         \/ /\ o = "ok"
            /\ up'.active = up.active /\ up'.song = up.song /\ up'.start = up.start
            /\ up'.expected = up.expected /\ up'.written = up.written + 1
  PROVE  Synced' /\ UploadInv' /\ AckedInv'
<1> DEFINE b == up.start + up.written
<1>1. /\ up.start \in Nat /\ up.written \in Nat /\ up.expected \in Nat
      /\ Capacity \in Nat /\ DataStart \in Nat
      /\ b \in DataBlocks
  BY ConstantFacts DEF Good, TypeOK, Bounds, Uploads, DataBlocks
<1>2. Synced'
  BY SyncedData DEF Good, Inv, Synced
<1>3. hdr' = hdr /\ \A x \in DataBlocks : x # b => data'[x] = data[x]
  BY DEF WriteData, Good, TypeOK, Contents
<1>4. o = "ok" => data'[b] = Stamp(up.song, up.written)
  BY <1>1 DEF WriteData, Landed, Good, TypeOK, Contents
<1>5. AckedInv'
  <2>1. ASSUME NEW s \in acked, NEW k \in 0 .. (Len(s) - 1)
        PROVE  Holds(place[s].start + k, s, k)'
    <3>1. /\ place[s].start \in Nat /\ Len(s) \in Nat
          /\ place[s].start + Len(s) <= up.start
          /\ Holds(place[s].start + k, s, k)
      BY DEF Good, Inv, AckedInv, AckedIntact, UploadInv, TypeOK, Places, Len
    <3>2. place[s].start + k # b
      BY <1>1, <3>1
    <3> QED BY <1>3, <3>1, <3>2 DEF Holds
  <2>2. \A s \in acked : place[s].audio > 0 /\ place[s].start + Len(s) <= hdr.next
    BY DEF Good, Inv, AckedInv
  <2> QED BY <1>3, <2>1, <2>2 DEF AckedInv, AckedIntact, Len
<1>6. UploadInv'
  <2>1. /\ up.song \notin acked /\ up.start = hdr.next
        /\ place[up.song].start = up.start /\ place[up.song].audio > 0
        /\ Len(up.song) = up.expected
        /\ \A k \in 0 .. (up.written - 1) : Holds(up.start + k, up.song, k)
    BY DEF Good, Inv, UploadInv
  <2>2. ASSUME NEW k \in 0 .. (up.written - 1)
        PROVE  up.start + k \in DataBlocks /\ data'[up.start + k] = Stamp(up.song, k)
    BY <1>1, <1>3, <2>1 DEF Holds
  <2>3. o = "ok" => b \in DataBlocks /\ data'[b] = Stamp(up.song, up.written)
    BY <1>1, <1>4
  <2>4. CASE SameUpload
    BY <1>3, <2>1, <2>2, <2>4 DEF UploadInv, SameUpload, Len, Holds
  <2>5. CASE /\ o = "ok" /\ up'.active = up.active /\ up'.song = up.song
             /\ up'.start = up.start /\ up'.expected = up.expected
             /\ up'.written = up.written + 1
    <3>1. \A k \in 0 .. up.written :
            up.start + k \in DataBlocks /\ data'[up.start + k] = Stamp(up.song, k)
      BY <1>1, <2>1, <2>2, <2>3, <2>5 DEF Holds
    <3> QED BY <1>1, <1>3, <2>1, <2>5, <3>1 DEF UploadInv, Len, Holds
  <2> QED BY <2>4, <2>5
<1> QED BY <1>2, <1>5, <1>6

\* SONG_BEGIN starting keeps the invariant.
LEMMA KeepSongBegin ==
  ASSUME Plain, Good, NEW s \in Songs, NEW audio \in AudioSizes,
         NEW level \in LevelSizes, SongBegin(s, audio, level)
  PROVE  Inv'
<1>1. Synced' /\ UploadInv' /\ AckedInv'
  BY Frame, SyncedDisk DEF Good, Inv, Synced, SongBegin, disk, SameUpload
<1>2. /\ pc' \in {"abort", "begin"}
      /\ pc' = "begin" => ~up.active
      /\ loc'.then = "begin" /\ loc'.song = s
      /\ loc'.audio = audio /\ loc'.level = level
  BY DEF SongBegin, BeginWith, NoLocals
<1>3. s \notin acked
  BY DEF Good, Inv, AckedInv, SongBegin, Used
<1>4. BeginInv'
  BY <1>2, <1>3, SizesAssumption DEF BeginInv, SongBegin
<1>5. SessionInv'
  BY <1>2 DEF Good, Inv, SessionInv, SongBegin, SingleBlockSteps, Unguarded
<1> QED BY <1>1, <1>4, <1>5 DEF Inv, Synced

\* A refused SONG_BEGIN keeps the invariant.
LEMMA KeepBeginRejected ==
  ASSUME Plain, Good, BeginRejected
  PROVE  Inv'
<1>1. Synced' /\ UploadInv' /\ AckedInv'
  BY Frame, SyncedDisk DEF Good, Inv, Synced, BeginRejected, disk, SameUpload
<1>2. BeginInv'
  BY NoBegin, AnswerTypes DEF BeginRejected
<1>3. SessionInv'
  BY AnswerTypes DEF BeginRejected, Good, Inv, BeginInv, SessionInv, SingleBlockSteps, Unguarded
<1> QED BY <1>1, <1>2, <1>3 DEF Inv, Synced

\* disk_add_song gives the new song its place past everything acknowledged.
LEMMA KeepBeginAddSong ==
  ASSUME Plain, Good, NEW o, BeginAddSong(o)
  PROVE  Inv'
<1>1. loc.then = "begin" /\ loc.song \in Songs /\ loc.song \notin acked /\ ~up.active
  BY DEF BeginAddSong, Good, Bounds, Inv, BeginInv
<1>2. PICK c : WriteCatalog(c, o)
  BY DEF BeginAddSong
<1>3. Synced' /\ hdr' = hdr /\ data' = data
  BY <1>2, SyncedCatalog DEF Good, Inv, Synced, WriteCatalog
<1>4. /\ place'[loc.song] = [start |-> hdr.next, audio |-> loc.audio, level |-> loc.level]
      /\ \A s \in Songs : s # loc.song => place'[s] = place[s]
  BY <1>1 DEF BeginAddSong, Good, TypeOK, Places
<1>5. AckedInv'
  <2>1. acked' = acked /\ acked \subseteq Songs
    BY DEF BeginAddSong, Good, TypeOK
  <2>2. \A s \in acked : place'[s] = place[s]
    BY <1>1, <1>4, <2>1
  <2> QED BY <1>3, <2>1, <2>2 DEF Good, Inv, AckedInv, AckedIntact, Len, Holds
<1>6. UploadInv'
  BY <1>1 DEF BeginAddSong, UploadInv
<1>7. BeginInv'
  <2>1. CASE o = "ok"
    <3>1. /\ loc'.then = "begin" /\ loc'.song = loc.song
          /\ loc'.audio = loc.audio /\ loc'.level = loc.level /\ pc' = "beginHdr"
      BY <1>1, <2>1 DEF BeginAddSong, Good, TypeOK, Locals
    <3> QED
      BY <1>1, <1>3, <1>4, <3>1 DEF BeginAddSong, Good, Inv, BeginInv
  <2>2. CASE o # "ok"
    BY <2>2, NoBegin, AnswerTypes DEF BeginAddSong
  <2> QED BY <2>1, <2>2
<1>8. SessionInv'
  BY <1>1, AnswerTypes DEF BeginAddSong, Good, Inv, SessionInv, SingleBlockSteps, Unguarded
<1> QED BY <1>3, <1>5, <1>6, <1>7, <1>8 DEF Inv, Synced

\* BEGIN's overflow test makes the uint32 sum of the lengths their sum.
LEMMA NoWrap ==
  ASSUME NEW a \in 0 .. (Word - 1), NEW l \in 0 .. (Word - 1), a > 0,
         TotalBlocks(a, l) >= a
  PROVE  TotalBlocks(a, l) = a + l
<1>1. Word \in Nat /\ Word > 0
  BY ConstantFacts
<1>2. CASE a + l < Word
  BY <1>1, <1>2 DEF TotalBlocks
<1>3. CASE a + l >= Word
  <2>1. (a + l) % Word = a + l - Word
    BY <1>1, <1>3
  <2> QED BY <1>1, <2>1 DEF TotalBlocks
<1> QED BY <1>1, <1>2, <1>3

\* SONG_BEGIN's header write keeps the invariant.
LEMMA KeepBeginWriteHeader ==
  ASSUME Plain, Good, NEW o, BeginWriteHeader(o)
  PROVE  Inv'
<1>1. /\ loc.then = "begin" /\ loc.song \in Songs /\ loc.song \notin acked
      /\ ~up.active
      /\ place[loc.song] = [start |-> hdr.next, audio |-> loc.audio, level |-> loc.level]
      /\ loc.audio \in 0 .. (Word - 1) /\ loc.level \in 0 .. (Word - 1)
      /\ BeginAccepted(loc.audio, loc.level)
  BY DEF BeginWriteHeader, Good, Bounds, Inv, BeginInv
<1>2. TotalBlocks(loc.audio, loc.level) = loc.audio + loc.level /\ loc.audio > 0
  BY <1>1, NoWrap DEF BeginAccepted
<1>3. PICK h : WriteHeader(h, o) /\ h = [hdr EXCEPT !.count = loc.count]
  BY DEF BeginWriteHeader
<1>4. Synced' /\ hdr'.next = hdr.next /\ data' = data
  BY <1>3, SyncedHeader DEF Good, Inv, Synced, WriteHeader, TypeOK, Headers
<1>5. AckedInv'
  BY <1>4 DEF BeginWriteHeader, Good, Inv, AckedInv, AckedIntact, Len, Holds
<1>6. UploadInv'
  <2>1. CASE o = "ok"
    <3>1. /\ up'.song = loc.song /\ up'.start = hdr.next /\ up'.written = 0
          /\ up'.expected = loc.audio + loc.level
      BY <1>2, <2>1 DEF BeginWriteHeader
    <3>2. place' = place /\ acked' = acked
      BY DEF BeginWriteHeader
    <3> QED BY <1>1, <1>2, <1>4, <3>1, <3>2 DEF UploadInv, Len
  <2>2. CASE o # "ok"
    BY <1>1, <2>2 DEF BeginWriteHeader, UploadInv
  <2> QED BY <2>1, <2>2
<1>7. BeginInv'
  BY NoBegin, AnswerTypes DEF BeginWriteHeader
<1>8. SessionInv'
  <2>1. card'.open = FALSE
    BY <1>1 DEF BeginWriteHeader, Good, Inv, SessionInv, TypeOK, Sessions
  <2>2. up'.begun = FALSE
    BY <1>1 DEF BeginWriteHeader, Good, Inv, SessionInv, TypeOK, Uploads
  <2> QED BY <2>1, <2>2, AnswerTypes DEF BeginWriteHeader, SessionInv
<1> QED BY <1>4, <1>5, <1>6, <1>7, <1>8 DEF Inv, Synced

\* Upload_abort ending the session keeps the invariant.
LEMMA KeepAbortSession ==
  ASSUME Plain, Good, AbortSession
  PROVE  Inv'
<1>1. /\ Synced' /\ hdr' = hdr /\ data' = data /\ SameUpload
      /\ card'.open = FALSE /\ up'.begun = FALSE
  <2>1. CASE up.begun
    BY <2>1, SessionClosed, SyncedFlush
    DEF AbortSession, CloseSession, Closed, Good, Inv, Synced, SameUpload, TypeOK,
        Uploads
  <2>2. CASE ~up.begun
    BY <2>2, SyncedDisk
    DEF AbortSession, disk, Good, Inv, Synced, SessionInv, SameUpload, TypeOK,
        Uploads, Sessions
  <2> QED BY <2>1, <2>2
<1>2. UploadInv' /\ AckedInv'
  BY <1>1, Frame DEF AbortSession, Good, Inv
<1>3. BeginInv'
  BY DEF AbortSession, Good, Inv, BeginInv
<1>4. SessionInv'
  BY <1>1 DEF AbortSession, SessionInv
<1> QED BY <1>1, <1>2, <1>3, <1>4 DEF Inv, Synced

\* Upload_abort removing the entry keeps the invariant.
LEMMA KeepAbortRemove ==
  ASSUME Plain, Good, NEW o, AbortRemove(o)
  PROVE  Inv'
<1>1. Synced' /\ hdr' = hdr /\ data' = data
  BY SyncedCatalog DEF AbortRemove, Good, Inv, Synced, WriteCatalog
<1>2. up' = NoUpload /\ ~up'.active /\ ~up'.begun
  BY FixedTypes DEF AbortRemove
<1>3. UploadInv' /\ AckedInv'
  BY <1>1, <1>2, Frame DEF AbortRemove, Good, Inv
<1>4. BeginInv'
  <2>1. /\ pc' = loc.then /\ loc'.then = loc.then /\ acked' = acked
        /\ loc.then \in {"idle", "begin", "format"}
        /\ loc.then = "begin" => loc' = loc
    BY FixedTypes DEF AbortRemove, Resume, Good, TypeOK, Locals
  <2> QED BY <1>2, <2>1 DEF Good, Inv, BeginInv
<1>5. SessionInv'
  <2>1. ~card.open /\ card' = card
    BY DEF AbortRemove, Good, Inv, SessionInv, SingleBlockSteps, Unguarded
  <2>2. pc' \in {"idle", "begin", "format"}
    BY FixedTypes DEF AbortRemove, Resume, Good, TypeOK, Locals
  <2>3. up'.begun = FALSE /\ card'.open = FALSE
    BY <1>2, <2>1 DEF NoUpload, Good, TypeOK, Sessions
  <2> QED BY <2>2, <2>3 DEF SessionInv
<1> QED BY <1>1, <1>3, <1>4, <1>5 DEF Inv, Synced

\* A DTR drop keeps the invariant.
LEMMA KeepDtrDrop ==
  ASSUME Plain, Good, DtrDrop
  PROVE  Inv'
<1>1. Synced' /\ UploadInv' /\ AckedInv'
  BY Frame, SyncedDisk DEF Good, Inv, Synced, DtrDrop, disk, SameUpload
<1>2. BeginInv'
  BY NoBegin DEF DtrDrop, Good, Inv, BeginInv
<1>3. SessionInv'
  BY DEF DtrDrop, Good, Inv, SessionInv, SingleBlockSteps, Unguarded
<1> QED BY <1>1, <1>2, <1>3 DEF Inv, Synced

\* The start of a batch keeps the invariant.
LEMMA KeepSongMultiblock ==
  ASSUME Plain, Good, NEW n \in 1 .. Capacity, SongMultiblock(n)
  PROVE  Inv'
<1>1. /\ SameUpload /\ up'.begun = TRUE /\ card'.open = TRUE
      /\ card'.pos = up.start + up.written
  <2>1. CASE up.begun
    BY <2>1 DEF SongMultiblock, Good, Inv, SessionInv, TypeOK, Uploads, Sessions,
                SameUpload
  <2>2. CASE ~up.begun
    <3>1. up.written = 0
      BY <2>2 DEF SongMultiblock, Plain
    <3>2. card' = OpenedAt(up.start) /\ up' = [up EXCEPT !.begun = TRUE]
      BY <2>2 DEF SongMultiblock, SessionStart
    <3>3. up.start \in Nat
      BY ConstantFacts DEF Good, TypeOK, Uploads
    <3> QED
      BY <3>1, <3>2, <3>3 DEF OpenedAt, Good, TypeOK, Uploads, SameUpload
  <2> QED BY <2>1, <2>2
<1>2. Synced' /\ UploadInv' /\ AckedInv'
  BY <1>1, Frame, SyncedDisk DEF SongMultiblock, Good, Inv, Synced, disk
<1>3. BeginInv'
  <2>1. loc'.then = "idle"
    BY FixedTypes DEF SongMultiblock, NoLocals
  <2> QED BY <2>1, NoBegin DEF SongMultiblock
<1>4. SessionInv'
  BY <1>1 DEF SongMultiblock, SessionInv, SameUpload, SingleBlockSteps, Unguarded, Good, Inv,
              SessionInv
<1> QED BY <1>2, <1>3, <1>4 DEF Inv, Synced

\* A host that stalls in a batch keeps the invariant.
LEMMA KeepBatchTimeout ==
  ASSUME Plain, Good, BatchTimeout
  PROVE  Inv'
<1>1. Synced' /\ UploadInv' /\ AckedInv'
  BY Frame, SyncedDisk DEF Good, Inv, Synced, BatchTimeout, disk, SameUpload
<1>2. BeginInv'
  BY NoBegin, FixedTypes DEF BatchTimeout
<1>3. SessionInv'
  BY DEF BatchTimeout, Good, Inv, SessionInv, SingleBlockSteps, Unguarded
<1> QED BY <1>1, <1>2, <1>3 DEF Inv, Synced

\* What a block sent through the session does, whichever loop sends it.
LEMMA Streamed ==
  ASSUME Plain, Good, pc \in {"batch", "rewrite"}, NEW o, StreamBlock(o),
         UNCHANGED <<place, acked>>,
         \/ o = "ok" /\ up' = [up EXCEPT !.written = @ + 1]
         \/ o # "ok" /\ up' = up
  PROVE  /\ Synced' /\ UploadInv' /\ AckedInv'
         /\ up'.begun = TRUE /\ card'.open = TRUE /\ up'.active
         /\ o = "ok" => card'.pos = up'.start + up'.written
<1>1. /\ up.active /\ up.written < up.expected
      /\ up.written \in Nat /\ up.start \in Nat
  BY ConstantFacts DEF Good, Bounds, Receiving, TypeOK, Uploads, Locals
<1>2. card.open = TRUE /\ up.begun = TRUE /\ card.pos = up.start + up.written
  BY DEF Good, Inv, SessionInv, TypeOK, Uploads, Sessions
<1>3. WriteData(up.start + up.written, up.song, up.written, o)
  BY <1>2 DEF StreamBlock
<1>4. /\ card'.open = TRUE
      /\ o = "ok" => card'.pos = card.pos + 1
  BY <1>2 DEF StreamBlock, Landed, Good, TypeOK, Sessions
<1>5. CASE o = "ok"
  <2>1. /\ up'.written = up.written + 1 /\ up'.begun = TRUE
        /\ up'.active = up.active /\ up'.song = up.song
        /\ up'.start = up.start /\ up'.expected = up.expected
    BY <1>2, <1>5, BlockCounted DEF Good, TypeOK
  <2> QED BY <1>1, <1>2, <1>3, <1>4, <1>5, <2>1, BlockWritten
<1>6. CASE o # "ok"
  BY <1>1, <1>2, <1>3, <1>4, <1>6, BlockWritten DEF SameUpload
<1> QED BY <1>5, <1>6

\* A block of a batch keeps the invariant.
LEMMA KeepBatchBlock ==
  ASSUME Plain, Good, NEW o, BatchBlock(o)
  PROVE  Inv'
<1>1. /\ Synced' /\ UploadInv' /\ AckedInv'
      /\ up'.begun = TRUE /\ card'.open = TRUE /\ up'.active
      /\ o = "ok" => card'.pos = up'.start + up'.written
  BY Streamed DEF BatchBlock
<1>2. /\ pc' \in {"idle", "batch", "verify"}
      /\ o # "ok" => pc' = "verify"
      /\ loc'.then = "idle" \/ loc'.then = loc.then
  BY NextBlock DEF BatchBlock, Good, Bounds, Receiving, TypeOK, Locals
<1>3. BeginInv'
  <2>1. loc.then # "begin"
    BY DEF BatchBlock, Good, Inv, BeginInv
  <2> QED BY <1>2, <2>1, NoBegin
<1>4. SessionInv'
  BY <1>1, <1>2 DEF SessionInv, SingleBlockSteps, Unguarded
<1> QED BY <1>1, <1>3, <1>4 DEF Inv, Synced

\* A rewritten block keeps the invariant.
LEMMA KeepRewriteBlock ==
  ASSUME Plain, Good, NEW o, RewriteBlock(o)
  PROVE  Inv'
<1>1. /\ Synced' /\ UploadInv' /\ AckedInv'
      /\ up'.begun = TRUE /\ card'.open = TRUE /\ up'.active
      /\ o = "ok" => card'.pos = up'.start + up'.written
  BY Streamed DEF RewriteBlock
<1>2. /\ pc' \in {"idle", "batch", "verify"}
      /\ o # "ok" => pc' = "verify"
      /\ loc'.then = "idle" \/ loc'.then = loc.then
  BY NextBlock DEF RewriteBlock, Good, Bounds, Receiving, TypeOK, Locals
<1>3. BeginInv'
  <2>1. loc.then # "begin"
    BY DEF RewriteBlock, Good, Inv, BeginInv
  <2> QED BY <1>2, <2>1, NoBegin
<1>4. SessionInv'
  BY <1>1, <1>2 DEF SessionInv, SingleBlockSteps, Unguarded
<1> QED BY <1>1, <1>3, <1>4 DEF Inv, Synced

\* The session end before a verify keeps the invariant.
LEMMA KeepEndBeforeVerify ==
  ASSUME Plain, Good, EndBeforeVerify
  PROVE  Inv'
<1>1. /\ Synced' /\ hdr' = hdr /\ data' = data /\ SameUpload
      /\ card'.open = FALSE /\ up'.begun = FALSE
  BY SessionClosed, SyncedFlush
  DEF EndBeforeVerify, CloseSession, Closed, Good, Inv, Synced, SameUpload, TypeOK,
      Uploads
<1>2. UploadInv' /\ AckedInv'
  BY <1>1, Frame DEF EndBeforeVerify, Good, Inv
<1>3. BeginInv'
  BY NoBegin DEF EndBeforeVerify, Good, Inv, BeginInv
<1>4. SessionInv'
  BY <1>1 DEF EndBeforeVerify, SessionInv
<1> QED BY <1>1, <1>2, <1>3, <1>4 DEF Inv, Synced

\* A block found on the card counts although the card reported a failure.
LEMMA KeepVerifyMatches ==
  ASSUME Plain, Good, VerifyMatches
  PROVE  Inv'
<1>1. /\ up.active /\ loc.left >= 1 /\ up.written + loc.left <= up.expected
      /\ up.written \in Nat /\ up.expected \in Nat /\ loc.left \in Nat
      /\ up.start \in Nat /\ Capacity \in Nat /\ DataStart \in Nat
      /\ FailedBlock \in DataBlocks
      /\ card.open = FALSE /\ up.begun = FALSE
  BY ConstantFacts
  DEF VerifyMatches, Good, Bounds, Receiving, TypeOK, Uploads, Sessions, Locals, Inv,
      SessionInv, FailedBlock, DataBlocks
<1>2. /\ up'.written = up.written + 1 /\ up'.active = up.active
      /\ up'.start = up.start /\ up'.expected = up.expected
      /\ up'.song = up.song
      /\ \/ up'.begun = FALSE /\ card' = card
         \/ up'.begun = TRUE /\ card' = OpenedAt(ReopenAt)
  BY <1>1, BlockCounted, BlockCountedOpen DEF VerifyMatches, Good, TypeOK, Uploads
<1>3. /\ pc' \in {"idle", "batch", "abort"} /\ loc'.then = "idle"
      /\ pc' = "batch" => up'.begun = TRUE
  <2>1. CASE BlockDone
    <3>1. /\ pc' \in {"idle", "batch"} /\ loc'.then = "idle"
          /\ pc' = "batch" => loc.left > 1
      BY <1>1, <2>1, NextBlock DEF Good
    <3>2. pc' = "batch" => up.expected - up.written - 1 # 0
      BY <1>1, <3>1
    <3>3. pc' = "batch" => up'.begun = TRUE
      BY <3>1, <3>2 DEF VerifyMatches, Good, TypeOK, Uploads
    <3> QED BY <3>1, <3>3
  <2>2. CASE pc' = "abort" /\ loc' = NoLocals
    BY <2>2, FixedTypes
  <2> QED BY <2>1, <2>2 DEF VerifyMatches
<1>4. Synced' /\ AckedInv'
  BY SyncedDisk
  DEF VerifyMatches, Good, Inv, Synced, disk, AckedInv, AckedIntact, Len, Holds
<1>5. UploadInv'
  <2>1. /\ up.song \notin acked /\ up.start = hdr.next
        /\ place[up.song].start = up.start /\ place[up.song].audio > 0
        /\ Len(up.song) = up.expected
        /\ \A k \in 0 .. (up.written - 1) : Holds(up.start + k, up.song, k)
    BY <1>1 DEF Good, Inv, UploadInv
  <2>2. Holds(up.start + up.written, up.song, up.written)
    BY <1>1 DEF VerifyMatches, Verified, Holds, FailedBlock
  <2>3. \A k \in 0 .. up.written : Holds(up.start + k, up.song, k)
    BY <1>1, <2>1, <2>2
  <2>4. data' = data /\ hdr' = hdr /\ place' = place /\ acked' = acked
    BY DEF VerifyMatches, disk
  <2> QED BY <1>1, <1>2, <2>1, <2>3, <2>4 DEF UploadInv, Len, Holds
<1>6. BeginInv'
  BY <1>3, NoBegin
<1>7. SessionInv'
  <2>1. CASE up'.begun = FALSE /\ card' = card
    BY <1>1, <1>3, <2>1 DEF SessionInv, SingleBlockSteps, Unguarded
  <2>2. CASE up'.begun = TRUE /\ card' = OpenedAt(ReopenAt)
    <3>1. card'.open = TRUE /\ card'.pos = up'.start + up'.written
      BY <1>1, <1>2, <2>2 DEF OpenedAt, ReopenAt, FailedBlock
    <3> QED BY <1>1, <1>2, <1>3, <2>2, <3>1 DEF SessionInv, SingleBlockSteps, Unguarded
  <2> QED BY <1>2, <2>1, <2>2
<1> QED BY <1>4, <1>5, <1>6, <1>7 DEF Inv, Synced

\* A block found bad keeps the invariant.
LEMMA KeepVerifyFails ==
  ASSUME Plain, Good, VerifyFails
  PROVE  Inv'
<1>1. loc.then # "begin" /\ up.active /\ card.open = FALSE /\ up.begun = FALSE
  BY DEF VerifyFails, Good, Bounds, Receiving, Inv, BeginInv, SessionInv, TypeOK,
         Sessions, Uploads
<1>2. SameUpload
  BY DEF VerifyFails, Good, TypeOK, Uploads, SameUpload
<1>3. Synced' /\ UploadInv' /\ AckedInv'
  BY <1>2, Frame, SyncedDisk DEF VerifyFails, Good, Inv, Synced, disk
<1>4. CASE pc' = "abort" /\ loc' = NoLocals /\ UNCHANGED <<card, up>>
  <2>1. BeginInv'
    BY <1>4, NoBegin, FixedTypes
  <2>2. SessionInv'
    BY <1>1, <1>4 DEF SessionInv
  <2> QED BY <1>3, <2>1, <2>2 DEF Inv, Synced
<1>5. CASE /\ card' = OpenedAt(FailedBlock) /\ up' = [up EXCEPT !.begun = TRUE]
           /\ pc' = "rewrite" /\ UNCHANGED loc
  <2>1. BeginInv'
    BY <1>1, <1>5, NoBegin
  <2>2. /\ card'.open = TRUE /\ card'.pos = up'.start + up'.written
        /\ up'.begun = TRUE /\ up'.active
    BY <1>1, <1>2, <1>5
    DEF OpenedAt, FailedBlock, SameUpload, Good, TypeOK, Uploads
  <2>3. SessionInv'
    BY <1>5, <2>2 DEF SessionInv, SingleBlockSteps, Unguarded
  <2> QED BY <1>3, <2>1, <2>3 DEF Inv, Synced
<1> QED BY <1>4, <1>5 DEF VerifyFails

\* SONG_BLOCK keeps the invariant.
LEMMA KeepSongBlock ==
  ASSUME Plain, Good, NEW o, SongBlock(o)
  PROVE  Inv'
<1>1. Synced' /\ UploadInv' /\ AckedInv'
  <2>1. CASE o = "ok"
    BY <2>1, BlockWritten, BlockCounted DEF SongBlock, Good, TypeOK
  <2>2. CASE o # "ok"
    BY <2>2, BlockWritten DEF SongBlock, SameUpload
  <2> QED BY <2>1, <2>2
<1>2. BeginInv'
  BY NoBegin DEF SongBlock, Good, Inv, BeginInv
<1>3. SessionInv'
  <2>1. card'.open = FALSE /\ up'.begun = FALSE
    BY BlockCounted DEF SongBlock, Good, Inv, SessionInv, TypeOK, Sessions, Uploads
  <2> QED BY <2>1 DEF SongBlock, SessionInv
<1> QED BY <1>1, <1>2, <1>3 DEF Inv, Synced

\* SONG_COMMIT starting keeps the invariant.
LEMMA KeepSongCommit ==
  ASSUME Plain, Good, SongCommit
  PROVE  Inv'
<1>1. /\ Synced' /\ hdr' = hdr /\ data' = data /\ SameUpload
      /\ card'.open = FALSE /\ up'.begun = FALSE
  <2>1. CASE up.begun
    <3>1. CloseSession
      BY <2>1 DEF SongCommit
    <3> QED
      BY <3>1, SessionClosed, SyncedFlush
      DEF CloseSession, Closed, Good, Inv, Synced, SameUpload, TypeOK, Uploads
  <2>2. CASE ~up.begun
    BY <2>2, SyncedDisk
    DEF SongCommit, disk, Good, Inv, Synced, SessionInv, SameUpload, TypeOK,
        Uploads, Sessions
  <2> QED BY <2>1, <2>2
<1>2. UploadInv' /\ AckedInv'
  BY <1>1, Frame DEF SongCommit, Good, Inv
<1>3. BeginInv'
  BY NoBegin DEF SongCommit, Good, Inv, BeginInv
<1>4. SessionInv'
  BY <1>1 DEF SongCommit, SessionInv
<1> QED BY <1>1, <1>2, <1>3, <1>4 DEF Inv, Synced

\* SONG_COMMIT's catalog write keeps the invariant.
LEMMA KeepCommitCatalog ==
  ASSUME Plain, Good, NEW o, CommitCatalog(o)
  PROVE  Inv'
<1>1. Synced' /\ hdr' = hdr /\ data' = data
  BY SyncedCatalog DEF CommitCatalog, Good, Inv, Synced, WriteCatalog
<1>2. UploadInv' /\ AckedInv'
  BY <1>1, Frame DEF CommitCatalog, Good, Inv, SameUpload
<1>3. BeginInv'
  BY NoBegin, AnswerTypes DEF CommitCatalog, Good, Inv, BeginInv
<1>4. SessionInv'
  <2>1. card'.open = FALSE /\ up'.begun = FALSE
    BY DEF CommitCatalog, Good, Inv, SessionInv, SingleBlockSteps, Unguarded, TypeOK, Sessions,
           Uploads
  <2> QED BY <2>1, AnswerTypes DEF CommitCatalog, SessionInv
<1> QED BY <1>1, <1>2, <1>3, <1>4 DEF Inv, Synced

\* A commit that cannot read the header keeps the invariant.
LEMMA KeepCommitUnread ==
  ASSUME Plain, Good, CommitUnread
  PROVE  Inv'
<1>1. Synced' /\ UploadInv' /\ AckedInv'
  BY Frame, SyncedDisk DEF Good, Inv, Synced, CommitUnread, disk, SameUpload
<1>2. BeginInv'
  BY NoBegin, AnswerTypes DEF CommitUnread
<1>3. SessionInv'
  BY AnswerTypes DEF CommitUnread, Good, Inv, SessionInv, SingleBlockSteps, Unguarded
<1> QED BY <1>1, <1>2, <1>3 DEF Inv, Synced

\* The commit moves next_free_block past the upload, whose blocks are all on
\* the card: the song may be acknowledged, and the next one starts behind it.
LEMMA KeepCommitHeader ==
  ASSUME Plain, Good, NEW o, CommitHeader(o)
  PROVE  Inv'
<1>1. /\ up.active /\ up.song \in Songs /\ up.written = up.expected
      /\ up.expected \in Nat /\ up.start \in Nat /\ up.start = hdr.next
      /\ place[up.song].start = up.start /\ place[up.song].audio > 0
      /\ Len(up.song) = up.expected
      /\ \A k \in 0 .. (up.written - 1) : Holds(up.start + k, up.song, k)
  BY ConstantFacts
  DEF CommitHeader, Good, Bounds, Complete, TypeOK, Uploads, Inv, UploadInv
<1>2. Synced' /\ data' = data
  BY SyncedHeader DEF CommitHeader, Good, Inv, Synced, WriteHeader
<1>3. /\ hdr'.next \in {hdr.next, hdr.next + up.expected}
      /\ o = "ok" => hdr'.next = hdr.next + up.expected
      /\ hdr.next \in Nat
  BY <1>1, ConstantFacts
  DEF CommitHeader, WriteHeader, Landed, NextFree, Good, TypeOK, Headers
<1>4. AckedInv'
  <2>1. place' = place /\ acked' \subseteq acked \union {up.song}
    BY DEF CommitHeader
  <2>2. up.song \in acked' => o = "ok"
    BY DEF CommitHeader, Good, Inv, UploadInv, Bounds
  <2>3. ASSUME NEW s \in acked', s # up.song
        PROVE  /\ place[s].audio > 0 /\ place[s].start + Len(s) <= hdr'.next
               /\ \A k \in 0 .. (Len(s) - 1) : Holds(place[s].start + k, s, k)
    <3>1. /\ s \in acked /\ s \in Songs
      BY <2>1, <2>3 DEF Good, TypeOK
    <3>2. /\ place[s].start + Len(s) \in Nat
          /\ place[s].start + Len(s) <= hdr.next
      BY <3>1, ConstantFacts DEF Good, Inv, AckedInv, TypeOK, Places, Len
    <3> QED BY <1>1, <1>3, <3>1, <3>2 DEF Good, Inv, AckedInv, AckedIntact
  <2>4. up.song \in acked' =>
          /\ place[up.song].audio > 0
          /\ place[up.song].start + Len(up.song) <= hdr'.next
          /\ \A k \in 0 .. (Len(up.song) - 1) :
               Holds(place[up.song].start + k, up.song, k)
    BY <1>1, <1>3, <2>2
  <2> QED BY <1>2, <2>1, <2>3, <2>4 DEF AckedInv, AckedIntact, Len, Holds
<1>5. up'.active = FALSE /\ up'.begun = FALSE /\ card'.open = FALSE
  BY DEF CommitHeader, NoUpload, Good, Inv, SessionInv, SingleBlockSteps, Unguarded, TypeOK,
         Sessions
<1>6. UploadInv'
  BY <1>5 DEF UploadInv
<1>7. BeginInv'
  BY NoBegin, AnswerTypes DEF CommitHeader
<1>8. SessionInv'
  BY <1>5, AnswerTypes DEF CommitHeader, SessionInv
<1> QED BY <1>2, <1>4, <1>6, <1>7, <1>8 DEF Inv, Synced

\* SONG_REMOVE starting keeps the invariant.
LEMMA KeepSongRemove ==
  ASSUME Plain, Good, NEW i \in Slots, SongRemove(i)
  PROVE  Inv'
<1>1. Synced' /\ UploadInv' /\ AckedInv'
  BY Frame, SyncedDisk DEF Good, Inv, Synced, SongRemove, disk, SameUpload
<1>2. BeginInv'
  <2>1. loc'.then = "idle"
    BY FixedTypes DEF SongRemove, NoLocals
  <2> QED BY <2>1, NoBegin DEF SongRemove
<1>3. SessionInv'
  BY DEF SongRemove, Good, Inv, SessionInv, SingleBlockSteps, Unguarded
<1> QED BY <1>1, <1>2, <1>3 DEF Inv, Synced

\* A command that only reads, and a removal the card refuses, keep the
\* invariant: the session stands where it stood.
LEMMA KeepNoWrite ==
  ASSUME Plain, Good, HostRead \/ HostReadDone \/ RemoveRefused
  PROVE  Inv'
<1>1. Synced' /\ UploadInv' /\ AckedInv'
  BY Frame, SyncedDisk
  DEF Good, Inv, Synced, HostRead, HostReadDone, RemoveRefused, disk, SameUpload
<1>2. CASE HostRead
  <2>1. BeginInv' /\ SessionInv'
    BY <1>2 DEF HostRead, Good, Inv, BeginInv, SessionInv, SingleBlockSteps, Unguarded
  <2> QED BY <1>1, <2>1 DEF Inv, Synced
<1>3. CASE HostReadDone \/ RemoveRefused
  <2>1. BeginInv'
    BY <1>3, NoBegin, AnswerTypes DEF HostReadDone, RemoveRefused
  <2>2. SessionInv'
    BY <1>3, AnswerTypes
    DEF HostReadDone, RemoveRefused, Good, Inv, SessionInv, SingleBlockSteps, Unguarded
  <2> QED BY <1>1, <2>1, <2>2 DEF Inv, Synced
<1> QED BY <1>2, <1>3

\* SONG_REMOVE's write keeps the invariant.
LEMMA KeepRemoveEntry ==
  ASSUME Plain, Good, NEW o, RemoveEntry(o)
  PROVE  Inv'
<1>1. Synced' /\ hdr' = hdr /\ data' = data
  BY SyncedCatalog DEF RemoveEntry, Good, Inv, Synced, WriteCatalog
<1>2. UploadInv' /\ AckedInv'
  BY <1>1, Frame DEF RemoveEntry, Good, Inv, SameUpload
<1>3. BeginInv'
  BY NoBegin, AnswerTypes DEF RemoveEntry
<1>4. SessionInv'
  BY AnswerTypes DEF RemoveEntry, Good, Inv, SessionInv, SingleBlockSteps, Unguarded
<1> QED BY <1>1, <1>2, <1>3, <1>4 DEF Inv, Synced

\* SONG_SWAP's first write keeps the invariant.
LEMMA KeepSongSwap ==
  ASSUME Plain, Good, NEW i \in Slots, NEW j \in Slots, NEW o, SongSwap(i, j, o)
  PROVE  Inv'
<1>1. Synced' /\ hdr' = hdr /\ data' = data
  BY SyncedCatalog DEF SongSwap, Good, Inv, Synced, WriteCatalog
<1>2. UploadInv' /\ AckedInv'
  BY <1>1, Frame DEF SongSwap, Good, Inv, SameUpload
<1>3. pc' \in {"idle", "swap"} /\ loc'.then # "begin"
  BY FixedTypes DEF SongSwap, NoLocals, Good, Inv, BeginInv
<1>4. BeginInv'
  BY <1>3, NoBegin
<1>5. SessionInv'
  BY <1>3 DEF SongSwap, Good, Inv, SessionInv, SingleBlockSteps, Unguarded
<1> QED BY <1>1, <1>2, <1>4, <1>5 DEF Inv, Synced

\* SONG_SWAP's second write keeps the invariant.
LEMMA KeepSwapSecond ==
  ASSUME Plain, Good, NEW o, SwapSecond(o)
  PROVE  Inv'
<1>1. Synced' /\ hdr' = hdr /\ data' = data
  BY SyncedCatalog DEF SwapSecond, Good, Inv, Synced, WriteCatalog
<1>2. UploadInv' /\ AckedInv'
  BY <1>1, Frame DEF SwapSecond, Good, Inv, SameUpload
<1>3. pc' \in {"idle", "swapBack"} /\ loc'.then # "begin"
  BY AnswerTypes DEF SwapSecond, Good, Inv, BeginInv
<1>4. BeginInv'
  BY <1>3, NoBegin
<1>5. SessionInv'
  BY <1>3 DEF SwapSecond, Good, Inv, SessionInv, SingleBlockSteps, Unguarded
<1> QED BY <1>1, <1>2, <1>4, <1>5 DEF Inv, Synced

\* SONG_SWAP's rollback keeps the invariant.
LEMMA KeepSwapBack ==
  ASSUME Plain, Good, NEW o, SwapBack(o)
  PROVE  Inv'
<1>1. Synced' /\ hdr' = hdr /\ data' = data
  BY SyncedCatalog DEF SwapBack, Good, Inv, Synced, WriteCatalog
<1>2. UploadInv' /\ AckedInv'
  BY <1>1, Frame DEF SwapBack, Good, Inv, SameUpload
<1>3. BeginInv'
  BY NoBegin, AnswerTypes DEF SwapBack
<1>4. SessionInv'
  BY AnswerTypes DEF SwapBack, Good, Inv, SessionInv, SingleBlockSteps, Unguarded
<1> QED BY <1>1, <1>2, <1>3, <1>4 DEF Inv, Synced

\* DISK_FORMAT starting keeps the invariant.
LEMMA KeepDiskFormat ==
  ASSUME Plain, Good, DiskFormat
  PROVE  Inv'
<1>1. Synced' /\ UploadInv' /\ AckedInv'
  BY Frame, SyncedDisk DEF Good, Inv, Synced, DiskFormat, disk, SameUpload
<1>2. /\ pc' \in {"abort", "format"}
      /\ pc' = "format" => ~up.active
      /\ loc'.then = "format"
  BY FixedTypes DEF DiskFormat, NoLocals
<1>3. BeginInv'
  BY <1>2 DEF DiskFormat, BeginInv
<1>4. SessionInv'
  BY <1>2 DEF DiskFormat, Good, Inv, SessionInv, SingleBlockSteps, Unguarded
<1> QED BY <1>1, <1>3, <1>4 DEF Inv, Synced

\* The format gives every song up before a block of one can be reused.
LEMMA KeepFormatHeader ==
  ASSUME Plain, Good, NEW o, FormatHeader(o)
  PROVE  Inv'
<1>1. Synced' /\ data' = data
  BY SyncedHeader DEF FormatHeader, Good, Inv, Synced, WriteHeader
<1>2. ~up'.active /\ up' = up /\ card' = card
  BY DEF FormatHeader, Good, Inv, BeginInv
<1>3. UploadInv' /\ AckedInv'
  BY <1>2 DEF FormatHeader, UploadInv, AckedInv, AckedIntact
<1>4. pc' \in {"idle", "formatCat"} /\ loc'.then = "idle"
  BY FixedTypes, AnswerTypes DEF FormatHeader
<1>5. BeginInv'
  BY <1>4, NoBegin
<1>6. SessionInv'
  BY <1>2, <1>4 DEF FormatHeader, Good, Inv, SessionInv, SingleBlockSteps, Unguarded
<1> QED BY <1>1, <1>3, <1>5, <1>6 DEF Inv, Synced

\* Each zeroed catalog block keeps the invariant.
LEMMA KeepFormatCatalog ==
  ASSUME Plain, Good, NEW o, FormatCatalog(o)
  PROVE  Inv'
<1>1. PICK c : WriteCatalog(c, o)
  BY DEF FormatCatalog
<1>2. Synced' /\ hdr' = hdr /\ data' = data
  BY <1>1, SyncedCatalog DEF Good, Inv, Synced, WriteCatalog
<1>3. up' = up /\ card' = card /\ place' = place /\ acked' = acked
  BY DEF FormatCatalog
<1>4. UploadInv' /\ AckedInv'
  BY <1>2, <1>3, Frame DEF Good, Inv, SameUpload
<1>5. pc' \in {"idle", "formatCat"} /\ loc'.then # "begin"
  <2>1. loc.then # "begin"
    BY DEF FormatCatalog, Good, Inv, BeginInv
  <2>2. CASE Answer
    BY <2>2, AnswerTypes
  <2>3. CASE ~Answer
    <3>1. loc' = [loc EXCEPT !.idx = @ + 1] /\ pc' = "formatCat"
      BY <2>3 DEF FormatCatalog
    <3> QED BY <2>1, <3>1 DEF Good, TypeOK, Locals
  <2> QED BY <2>2, <2>3
<1>6. BeginInv'
  BY <1>5, NoBegin
<1>7. SessionInv'
  <2>1. pc = "formatCat"
    BY DEF FormatCatalog
  <2> QED BY <1>3, <1>5, <2>1 DEF Good, Inv, SessionInv, SingleBlockSteps, Unguarded
<1> QED BY <1>2, <1>4, <1>6, <1>7 DEF Inv, Synced

\* A skip keeps the invariant.
LEMMA KeepChangeSong ==
  ASSUME Plain, Good, NEW dir, NEW unread, ChangeSong(dir, unread)
  PROVE  Inv'
<1>1. Synced' /\ UploadInv' /\ AckedInv'
  BY Frame, SyncedDisk DEF Good, Inv, Synced, ChangeSong, disk, SameUpload
<1>2. BeginInv' /\ SessionInv'
  BY DEF ChangeSong, disk, Good, Inv, BeginInv, SessionInv
<1> QED BY <1>1, <1>2 DEF Inv, Synced

\* A restart that finds the blocks it left keeps the invariant.
LEMMA KeepRestart ==
  ASSUME Good, NEW unread, Restart(unread), Synced', hdr' = hdr, data' = data
  PROVE  Inv'
<1>1. up'.active = FALSE /\ up'.begun = FALSE /\ card'.open = FALSE
  BY DEF Restart, NoUpload, Closed
<1>2. UploadInv' /\ AckedInv'
  BY <1>1, Frame DEF Restart, Good, Inv
<1>3. BeginInv' /\ SessionInv'
  BY <1>1, AnswerTypes, NoBegin DEF Restart, SessionInv
<1> QED BY <1>2, <1>3 DEF Inv, Synced

\* A power cycle keeps the invariant.
LEMMA KeepPowerCycle ==
  ASSUME Plain, Good, NEW unread, PowerCycle(unread)
  PROVE  Inv'
<1>1. Synced' /\ hdr' = hdr /\ data' = data
  BY DEF PowerCycle, Synced, AllBlocks
<1> QED BY <1>1, KeepRestart DEF PowerCycle

\* With nothing in a cache a reset loses nothing.
LEMMA KeepCrash ==
  ASSUME Plain, Good, NEW unread, Crash(unread)
  PROVE  Inv'
<1>1. nand.hdr = hdr /\ nand.cat = cat /\ nand.data = data
  BY DEF Good, Inv, AllBlocks
<1>2. hdr' = hdr
  BY <1>1 DEF Crash
<1>3. data' = data
  <2>1. data = [b \in DataBlocks |-> data[b]]
    BY DEF Good, TypeOK, Contents
  <2>2. data' = [b \in DataBlocks |-> data[b]]
    BY <1>1 DEF Crash
  <2> QED BY <2>1, <2>2
<1>4. Synced'
  BY DEF Crash, Synced, AllBlocks
<1> QED BY <1>2, <1>3, <1>4, KeepRestart DEF Crash

\* The invariant holds of a blank card and of a formatted one.
LEMMA KeepInit == Init => Inv
<1> SUFFICES ASSUME Init PROVE Inv
  OBVIOUS
<1>1. UploadInv /\ AckedInv
  BY DEF Init, NoUpload, UploadInv, AckedInv, AckedIntact
<1>2. BeginInv /\ SessionInv
  BY DEF Init, NoUpload, NoLocals, Closed, BeginInv, SessionInv
<1> QED BY <1>1, <1>2 DEF Init, Inv

\* Every step keeps the invariant.
LEMMA KeepStep == Plain /\ Good /\ [Next]_vars => Inv'
<1> SUFFICES ASSUME Plain, Good, [Next]_vars PROVE Inv'
  OBVIOUS
<1>1. CASE Command
  BY <1>1, KeepSongBegin, KeepSongMultiblock, KeepSongBlock, KeepSongCommit,
     KeepSongRemove, KeepNoWrite, KeepSongSwap, KeepDiskFormat, KeepDtrDrop
  DEF Command
<1>2. CASE Handler
  BY <1>2, KeepBeginRejected, KeepAbortSession, KeepCommitUnread,
     KeepEndBeforeVerify, KeepVerifyMatches, KeepVerifyFails, KeepBatchTimeout,
     KeepBeginAddSong, KeepBeginWriteHeader, KeepAbortRemove, KeepBatchBlock,
     KeepRewriteBlock, KeepCommitCatalog, KeepCommitHeader, KeepRemoveEntry,
     KeepSwapSecond, KeepSwapBack, KeepFormatHeader, KeepFormatCatalog, KeepNoWrite
  DEF Handler
<1>3. CASE Environment
  BY <1>3, KeepChangeSong, KeepPowerCycle, KeepCrash DEF Environment
<1>4. CASE UNCHANGED vars
  BY <1>4 DEF vars, Good, Inv, AllBlocks, BeginInv, UploadInv, SessionInv, AckedInv,
              AckedIntact, Len, Holds
<1> QED BY <1>1, <1>2, <1>3, <1>4 DEF Next

\* The whole inductive invariant is inductive,
LEMMA GoodStep == Plain /\ Good /\ [Next]_vars => Good'
BY TypeStep, KeepStep DEF Good

\* holds at the start,
LEMMA GoodInit == Init => Good
BY TypeInit, KeepInit DEF Good

\* and so holds always.
LEMMA AlwaysGood == ASSUME Plain PROVE Spec => []Good
<1>1. Init => Good
  BY GoodInit
<1>2. Good /\ [Next]_vars => Good'
  BY Plain, GoodStep
<1> QED BY <1>1, <1>2, PTL DEF Spec

\* A song whose COMMIT was answered OK stays on the card block for block, under
\* every command, card failure, host failure and reset.
THEOREM Durable == ASSUME Plain PROVE Spec => []AckedIntact
<1>1. Good => AckedIntact
  BY DEF Good, Inv, AckedInv
<1> QED BY <1>1, AlwaysGood, PTL

\* The CMD25 session always stands at the block the upload counts next, however
\* often the recovery loop of SONG_MULTIBLOCK closed and reopened it.
THEOREM Aligned == ASSUME Plain PROVE Spec => []StreamAligned
<1>1. Good => StreamAligned
  BY DEF Good, Inv, SessionInv, Bounds, Receiving, TypeOK, Uploads, Locals,
         StreamAligned
<1> QED BY <1>1, AlwaysGood, PTL

\* Of all the handlers only SONG_REMOVE and the three that read ever send a
\* single-block command into an open CMD25 session, although the host may call
\* any of them between two batches, and no session outlives its upload.
THEOREM Exclusive == ASSUME Plain PROVE Spec => []NoNesting
<1>1. Good => NoNesting
  BY DEF Good, Inv, SessionInv, TypeOK, Uploads, Sessions, NoNesting
<1> QED BY <1>1, AlwaysGood, PTL

(***************************************************************************)
(* Who owns which slot of the catalog.                                     *)
(***************************************************************************)

\* disk_add_song claims a hole below song_count or appends.
LEMMA Claimed ==
  ASSUME TypeOK
  PROVE  \/ ClaimSlot \in Holes /\ CountAfterClaim = hdr.count
         \/ ClaimSlot = hdr.count /\ CountAfterClaim = hdr.count + 1
<1>1. Holes \in SUBSET Nat
  BY ConstantFacts DEF Holes
<1> QED BY <1>1, Smallest DEF ClaimSlot, CountAfterClaim

\* What one catalog write leaves in each slot.
LEMMA EntryWritten ==
  ASSUME TypeOK, NEW x, NEW e, NEW o, WriteCatalog([cat EXCEPT ![x] = e], o)
  PROVE  /\ hdr' = hdr /\ data' = data
         /\ \A i \in Slots : i # x => cat'[i] = cat[i]
         /\ x \in Slots => cat'[x] = IF Landed(o) THEN e ELSE cat[x]
BY DEF WriteCatalog, TypeOK, Catalogs

\* The fields of g_upload that say which slot it owns.
SameOwner ==
  /\ up'.active = up.active /\ up'.song = up.song /\ up'.idx = up.idx
  /\ up'.start = up.start /\ up'.audio = up.audio

\* A step that touches neither the catalog nor the owner of a slot.
LEMMA SlotFrame ==
  ASSUME SlotInv, hdr'.count = hdr.count, cat' = cat, place' = place, SameOwner,
         ~up.active => up' = up,
         pc' \in {"abort", "abortRm"} => up.active,
         pc' \notin {"swap", "swapBack", "formatCat", "remove", "beginHdr"}
  PROVE  SlotInv'
BY DEF SlotInv, SameOwner, EntryOf

\* SONG_BEGIN starting leaves every slot with its owner.
LEMMA SlotSongBegin ==
  ASSUME Good, SlotInv, NEW s, NEW audio, NEW level, SongBegin(s, audio, level)
  PROVE  SlotInv'
BY DEF SongBegin, BeginWith, SlotInv, disk, EntryOf

\* A refused SONG_BEGIN leaves every slot with its owner.
LEMMA SlotBeginRejected ==
  ASSUME Good, SlotInv, BeginRejected
  PROVE  SlotInv'
BY AnswerTypes DEF BeginRejected, SlotInv, disk, EntryOf

\* Disk_add_song leaves every slot with its owner.
LEMMA SlotBeginAddSong ==
  ASSUME Good, SlotInv, NEW o, BeginAddSong(o)
  PROVE  SlotInv'
<1>1. ~up.active /\ up' = up /\ up = NoUpload
  BY DEF BeginAddSong, Good, Inv, BeginInv, SlotInv
<1>2. CASE o # "ok"
  BY <1>1, <1>2, AnswerTypes DEF BeginAddSong, SlotInv
<1>3. CASE o = "ok"
  <2> DEFINE entry == [name |-> loc.song, start |-> hdr.next, count |-> loc.audio]
  <2>1. /\ pc' = "beginHdr" /\ loc'.idx = ClaimSlot /\ loc'.count = CountAfterClaim
        /\ loc'.song = loc.song
    BY <1>3 DEF BeginAddSong, Good, TypeOK, Locals
  <2>2. ClaimSlot \in Slots /\ ClaimSlot \in Nat
    BY Claimed, ConstantFacts
    DEF BeginAddSong, Good, TypeOK, Headers, Slots, Holes
  <2>3. cat'[ClaimSlot] = entry /\ hdr' = hdr
    BY <1>3, <2>2, EntryWritten DEF BeginAddSong, Good, Landed
  <2>4. loc.song \in Songs
    BY DEF BeginAddSong, Good, Bounds
  <2>5. EntryOf(loc.song)' = entry
    BY <2>1, <2>4 DEF BeginAddSong, EntryOf, Good, TypeOK, Places
  <2> QED BY <1>1, <2>1, <2>2, <2>3, <2>5, Claimed DEF SlotInv, Holes, Good
<1> QED BY <1>2, <1>3

\* SONG_BEGIN's header write leaves every slot with its owner.
LEMMA SlotBeginWriteHeader ==
  ASSUME Good, SlotInv, NEW o, BeginWriteHeader(o)
  PROVE  SlotInv'
<1>1. ~up.active /\ up = NoUpload
  BY DEF BeginWriteHeader, Good, Inv, BeginInv, SlotInv
<1>2. CASE o # "ok"
  BY <1>1, <1>2, AnswerTypes DEF BeginWriteHeader, SlotInv
<1>3. CASE o = "ok"
  <2>1. /\ hdr'.count = loc.count /\ cat' = cat /\ place' = place
    BY <1>3 DEF BeginWriteHeader, WriteHeader, Landed, Good, TypeOK, Headers
  <2>2. /\ up'.active = TRUE /\ up'.idx = loc.idx /\ up'.song = loc.song
        /\ up'.audio = loc.audio
    BY <1>3 DEF BeginWriteHeader
  <2>3. /\ cat[loc.idx] = EntryOf(loc.song) /\ loc.idx < loc.count
        /\ place[loc.song].audio = loc.audio
    BY ConstantFacts DEF BeginWriteHeader, SlotInv, Good, Inv, BeginInv, TypeOK,
       Headers, Locals, Bounds
  <2> QED BY <2>1, <2>2, <2>3, AnswerTypes DEF SlotInv, BeginWriteHeader, EntryOf
<1> QED BY <1>2, <1>3

\* Upload_abort ending the session leaves every slot with its owner.
LEMMA SlotAbortSession ==
  ASSUME Good, SlotInv, AbortSession
  PROVE  SlotInv'
<1>1. CASE up.begun
  BY <1>1, SlotFrame, SessionClosed DEF AbortSession, SlotInv, SameOwner, Good, CloseSession
<1>2. CASE ~up.begun
  BY <1>2 DEF AbortSession, SlotInv, disk, EntryOf
<1> QED BY <1>1, <1>2

\* Upload_abort removing the entry leaves every slot with its owner.
LEMMA SlotAbortRemove ==
  ASSUME Good, SlotInv, NEW o, AbortRemove(o)
  PROVE  SlotInv'
<1>1. pc' \in {"idle", "begin", "format"}
  BY DEF AbortRemove, Resume, Good, TypeOK, Locals
<1>2. up' = NoUpload /\ ~up'.active
  BY FixedTypes DEF AbortRemove
<1> QED BY <1>1, <1>2 DEF SlotInv

\* A DTR drop leaves every slot with its owner.
LEMMA SlotDtrDrop ==
  ASSUME Good, SlotInv, DtrDrop
  PROVE  SlotInv'
BY DEF DtrDrop, SlotInv, disk, EntryOf

\* The start of a batch leaves every slot with its owner.
LEMMA SlotSongMultiblock ==
  ASSUME Good, SlotInv, NEW n, SongMultiblock(n)
  PROVE  SlotInv'
<1>1. SameOwner /\ up.active
  BY DEF SongMultiblock, SameOwner, Good, TypeOK, Uploads
<1> QED BY <1>1, SlotFrame DEF SongMultiblock, disk

\* A host that stalls in a batch leaves every slot with its owner.
LEMMA SlotBatchTimeout ==
  ASSUME Good, SlotInv, BatchTimeout
  PROVE  SlotInv'
BY SlotFrame DEF BatchTimeout, disk, SameOwner, Good, Bounds, Receiving

\* A block of a batch leaves every slot with its owner.
LEMMA SlotBatchBlock ==
  ASSUME Good, SlotInv, NEW o, BatchBlock(o)
  PROVE  SlotInv'
<1>1. SameOwner /\ up.active
  BY DEF BatchBlock, SameOwner, Good, TypeOK, Uploads, Bounds, Receiving
<1>2. pc' \in {"idle", "batch", "verify"}
  BY NextBlock DEF BatchBlock, Good, Bounds, Receiving
<1> QED BY <1>1, <1>2, SlotFrame DEF BatchBlock, StreamBlock, WriteData

\* A rewritten block leaves every slot with its owner.
LEMMA SlotRewriteBlock ==
  ASSUME Good, SlotInv, NEW o, RewriteBlock(o)
  PROVE  SlotInv'
<1>1. SameOwner /\ up.active
  BY DEF RewriteBlock, SameOwner, Good, TypeOK, Uploads, Bounds, Receiving
<1>2. pc' \in {"idle", "batch", "verify"}
  BY NextBlock DEF RewriteBlock, Good, Bounds, Receiving
<1> QED BY <1>1, <1>2, SlotFrame DEF RewriteBlock, StreamBlock, WriteData

\* The session end before a verify leaves every slot with its owner.
LEMMA SlotEndBeforeVerify ==
  ASSUME Good, SlotInv, EndBeforeVerify
  PROVE  SlotInv'
<1>1. SameOwner /\ up.active /\ hdr' = hdr /\ cat' = cat
  BY SessionClosed DEF EndBeforeVerify, SameOwner, Good, Bounds, Receiving
<1> QED BY <1>1, SlotFrame DEF EndBeforeVerify

\* A block found good leaves every slot with its owner.
LEMMA SlotVerifyMatches ==
  ASSUME Good, SlotInv, VerifyMatches
  PROVE  SlotInv'
<1>1. SameOwner /\ up.active
  BY DEF VerifyMatches, SameOwner, Good, TypeOK, Uploads, Bounds, Receiving
<1>2. pc' \in {"idle", "batch", "abort"}
  BY NextBlock DEF VerifyMatches, Good, Bounds, Receiving
<1> QED BY <1>1, <1>2, SlotFrame DEF VerifyMatches, disk

\* A block found bad leaves every slot with its owner.
LEMMA SlotVerifyFails ==
  ASSUME Good, SlotInv, VerifyFails
  PROVE  SlotInv'
<1>1. SameOwner /\ up.active
  BY DEF VerifyFails, SameOwner, Good, TypeOK, Uploads, Bounds, Receiving
<1> QED BY <1>1, SlotFrame DEF VerifyFails, disk

\* SONG_BLOCK leaves every slot with its owner.
LEMMA SlotSongBlock ==
  ASSUME Good, SlotInv, NEW o, SongBlock(o)
  PROVE  SlotInv'
<1>1. SameOwner /\ up.active
  BY DEF SongBlock, SameOwner, Good, TypeOK, Uploads
<1> QED BY <1>1, SlotFrame DEF SongBlock, WriteData

\* SONG_COMMIT starting leaves every slot with its owner.
LEMMA SlotSongCommit ==
  ASSUME Good, SlotInv, SongCommit
  PROVE  SlotInv'
<1>1. SameOwner /\ up.active /\ hdr' = hdr /\ cat' = cat
  BY SessionClosed DEF SongCommit, SameOwner, Good, disk
<1> QED BY <1>1, SlotFrame DEF SongCommit

\* SONG_COMMIT's catalog write writes the entry that is there.
LEMMA SameEntry ==
  ASSUME Good, SlotInv, NEW o, CommitCatalog(o)
  PROVE  up.active /\ hdr' = hdr /\ cat' = cat /\ data' = data
<1>1. up.active
  BY DEF CommitCatalog, Good, Bounds
<1>2. cat[up.idx] = EntryOf(up.song) /\ up.audio = place[up.song].audio
  BY <1>1 DEF SlotInv
<1>3. up.idx \in Slots /\ cat = [i \in Slots |-> cat[i]]
  BY DEF Good, TypeOK, Uploads, Catalogs
<1>4. [cat[up.idx] EXCEPT !.count = up.audio] = cat[up.idx]
  BY <1>2 DEF EntryOf
<1>5. [cat EXCEPT ![up.idx].count = up.audio] = cat
  BY <1>3, <1>4
<1> QED BY <1>1, <1>5 DEF CommitCatalog, WriteCatalog

\* SONG_COMMIT's catalog write leaves every slot with its owner.
LEMMA SlotCommitCatalog ==
  ASSUME Good, SlotInv, NEW o, CommitCatalog(o)
  PROVE  SlotInv'
<1>1. up.active /\ up' = up /\ cat' = cat /\ hdr' = hdr
  BY SameEntry DEF CommitCatalog
<1> QED BY <1>1, SlotFrame, AnswerTypes DEF CommitCatalog, SameOwner

\* A commit that cannot read the header leaves every slot with its owner.
LEMMA SlotCommitUnread ==
  ASSUME Good, SlotInv, CommitUnread
  PROVE  SlotInv'
BY SlotFrame, AnswerTypes DEF CommitUnread, disk, SameOwner

\* SONG_COMMIT's header write leaves every slot with its owner.
LEMMA SlotCommitHeader ==
  ASSUME Good, SlotInv, NEW o, CommitHeader(o)
  PROVE  SlotInv'
BY FixedTypes, AnswerTypes DEF CommitHeader, SlotInv

\* SONG_REMOVE starting leaves every slot with its owner.
LEMMA SlotSongRemove ==
  ASSUME Good, SlotInv, NEW i \in Slots, SongRemove(i)
  PROVE  SlotInv'
BY DEF SongRemove, SlotInv, disk, EntryOf, NoLocals

\* A step that writes nothing leaves every slot with its owner.
LEMMA SlotNoWrite ==
  ASSUME Good, SlotInv, HostRead \/ HostReadDone \/ RemoveRefused
  PROVE  SlotInv'
BY AnswerTypes DEF HostRead, HostReadDone, RemoveRefused, disk, SlotInv, EntryOf

\* SONG_REMOVE's write leaves every slot with its owner.
LEMMA SlotRemoveEntry ==
  ASSUME Good, SlotInv, NEW o, RemoveEntry(o)
  PROVE  SlotInv'
<1>1. up' = up /\ place' = place /\ pc' = "idle"
  BY AnswerTypes DEF RemoveEntry
<1>2. hdr' = hdr /\ (up.active => cat'[up.idx] = cat[up.idx])
  BY EntryWritten DEF RemoveEntry, SlotInv, Good, TypeOK, Uploads
<1> QED BY <1>1, <1>2 DEF SlotInv, EntryOf

\* SONG_SWAP's first write leaves every slot with its owner.
LEMMA SlotSongSwap ==
  ASSUME Good, SlotInv, NEW i \in Slots, NEW j \in Slots, NEW o, SongSwap(i, j, o)
  PROVE  SlotInv'
BY DEF SongSwap, SlotInv

\* SONG_SWAP's second write leaves every slot with its owner.
LEMMA SlotSwapSecond ==
  ASSUME Good, SlotInv, NEW o, SwapSecond(o)
  PROVE  SlotInv'
BY AnswerTypes DEF SwapSecond, SlotInv

\* SONG_SWAP's rollback leaves every slot with its owner.
LEMMA SlotSwapBack ==
  ASSUME Good, SlotInv, NEW o, SwapBack(o)
  PROVE  SlotInv'
BY AnswerTypes DEF SwapBack, SlotInv

\* DISK_FORMAT starting leaves every slot with its owner.
LEMMA SlotDiskFormat ==
  ASSUME Good, SlotInv, DiskFormat
  PROVE  SlotInv'
BY DEF DiskFormat, SlotInv, disk, EntryOf

\* DISK_FORMAT's header write leaves every slot with its owner.
LEMMA SlotFormatHeader ==
  ASSUME Good, SlotInv, NEW o, FormatHeader(o)
  PROVE  SlotInv'
BY AnswerTypes DEF FormatHeader, SlotInv, Good, Inv, BeginInv

\* Each zeroed catalog block leaves every slot with its owner.
LEMMA SlotFormatCatalog ==
  ASSUME Good, SlotInv, NEW o, FormatCatalog(o)
  PROVE  SlotInv'
BY AnswerTypes DEF FormatCatalog, SlotInv

\* A skip leaves every slot with its owner.
LEMMA SlotChangeSong ==
  ASSUME Good, SlotInv, NEW dir, NEW unread, ChangeSong(dir, unread)
  PROVE  SlotInv'
BY DEF ChangeSong, SlotInv, disk, EntryOf

\* A restart that finds the blocks it left leaves every slot with its owner.
LEMMA SlotRestart ==
  ASSUME NEW unread, Restart(unread)
  PROVE  SlotInv'
BY FixedTypes, AnswerTypes DEF Restart, SlotInv

\* Every step leaves every slot with its owner.
LEMMA SlotStep == Good /\ SlotInv /\ [Next]_vars => SlotInv'
<1> SUFFICES ASSUME Good, SlotInv, [Next]_vars PROVE SlotInv'
  OBVIOUS
<1>1. CASE Command
  BY <1>1, SlotSongBegin, SlotSongMultiblock, SlotSongBlock, SlotSongCommit,
     SlotSongRemove, SlotNoWrite, SlotSongSwap, SlotDiskFormat, SlotDtrDrop
  DEF Command
<1>2. CASE Handler
  BY <1>2, SlotBeginRejected, SlotAbortSession, SlotCommitUnread,
     SlotEndBeforeVerify, SlotVerifyMatches, SlotVerifyFails, SlotBatchTimeout,
     SlotBeginAddSong, SlotBeginWriteHeader, SlotAbortRemove, SlotBatchBlock,
     SlotRewriteBlock, SlotCommitCatalog, SlotCommitHeader, SlotRemoveEntry,
     SlotSwapSecond, SlotSwapBack, SlotFormatHeader, SlotFormatCatalog, SlotNoWrite
  DEF Handler
<1>3. CASE Environment
  BY <1>3, SlotChangeSong, SlotRestart DEF Environment, PowerCycle, Crash
<1>4. CASE UNCHANGED vars
  BY <1>4 DEF vars, SlotInv, EntryOf
<1> QED BY <1>1, <1>2, <1>3, <1>4 DEF Next

\* A blank card and a formatted one have no upload.
LEMMA SlotInit == Init => SlotInv
BY FixedTypes DEF Init, SlotInv

(***************************************************************************)
(* Every acknowledged song stays in the catalog.                           *)
(***************************************************************************)

\* A failing card or a reset leaves a swap half done.
SwapSafe ==
  "swap" \notin Commands \/ ("io" \notin Faults /\ "crash" \notin Faults)

\* A step that overwrites no entry of a song still acknowledged.
LEMMA ListFrame ==
  ASSUME ListInv, pc # "swap", acked' \subseteq acked,
         \A s \in acked : place'[s] = place[s],
         hdr' = hdr \/ hdr'.count >= hdr.count,
         TypeOK, TypeOK',
         \A i \in Slots : i < hdr.count =>
           cat'[i] = cat[i] \/ cat[i].name \notin acked'
  PROVE  \A s \in acked' : InCatalog(s)'
<1> SUFFICES ASSUME NEW s \in acked' PROVE InCatalog(s)'
  OBVIOUS
<1>1. PICK i \in Slots : i < hdr.count /\ cat[i] = EntryOf(s)
  BY DEF ListInv, InCatalog
<1>2. cat[i].name = s
  BY <1>1 DEF EntryOf
<1>3. cat'[i] = cat[i] /\ place'[s] = place[s]
  BY <1>1, <1>2
<1>4. i < hdr'.count
  BY <1>1, ConstantFacts DEF TypeOK, Headers
<1> QED BY <1>1, <1>3, <1>4 DEF InCatalog, EntryOf

\* The same of a step that writes neither header nor catalog, or writes the
\* header without shortening the catalog.
LEMMA ListKept ==
  ASSUME ListInv, pc # "swap", acked' \subseteq acked, place' = place,
         hdr' = hdr \/ hdr'.count >= hdr.count, cat' = cat, TypeOK, TypeOK'
  PROVE  \A s \in acked' : InCatalog(s)'
BY ListFrame

\* A step after which no swap and no format is running.
LEMMA ListQuiet ==
  ASSUME SlotInv', pc' \notin {"swap", "swapBack", "formatCat"},
         \A s \in acked' : InCatalog(s)'
  PROVE  ListInv'
BY DEF ListInv, SwapInv

\* SONG_BEGIN starting keeps the acknowledged songs listed.
LEMMA ListSongBegin ==
  ASSUME Good, Good', SlotInv', ListInv, NEW s, NEW audio, NEW level,
         SongBegin(s, audio, level)
  PROVE  ListInv'
BY ListKept, ListQuiet DEF SongBegin, BeginWith, disk, Good

\* A refused SONG_BEGIN keeps the acknowledged songs listed.
LEMMA ListBeginRejected ==
  ASSUME Good, Good', SlotInv', ListInv, BeginRejected
  PROVE  ListInv'
BY ListKept, ListQuiet, AnswerTypes DEF BeginRejected, disk, Good

\* The slot BEGIN claims is free, and the song it is for is not acknowledged.
LEMMA ListBeginAddSong ==
  ASSUME Good, Good', SlotInv', ListInv, NEW o, BeginAddSong(o)
  PROVE  ListInv'
<1>1. /\ hdr' = hdr /\ acked' = acked
      /\ \A i \in Slots : i # ClaimSlot => cat'[i] = cat[i]
  BY EntryWritten DEF BeginAddSong, Good
<1>2. \A s \in acked : place'[s] = place[s]
  BY DEF BeginAddSong, Good, TypeOK, Bounds, Inv, BeginInv, Places
<1>3. ClaimSlot < hdr.count => cat[ClaimSlot].name \notin acked
  BY Claimed, NameAssumption, ConstantFacts DEF Good, TypeOK, Headers, Holes
<1>4. \A s \in acked' : InCatalog(s)'
  BY <1>1, <1>2, <1>3, ListFrame DEF BeginAddSong, Good
<1>5. pc' \in {"beginHdr", "idle"}
  BY AnswerTypes DEF BeginAddSong
<1> QED BY <1>4, <1>5, ListQuiet

\* SONG_BEGIN's header write keeps the acknowledged songs listed.
LEMMA ListBeginWriteHeader ==
  ASSUME Good, Good', SlotInv, SlotInv', ListInv, NEW o, BeginWriteHeader(o)
  PROVE  ListInv'
<1>1. hdr' = hdr \/ hdr'.count >= hdr.count
  BY ConstantFacts DEF BeginWriteHeader, WriteHeader, SlotInv, Good, TypeOK, Headers
<1> QED
  BY <1>1, ListKept, ListQuiet, AnswerTypes DEF BeginWriteHeader, WriteHeader, Good

\* Upload_abort ending the session keeps the acknowledged songs listed.
LEMMA ListAbortSession ==
  ASSUME Good, Good', SlotInv', ListInv, AbortSession
  PROVE  ListInv'
<1>1. hdr' = hdr /\ cat' = cat
  BY SessionClosed DEF AbortSession, disk, Good
<1> QED BY <1>1, ListKept, ListQuiet DEF AbortSession, Good

\* The entry an abort frees is the upload's own.
LEMMA ListAbortRemove ==
  ASSUME Good, Good', SlotInv, SlotInv', ListInv, NEW o, AbortRemove(o)
  PROVE  ListInv'
<1>1. /\ hdr' = hdr /\ acked' = acked /\ place' = place
      /\ \A i \in Slots : i # up.idx => cat'[i] = cat[i]
  BY EntryWritten DEF AbortRemove, AfterAbort, Good
<1>2. cat[up.idx].name \notin acked
  BY DEF AbortRemove, SlotInv, EntryOf, Good, Inv, UploadInv
<1>3. \A s \in acked' : InCatalog(s)'
  BY <1>1, <1>2, ListFrame DEF AbortRemove, Good
<1>4. pc' \in {"idle", "begin", "format"}
  BY DEF AbortRemove, Resume, Good, TypeOK, Locals
<1> QED BY <1>3, <1>4, ListQuiet

\* A DTR drop keeps the acknowledged songs listed.
LEMMA ListDtrDrop ==
  ASSUME Good, Good', SlotInv', ListInv, DtrDrop
  PROVE  ListInv'
BY ListKept, ListQuiet DEF DtrDrop, disk, Good

\* The start of a batch keeps the acknowledged songs listed.
LEMMA ListSongMultiblock ==
  ASSUME Good, Good', SlotInv', ListInv, NEW n, SongMultiblock(n)
  PROVE  ListInv'
BY ListKept, ListQuiet DEF SongMultiblock, disk, Good

\* A host that stalls in a batch keeps the acknowledged songs listed.
LEMMA ListBatchTimeout ==
  ASSUME Good, Good', SlotInv', ListInv, BatchTimeout
  PROVE  ListInv'
BY ListKept, ListQuiet DEF BatchTimeout, disk, Good

\* A block of a batch keeps the acknowledged songs listed.
LEMMA ListBatchBlock ==
  ASSUME Good, Good', SlotInv', ListInv, NEW o, BatchBlock(o)
  PROVE  ListInv'
<1>1. pc' \in {"idle", "batch", "verify"}
  BY NextBlock DEF BatchBlock, Good, Bounds, Receiving
<1> QED BY <1>1, ListKept, ListQuiet DEF BatchBlock, StreamBlock, WriteData, Good

\* A rewritten block keeps the acknowledged songs listed.
LEMMA ListRewriteBlock ==
  ASSUME Good, Good', SlotInv', ListInv, NEW o, RewriteBlock(o)
  PROVE  ListInv'
<1>1. pc' \in {"idle", "batch", "verify"}
  BY NextBlock DEF RewriteBlock, Good, Bounds, Receiving
<1> QED BY <1>1, ListKept, ListQuiet DEF RewriteBlock, StreamBlock, WriteData, Good

\* The session end before a verify keeps the acknowledged songs listed.
LEMMA ListEndBeforeVerify ==
  ASSUME Good, Good', SlotInv', ListInv, EndBeforeVerify
  PROVE  ListInv'
<1>1. hdr' = hdr /\ cat' = cat
  BY SessionClosed DEF EndBeforeVerify, Good
<1> QED BY <1>1, ListKept, ListQuiet DEF EndBeforeVerify, Good

\* A block found good keeps the acknowledged songs listed.
LEMMA ListVerifyMatches ==
  ASSUME Good, Good', SlotInv', ListInv, VerifyMatches
  PROVE  ListInv'
<1>1. pc' \in {"idle", "batch", "abort"}
  BY NextBlock DEF VerifyMatches, Good, Bounds, Receiving
<1> QED BY <1>1, ListKept, ListQuiet DEF VerifyMatches, disk, Good

\* A block found bad keeps the acknowledged songs listed.
LEMMA ListVerifyFails ==
  ASSUME Good, Good', SlotInv', ListInv, VerifyFails
  PROVE  ListInv'
BY ListKept, ListQuiet DEF VerifyFails, disk, Good

\* SONG_BLOCK keeps the acknowledged songs listed.
LEMMA ListSongBlock ==
  ASSUME Good, Good', SlotInv', ListInv, NEW o, SongBlock(o)
  PROVE  ListInv'
BY ListKept, ListQuiet DEF SongBlock, WriteData, Good

\* SONG_COMMIT starting keeps the acknowledged songs listed.
LEMMA ListSongCommit ==
  ASSUME Good, Good', SlotInv', ListInv, SongCommit
  PROVE  ListInv'
<1>1. hdr' = hdr /\ cat' = cat
  BY SessionClosed DEF SongCommit, disk, Good
<1> QED BY <1>1, ListKept, ListQuiet DEF SongCommit, Good

\* SONG_COMMIT's catalog write keeps the acknowledged songs listed.
LEMMA ListCommitCatalog ==
  ASSUME Good, Good', SlotInv, SlotInv', ListInv, NEW o, CommitCatalog(o)
  PROVE  ListInv'
BY SameEntry, ListKept, ListQuiet, AnswerTypes DEF CommitCatalog, Good

\* A commit that cannot read the header keeps the acknowledged songs listed.
LEMMA ListCommitUnread ==
  ASSUME Good, Good', SlotInv', ListInv, CommitUnread
  PROVE  ListInv'
BY ListKept, ListQuiet, AnswerTypes DEF CommitUnread, disk, Good

\* The song COMMIT acknowledges is the one in the upload's slot.
LEMMA ListCommitHeader ==
  ASSUME Good, Good', SlotInv, SlotInv', ListInv, NEW o, CommitHeader(o)
  PROVE  ListInv'
<1>1. up.active /\ up.idx \in Slots /\ up.idx < hdr.count /\ cat[up.idx] = EntryOf(up.song)
  BY DEF CommitHeader, SlotInv, Good, Bounds, TypeOK, Uploads
<1>2. hdr'.count = hdr.count /\ cat' = cat /\ place' = place
  BY DEF CommitHeader, WriteHeader, Good, TypeOK, Headers
<1>3. acked' \subseteq acked \union {up.song}
  BY DEF CommitHeader
<1>4. \A s \in acked' : InCatalog(s)'
  <2>1. ASSUME NEW s, s = up.song PROVE InCatalog(s)'
    BY <1>1, <1>2, <2>1 DEF InCatalog, EntryOf
  <2>2. \A s \in acked : InCatalog(s)'
    BY <1>2 DEF ListInv, InCatalog, EntryOf, CommitHeader
  <2> QED BY <1>3, <2>1, <2>2
<1> QED BY <1>4, ListQuiet, AnswerTypes DEF CommitHeader

\* SONG_REMOVE starting keeps the acknowledged songs listed.
LEMMA ListSongRemove ==
  ASSUME Good, Good', SlotInv', ListInv, NEW i, SongRemove(i)
  PROVE  ListInv'
BY ListKept, ListQuiet DEF SongRemove, disk, Good

\* A step that writes nothing keeps the acknowledged songs listed.
LEMMA ListNoWrite ==
  ASSUME Good, Good', SlotInv', ListInv, HostRead \/ HostReadDone \/ RemoveRefused
  PROVE  ListInv'
BY ListKept, ListQuiet, AnswerTypes DEF HostRead, HostReadDone, RemoveRefused, disk, Good

\* SONG_REMOVE gives up the song whose entry it frees.
LEMMA ListRemoveEntry ==
  ASSUME Good, Good', SlotInv', ListInv, NEW o, RemoveEntry(o)
  PROVE  ListInv'
<1>1. /\ hdr' = hdr /\ acked' = acked \ {cat[loc.idx].name} /\ place' = place
      /\ \A i \in Slots : i # loc.idx => cat'[i] = cat[i]
  BY EntryWritten DEF RemoveEntry, Good
<1>2. \A s \in acked' : InCatalog(s)'
  BY <1>1, ListFrame DEF RemoveEntry, Good
<1> QED BY <1>2, ListQuiet, AnswerTypes DEF RemoveEntry

\* What SONG_SWAP's first write does when a write cannot fail.
LEMMA SwapStarted ==
  ASSUME TypeOK, "io" \notin Faults, NEW i \in Slots, NEW j \in Slots,
         NEW o \in Outcomes, SongSwap(i, j, o)
  PROVE  /\ pc' = "swap" /\ loc'.idx = i /\ loc'.other = j /\ loc'.saved = cat[i]
         /\ hdr' = hdr /\ data' = data /\ cat'[i] = cat[j] /\ cat'[j] = cat[j]
         /\ \A k \in Slots : k # i => cat'[k] = cat[k]
<1>1. o = "ok"
  BY DEF Outcomes
<1>2. cat[j] \in Entries /\ WriteCatalog([cat EXCEPT ![i] = cat[j]], o) /\ i # j
  BY DEF SongSwap, TypeOK, Catalogs
<1>3. /\ hdr' = hdr /\ data' = data
      /\ \A k \in Slots : k # i => cat'[k] = cat[k]
      /\ i \in Slots => cat'[i] = IF Landed(o) THEN cat[j] ELSE cat[i]
  BY <1>2, EntryWritten
<1>6. Landed(o)
  BY <1>1 DEF Landed
<1>4. pc' = "swap" /\ loc' = [NoLocals EXCEPT !.idx = i, !.other = j, !.saved = cat[i]]
  BY <1>1 DEF SongSwap
<1>5. loc'.idx = i /\ loc'.other = j /\ loc'.saved = cat[i]
  BY <1>4 DEF NoLocals
<1> QED BY <1>2, <1>3, <1>4, <1>5, <1>6

\* SONG_SWAP's first write keeps the acknowledged songs listed.
LEMMA ListSongSwap ==
  ASSUME SwapSafe, Good, Good', SlotInv', ListInv, NEW i \in Slots, NEW j \in Slots,
         NEW o \in Outcomes, SongSwap(i, j, o)
  PROVE  ListInv'
<1>1. "swap" \in Commands /\ "io" \notin Faults
  BY DEF SongSwap, SwapSafe
<1>2. /\ pc' = "swap" /\ loc'.idx = i /\ loc'.other = j /\ loc'.saved = cat[i]
      /\ hdr' = hdr /\ cat'[i] = cat[j] /\ cat'[j] = cat[j]
      /\ \A k \in Slots : k # i => cat'[k] = cat[k]
  BY <1>1, SwapStarted DEF Good
<1>3. SwapInv'
  BY <1>1, <1>2 DEF SongSwap, SwapInv
<1>4. ASSUME NEW s \in acked
      PROVE  InCatalog(s)' \/ loc'.saved = EntryOf(s)'
  <2>1. PICK k \in Slots : k < hdr.count /\ cat[k] = EntryOf(s)
    BY DEF ListInv, InCatalog, SongSwap
  <2>2. EntryOf(s)' = EntryOf(s)
    BY DEF SongSwap, EntryOf
  <2> QED BY <1>2, <2>1, <2>2 DEF InCatalog
<1> QED BY <1>2, <1>3, <1>4 DEF ListInv, SongSwap

\* What its second write does.
LEMMA SwapFinished ==
  ASSUME TypeOK, "io" \notin Faults, NEW o \in Outcomes, SwapSecond(o)
  PROVE  /\ pc' = "idle" /\ hdr' = hdr /\ data' = data
         /\ loc.other \in Slots /\ cat'[loc.other] = loc.saved
         /\ \A k \in Slots : k # loc.other => cat'[k] = cat[k]
<1>1. o = "ok"
  BY DEF Outcomes
<1>2. loc.other \in Slots /\ WriteCatalog([cat EXCEPT ![loc.other] = loc.saved], o)
  BY DEF SwapSecond, SwapEntry, TypeOK, Locals
<1>3. /\ hdr' = hdr /\ data' = data
      /\ \A k \in Slots : k # loc.other => cat'[k] = cat[k]
      /\ loc.other \in Slots =>
           cat'[loc.other] = IF Landed(o) THEN loc.saved ELSE cat[loc.other]
  BY <1>2, EntryWritten
<1>4. Landed(o)
  BY <1>1 DEF Landed
<1> QED BY <1>1, <1>2, <1>3, <1>4, AnswerTypes DEF SwapSecond

\* The second entry is in the first slot too when it is overwritten.
LEMMA ListSwapSecond ==
  ASSUME SwapSafe, Good, Good', SlotInv', ListInv, NEW o \in Outcomes, SwapSecond(o)
  PROVE  ListInv'
<1>1. pc = "swap" /\ SwapInv /\ "io" \notin Faults
  BY DEF SwapSecond, ListInv, SwapInv, SwapSafe
<1>2. /\ pc' = "idle" /\ hdr' = hdr /\ loc.other \in Slots /\ cat'[loc.other] = loc.saved
      /\ \A k \in Slots : k # loc.other => cat'[k] = cat[k]
  BY <1>1, SwapFinished DEF Good
<1>3. ASSUME NEW s \in acked PROVE InCatalog(s)'
  <2>1. EntryOf(s)' = EntryOf(s)
    BY DEF SwapSecond, EntryOf
  <2>2. CASE loc.saved = EntryOf(s)
    BY <1>1, <1>2, <2>1, <2>2 DEF InCatalog, SwapInv
  <2>3. CASE InCatalog(s)
    <3>1. PICK k \in Slots : k < hdr.count /\ cat[k] = EntryOf(s)
      BY <2>3 DEF InCatalog
    <3>2. CASE k = loc.other
      BY <1>1, <1>2, <2>1, <3>1, <3>2 DEF InCatalog, SwapInv
    <3>3. CASE k # loc.other
      BY <1>2, <2>1, <3>1, <3>3 DEF InCatalog
    <3> QED BY <3>2, <3>3
  <2> QED BY <2>2, <2>3 DEF ListInv
<1>4. acked' = acked
  BY DEF SwapSecond
<1> QED BY <1>2, <1>3, <1>4, ListQuiet

\* DISK_FORMAT starting keeps the acknowledged songs listed.
LEMMA ListDiskFormat ==
  ASSUME Good, Good', SlotInv', ListInv, DiskFormat
  PROVE  ListInv'
BY ListKept, ListQuiet DEF DiskFormat, disk, Good

\* The format gives every song up before it zeroes an entry.
LEMMA ListFormat ==
  ASSUME SlotInv', ListInv, NEW o, FormatHeader(o) \/ FormatCatalog(o)
  PROVE  ListInv'
<1>1. acked' = {}
  BY DEF FormatHeader, FormatCatalog, ListInv
<1>2. pc' \in {"idle", "formatCat"}
  BY AnswerTypes DEF FormatHeader, FormatCatalog
<1> QED BY <1>1, <1>2 DEF ListInv, SwapInv

\* A skip keeps the acknowledged songs listed.
LEMMA ListChangeSong ==
  ASSUME SlotInv', ListInv, NEW dir, NEW unread, ChangeSong(dir, unread)
  PROVE  ListInv'
BY DEF ChangeSong, disk, ListInv, SwapInv, InCatalog, EntryOf

\* A power cycle keeps the acknowledged songs listed.
LEMMA ListPowerCycle ==
  ASSUME Good, Good', SlotInv', ListInv, NEW unread, PowerCycle(unread)
  PROVE  ListInv'
BY ListKept, ListQuiet, AnswerTypes DEF PowerCycle, Restart, Good

\* With nothing in a cache a reset returns the card as it is.
LEMMA CrashKeeps ==
  ASSUME Good, NEW unread, Crash(unread)
  PROVE  hdr' = hdr /\ cat' = cat /\ data' = data
<1>1. nand.hdr = hdr /\ nand.cat = cat /\ nand.data = data
  BY DEF Good, Inv, AllBlocks
<1>2. /\ data = [b \in DataBlocks |-> data[b]]
      /\ cat = [i \in Slots |-> cat[i]]
  BY DEF Good, TypeOK, Contents, Catalogs
<1>3. /\ data' = [b \in DataBlocks |-> data[b]]
      /\ cat' = [i \in Slots |-> cat[i]]
  BY <1>1 DEF Crash
<1> QED BY <1>1, <1>2, <1>3 DEF Crash

\* A reset keeps the acknowledged songs listed.
LEMMA ListCrash ==
  ASSUME SwapSafe, Good, Good', SlotInv', ListInv, NEW unread, Crash(unread)
  PROVE  ListInv'
<1>1. pc # "swap"
  BY DEF Crash, ListInv, SwapInv, SwapSafe
<1> QED BY <1>1, CrashKeeps, ListKept, ListQuiet, AnswerTypes DEF Crash, Restart, Good

\* Every step keeps the acknowledged songs listed.
LEMMA ListStep ==
  ASSUME Plain, SwapSafe
  PROVE  Good /\ ListInv /\ [Next]_vars => ListInv'
<1> SUFFICES ASSUME Good, ListInv, [Next]_vars PROVE ListInv'
  OBVIOUS
<1>1. SlotInv /\ SlotInv' /\ Good'
  BY Plain, GoodStep, SlotStep DEF ListInv
<1>2. CASE Command
  BY SwapSafe, <1>1, <1>2, ListSongBegin, ListSongMultiblock, ListSongBlock,
     ListSongCommit, ListSongRemove, ListNoWrite, ListSongSwap, ListDiskFormat, ListDtrDrop
  DEF Command
<1>3. CASE Handler
  <2>1. \A o : ~SwapBack(o)
    BY DEF SwapBack, ListInv
  <2> QED
    BY SwapSafe, <1>1, <1>3, <2>1, ListBeginRejected, ListAbortSession, ListCommitUnread,
     ListEndBeforeVerify, ListVerifyMatches, ListVerifyFails, ListBatchTimeout,
     ListBeginAddSong, ListBeginWriteHeader, ListAbortRemove, ListBatchBlock,
     ListRewriteBlock, ListCommitCatalog, ListCommitHeader, ListRemoveEntry,
     ListSwapSecond, ListFormat, ListNoWrite
    DEF Handler
<1>4. CASE Environment
  BY SwapSafe, <1>1, <1>4, ListChangeSong, ListPowerCycle, ListCrash DEF Environment
<1>5. CASE UNCHANGED vars
  BY <1>1, <1>5 DEF vars, ListInv, SwapInv, InCatalog, EntryOf
<1> QED BY <1>2, <1>3, <1>4, <1>5 DEF Next

\* They have nothing acknowledged.
LEMMA ListInit == Init => ListInv
BY SlotInit DEF Init, ListInv, SwapInv

\* A song whose COMMIT was answered OK can be found in the catalog under its own
\* start and length until the host gives it up: no BEGIN claims its slot, no
\* abort, failed write, retry or reset takes its entry or shortens the catalog.
THEOREM StaysListed == ASSUME Plain, SwapSafe PROVE Spec => []AckedListed
<1>1. Good /\ ListInv => AckedListed
  <2> SUFFICES ASSUME Good, ListInv, pc \notin {"swap", "swapBack"}, NEW s \in acked
      PROVE  \E i \in Slots : Visible(i) /\ cat[i] = EntryOf(s)
    BY DEF AckedListed, EntryOf
  <2>1. PICK i \in Slots : i < hdr.count /\ cat[i] = EntryOf(s)
    BY DEF ListInv, InCatalog
  <2>2. s \in Songs /\ s # NoName /\ place[s].audio > 0
    BY NameAssumption DEF Good, TypeOK, Inv, AckedInv
  <2> QED BY <2>1, <2>2 DEF Visible, Playable, EntryOf
<1>2. Init => ListInv
  BY ListInit
<1>3. Good /\ ListInv /\ [Next]_vars => ListInv'
  BY Plain, SwapSafe, ListStep
<1> QED BY <1>1, <1>2, <1>3, AlwaysGood, PTL DEF Spec

(***************************************************************************)
(* On a card that never fails: every entry a scan finds, but the one of    *)
(* the running upload, is a whole song.                                    *)
(***************************************************************************)

\* A card that answers every command, and a player that is not reset.
Sound == "io" \notin Faults /\ "crash" \notin Faults

\* Every write such a card takes lands and is answered.
LEMMA SoundCard ==
  ASSUME Sound
  PROVE  Outcomes = {"ok"} /\ Fails = {FALSE} /\ Landed("ok")
BY DEF Sound, Outcomes, Fails, Landed

\* The blocks of a whole song stay what they are while nothing is written in
\* front of next_free_block and that does not move back.
LEMMA WholeKept ==
  ASSUME TypeOK, TypeOK', NEW e, Whole(e), place'[e.name] = place[e.name],
         hdr'.next >= hdr.next,
         \A b \in DataBlocks : b < hdr.next => data'[b] = data[b]
  PROVE  Whole(e)'
<1>1. /\ e.name \in Songs /\ e = EntryOf(e.name) /\ e.start \in Nat
      /\ Len(e.name) \in Nat /\ e.start + Len(e.name) <= hdr.next
      /\ hdr.next \in Nat /\ hdr'.next \in Nat
  BY ConstantFacts DEF Whole, Used, EntryOf, TypeOK, Places, Len, Headers
<1>2. e.name \in Used' /\ e = EntryOf(e.name)' /\ Len(e.name)' = Len(e.name)
  BY <1>1 DEF Whole, Used, EntryOf, Len
<1>3. ASSUME NEW k \in 0 .. (Len(e.name) - 1) PROVE Holds(e.start + k, e.name, k)'
  <2>1. Holds(e.start + k, e.name, k) /\ e.start + k < hdr.next
    BY <1>1 DEF Whole
  <2> QED BY <2>1 DEF Holds
<1>4. e.start + Len(e.name)' <= hdr'.next
  BY <1>1, <1>2
<1> QED BY <1>2, <1>3, <1>4 DEF Whole

\* Wherever an entry is written, it is as whole as it was.
LEMMA WholeAt ==
  ASSUME NEW e, Whole(e)', NEW i, cat'[i] = e
  PROVE  Whole(cat[i])'
BY DEF Whole, Holds, EntryOf, Used, Len

\* A whole song is not the one a BEGIN or an upload gives the free blocks to.
LEMMA WholeIsOther ==
  ASSUME TypeOK, NEW e, Whole(e), NEW s, place[s].start = hdr.next
  PROVE  e.name # s
<1>1. /\ e.name \in Songs /\ e.start = place[e.name].start
      /\ place[e.name].audio > 0
      /\ place[e.name].start + Len(e.name) <= hdr.next
  BY DEF Whole, Used, EntryOf
<1> QED BY <1>1, ConstantFacts DEF TypeOK, Places, Headers, Len

\* The entries of LibInv, and the song of a BEGIN.
WholeSlots == \A i \in Slots : Visible(i) /\ ~Pending(i) => Whole(cat[i])
Unbegun == pc # "beginHdr" /\ loc.then = "begin" => loc.song \notin Used

\* A step that neither begins nor ends an upload and leaves the catalog alone.
LEMMA LibFrame ==
  ASSUME Good, Good', LibInv, SlotInv',
         pc \notin {"beginHdr", "swap"},
         pc' \notin {"beginHdr", "swap", "swapBack", "verify", "rewrite", "formatCat"},
         hdr' = hdr, cat' = cat, place' = place,
         \A b \in DataBlocks : b < hdr.next => data'[b] = data[b],
         up'.active = up.active, up'.idx = up.idx, Unbegun'
  PROVE  LibInv'
<1>1. ASSUME NEW e, Whole(e) PROVE Whole(e)'
  BY <1>1, WholeKept, ConstantFacts DEF Good, TypeOK, Headers
<1>2. WholeSlots'
  <2> SUFFICES ASSUME NEW i \in Slots, Visible(i)', ~Pending(i)'
        PROVE  Whole(cat[i])'
    BY DEF WholeSlots
  <2>1. Visible(i) /\ ~Pending(i)
    BY DEF Visible, Pending
  <2>2. PICK e : e = cat[i]
    OBVIOUS
  <2>3. Whole(e) /\ cat'[i] = e
    BY <2>1, <2>2 DEF LibInv
  <2> QED BY <1>1, <2>3, WholeAt
<1> QED BY <1>2 DEF LibInv, SwapInv, WholeSlots, Unbegun

\* A step that writes no block at all.
LEMMA LibStill ==
  ASSUME Good, Good', LibInv, SlotInv',
         pc \notin {"beginHdr", "swap"},
         pc' \notin {"beginHdr", "swap", "swapBack", "verify", "rewrite", "formatCat"},
         hdr' = hdr, cat' = cat, data' = data, place' = place,
         up'.active = up.active, up'.idx = up.idx, Unbegun'
  PROVE  LibInv'
BY LibFrame

\* SONG_BEGIN starting keeps the entries of the library whole.
LEMMA LibSongBegin ==
  ASSUME Good, Good', SlotInv', LibInv, NEW s, NEW audio, NEW level,
         SongBegin(s, audio, level)
  PROVE  LibInv'
<1>1. loc'.song = s /\ s \notin Used'
  BY DEF SongBegin, Used, NoLocals
<1> QED BY <1>1, LibStill DEF SongBegin, BeginWith, disk, Unbegun

\* A refused SONG_BEGIN keeps the entries of the library whole.
LEMMA LibBeginRejected ==
  ASSUME Good, Good', SlotInv', LibInv, BeginRejected
  PROVE  LibInv'
BY LibStill, AnswerTypes DEF BeginRejected, disk, Unbegun

\* Upload_abort ending the session keeps the entries of the library whole.
LEMMA LibAbortSession ==
  ASSUME Good, Good', SlotInv', LibInv, AbortSession
  PROVE  LibInv'
<1>1. /\ hdr' = hdr /\ cat' = cat /\ data' = data
      /\ up'.active = up.active /\ up'.idx = up.idx
  BY SessionClosed DEF AbortSession, disk, Good
<1>2. Unbegun'
  BY DEF AbortSession, LibInv, Unbegun, Used
<1> QED BY <1>1, <1>2, LibStill DEF AbortSession

\* A DTR drop keeps the entries of the library whole.
LEMMA LibDtrDrop ==
  ASSUME Good, Good', SlotInv', LibInv, DtrDrop
  PROVE  LibInv'
BY LibStill DEF DtrDrop, disk, Unbegun, Used, LibInv

\* The start of a batch keeps the entries of the library whole.
LEMMA LibSongMultiblock ==
  ASSUME Good, Good', SlotInv', LibInv, NEW n, SongMultiblock(n)
  PROVE  LibInv'
<1>1. up'.active = up.active /\ up'.idx = up.idx
  BY DEF SongMultiblock, Good, TypeOK, Uploads
<1>2. Unbegun'
  BY FixedTypes DEF SongMultiblock, Unbegun, NoLocals
<1> QED BY <1>1, <1>2, LibStill DEF SongMultiblock, disk

\* A host that stalls in a batch keeps the entries of the library whole.
LEMMA LibBatchTimeout ==
  ASSUME Good, Good', SlotInv', LibInv, BatchTimeout
  PROVE  LibInv'
BY LibStill, FixedTypes DEF BatchTimeout, disk, Unbegun

\* The upload writes behind next_free_block.
LEMMA UploadBehind ==
  ASSUME Good, up.active, NEW s, NEW k, NEW o,
         WriteData(up.start + up.written, s, k, o)
  PROVE  /\ hdr' = hdr /\ cat' = cat
         /\ \A b \in DataBlocks : b < hdr.next => data'[b] = data[b]
<1>1. up.start = hdr.next /\ up.start \in Nat /\ up.written \in Nat
  BY ConstantFacts DEF Good, Inv, UploadInv, TypeOK, Uploads
<1>2. ASSUME NEW b \in DataBlocks, b < hdr.next
      PROVE  b # up.start + up.written
  BY <1>1, <1>2 DEF DataBlocks
<1> QED BY <1>2 DEF WriteData, Good, TypeOK, Contents

\* A block of a batch keeps the entries of the library whole.
LEMMA LibBatchBlock ==
  ASSUME Sound, Good, Good', SlotInv', LibInv, NEW o \in Outcomes, BatchBlock(o)
  PROVE  LibInv'
<1>1. o = "ok"
  BY SoundCard
<1>2. up.active /\ loc.left >= 1 /\ card.pos = up.start + up.written
  BY DEF BatchBlock, Good, Bounds, Receiving, Inv, SessionInv, TypeOK, Sessions
<1>3. up'.active = up.active /\ up'.idx = up.idx
  BY <1>1 DEF BatchBlock, Good, TypeOK, Uploads
<1>4. pc' \in {"idle", "batch"} /\ loc'.then = "idle"
  BY <1>1, <1>2, NextBlock DEF BatchBlock, Good
<1>5. /\ hdr' = hdr /\ cat' = cat
      /\ \A b \in DataBlocks : b < hdr.next => data'[b] = data[b]
  BY <1>2, UploadBehind DEF BatchBlock, StreamBlock
<1> QED BY <1>3, <1>4, <1>5, LibFrame DEF BatchBlock, Unbegun

\* SONG_BLOCK keeps the entries of the library whole.
LEMMA LibSongBlock ==
  ASSUME Good, Good', SlotInv', LibInv, NEW o, SongBlock(o)
  PROVE  LibInv'
<1>1. up'.active = up.active /\ up'.idx = up.idx
  BY DEF SongBlock, Good, TypeOK, Uploads
<1>2. /\ hdr' = hdr /\ cat' = cat
      /\ \A b \in DataBlocks : b < hdr.next => data'[b] = data[b]
  BY UploadBehind DEF SongBlock
<1> QED BY <1>1, <1>2, LibFrame DEF SongBlock, Unbegun, LibInv, Used

\* SONG_COMMIT starting keeps the entries of the library whole.
LEMMA LibSongCommit ==
  ASSUME Good, Good', SlotInv', LibInv, SongCommit
  PROVE  LibInv'
<1>1. /\ hdr' = hdr /\ cat' = cat /\ data' = data
      /\ up'.active = up.active /\ up'.idx = up.idx
  BY SessionClosed DEF SongCommit, disk, Good
<1>2. loc.then # "begin"
  BY DEF SongCommit, Good, Inv, BeginInv
<1> QED BY <1>1, <1>2, LibStill DEF SongCommit, Unbegun

\* SONG_COMMIT's catalog write keeps the entries of the library whole.
LEMMA LibCommitCatalog ==
  ASSUME Good, Good', SlotInv', LibInv, NEW o, CommitCatalog(o)
  PROVE  LibInv'
<1>1. hdr' = hdr /\ cat' = cat /\ data' = data
  BY SameEntry DEF LibInv
<1>2. loc.then # "begin"
  BY DEF CommitCatalog, Good, Inv, BeginInv
<1> QED BY <1>1, <1>2, LibStill, AnswerTypes DEF CommitCatalog, Unbegun

\* SONG_REMOVE starting keeps the entries of the library whole.
LEMMA LibSongRemove ==
  ASSUME Good, Good', SlotInv', LibInv, NEW i, SongRemove(i)
  PROVE  LibInv'
BY LibStill, FixedTypes DEF SongRemove, disk, Unbegun, NoLocals

\* A step that writes nothing keeps the entries of the library whole.
LEMMA LibNoWrite ==
  ASSUME Good, Good', SlotInv', LibInv, HostRead \/ HostReadDone \/ RemoveRefused
  PROVE  LibInv'
<1>1. Unbegun'
  BY AnswerTypes
  DEF HostRead, HostReadDone, RemoveRefused, Unbegun, LibInv, Used
<1> QED BY <1>1, LibStill, AnswerTypes DEF HostRead, HostReadDone, RemoveRefused, disk

\* DISK_FORMAT starting keeps the entries of the library whole.
LEMMA LibDiskFormat ==
  ASSUME Good, Good', SlotInv', LibInv, DiskFormat
  PROVE  LibInv'
BY LibStill, FixedTypes DEF DiskFormat, disk, Unbegun, NoLocals

\* A power cycle keeps the entries of the library whole.
LEMMA LibPowerCycle ==
  ASSUME Good, Good', SlotInv', LibInv, NEW unread, PowerCycle(unread)
  PROVE  LibInv'
<1>1. up' = up
  BY DEF PowerCycle, Restart, LibInv, SlotInv
<1> QED BY <1>1, LibStill, AnswerTypes DEF PowerCycle, Restart, Unbegun

\* A skip keeps the entries of the library whole.
LEMMA LibChangeSong ==
  ASSUME SlotInv', LibInv, NEW dir, NEW unread, ChangeSong(dir, unread)
  PROVE  LibInv'
BY DEF ChangeSong, disk, LibInv, SwapInv, Visible, Pending, Whole, EntryOf, Len, Used,
       Holds

(***************************************************************************)
(* The steps that change the catalog or an upload's claim to a slot.       *)
(***************************************************************************)

\* The whole entries after a step, given where each visible one comes from.
LEMMA LibChanged ==
  ASSUME LibInv, \A e : Whole(e) => Whole(e)',
         \A i \in Slots : Visible(i)' /\ ~Pending(i)' =>
           \/ Visible(i) /\ ~Pending(i) /\ cat'[i] = cat[i]
           \/ Whole(cat'[i])
  PROVE  WholeSlots'
<1> SUFFICES ASSUME NEW i \in Slots, Visible(i)', ~Pending(i)'
      PROVE  Whole(cat[i])'
  BY DEF WholeSlots
<1>1. PICK e : e = cat'[i]
  OBVIOUS
<1>2. Whole(e)
  BY <1>1 DEF LibInv
<1> QED BY <1>1, <1>2, WholeAt

\* Every whole song outlives a step that writes no data block and takes no
\* block back; a BEGIN gives a place only to a song that had none.
LEMMA WholeStill ==
  ASSUME Good, Good', data' = data, hdr'.next >= hdr.next,
         \A s \in Used : place'[s] = place[s]
  PROVE  \A e : Whole(e) => Whole(e)'
<1> SUFFICES ASSUME NEW e, Whole(e) PROVE Whole(e)'
  OBVIOUS
<1>1. place'[e.name] = place[e.name]
  BY DEF Whole
<1> QED BY <1>1, WholeKept DEF Good

\* disk_add_song writes into a slot no scan found.
LEMMA LibBeginAddSong ==
  ASSUME Sound, Good, Good', SlotInv', LibInv, NEW o \in Outcomes, BeginAddSong(o)
  PROVE  LibInv'
<1>1. o = "ok"
  BY SoundCard
<1>2. /\ pc' = "beginHdr" /\ loc'.idx = ClaimSlot /\ loc'.song = loc.song
      /\ ~up.active /\ up' = up /\ loc.song \in Songs /\ loc.song \notin Used
  BY <1>1 DEF BeginAddSong, Good, TypeOK, Locals, Inv, BeginInv, Bounds, LibInv
<1>3. /\ hdr' = hdr /\ data' = data
      /\ \A i \in Slots : i # ClaimSlot => cat'[i] = cat[i]
  BY EntryWritten DEF BeginAddSong, Good
<1>4. \A s \in Used : place'[s] = place[s]
  BY <1>2 DEF BeginAddSong, Good, TypeOK, Places, Used
<1>5. \A e : Whole(e) => Whole(e)'
  BY <1>3, <1>4, WholeStill, ConstantFacts DEF Good, TypeOK, Headers
<1>6. ASSUME NEW i \in Slots, Visible(i)', ~Pending(i)'
      PROVE  Visible(i) /\ ~Pending(i) /\ cat'[i] = cat[i]
  <2>1. i # ClaimSlot
    BY <1>2, <1>6 DEF Pending
  <2> QED BY <1>2, <1>3, <1>6, <2>1 DEF Visible, Pending, BeginAddSong
<1>7. WholeSlots'
  BY <1>5, <1>6, LibChanged
<1> QED BY <1>2, <1>7 DEF LibInv, SwapInv, WholeSlots

\* Counting the new slot in, BEGIN hands it to the upload.
LEMMA LibBeginWriteHeader ==
  ASSUME Sound, Good, Good', SlotInv', LibInv, NEW o \in Outcomes, BeginWriteHeader(o)
  PROVE  LibInv'
<1>1. o = "ok"
  BY SoundCard
<1>2. /\ up'.active = TRUE /\ up'.idx = loc.idx /\ ~up.active /\ pc' = "idle"
      /\ loc'.then = "idle"
  BY <1>1, AnswerTypes DEF BeginWriteHeader, Good, Inv, BeginInv
<1>3. /\ hdr'.next = hdr.next /\ hdr'.count = loc.count
      /\ cat' = cat /\ data' = data /\ place' = place
  BY <1>1 DEF BeginWriteHeader, WriteHeader, Landed, Good, TypeOK, Headers
<1>4. \A e : Whole(e) => Whole(e)'
  BY <1>3, WholeStill, ConstantFacts DEF Good, TypeOK, Headers
<1>5. ASSUME NEW i \in Slots, Visible(i)', ~Pending(i)'
      PROVE  Visible(i) /\ ~Pending(i) /\ cat'[i] = cat[i]
  <2>1. i # loc.idx /\ i \in Nat /\ hdr.count \in Nat
    BY <1>2, <1>5, ConstantFacts DEF Pending, Good, TypeOK, Headers
  <2>2. i < hdr.count
    BY <1>3, <1>5, <2>1 DEF Visible, LibInv, SlotInv, BeginWriteHeader
  <2> QED BY <1>2, <1>3, <1>5, <2>1, <2>2 DEF Visible, Pending
<1>6. WholeSlots'
  BY <1>4, <1>5, LibChanged
<1> QED BY <1>2, <1>6 DEF LibInv, SwapInv, WholeSlots

\* An abort frees the upload's slot and no other.
LEMMA LibAbortRemove ==
  ASSUME Sound, Good, Good', SlotInv', LibInv, NEW o \in Outcomes, AbortRemove(o)
  PROVE  LibInv'
<1>1. o = "ok"
  BY SoundCard
<1>2. /\ pc' \in {"idle", "begin", "format"} /\ ~up'.active /\ up.active
      /\ loc'.then = "begin" => loc.then = "begin" /\ loc'.song = loc.song
  BY FixedTypes DEF AbortRemove, Resume, Good, TypeOK, Locals, LibInv, SlotInv
<1>3. /\ hdr' = hdr /\ data' = data /\ place' = place
      /\ \A i \in Slots : i # up.idx => cat'[i] = cat[i]
      /\ cat'[up.idx] = Free
  <2>1. up.idx \in Slots
    BY DEF Good, TypeOK, Uploads
  <2> QED BY <1>1, <2>1, SoundCard, EntryWritten DEF AbortRemove, AfterAbort, Good
<1>4. \A e : Whole(e) => Whole(e)'
  BY <1>3, WholeStill, ConstantFacts DEF Good, TypeOK, Headers
<1>5. ASSUME NEW i \in Slots, Visible(i)', ~Pending(i)'
      PROVE  Visible(i) /\ ~Pending(i) /\ cat'[i] = cat[i]
  <2>1. i # up.idx
    BY <1>3, <1>5 DEF Visible, Playable, Free
  <2> QED BY <1>3, <1>5, <2>1 DEF Visible, Pending, AbortRemove
<1>6. WholeSlots'
  BY <1>4, <1>5, LibChanged
<1> QED BY <1>2, <1>3, <1>6 DEF LibInv, SwapInv, WholeSlots, Used, AbortRemove

\* The song a commit adds is on the card from end to end, and next_free_block
\* moves behind it.
LEMMA CommitWhole ==
  ASSUME Sound, Good, Good', SlotInv', LibInv, NEW o \in Outcomes, CommitHeader(o)
  PROVE  /\ up.active /\ up.written = up.expected /\ up.song \in Songs
         /\ place[up.song].audio > 0 /\ Len(up.song) = up.expected
         /\ cat' = cat /\ data' = data /\ place' = place
         /\ hdr'.count = hdr.count /\ hdr'.next >= hdr.next
         /\ up' = NoUpload /\ pc' = "idle" /\ loc'.then = "idle"
         /\ cat[up.idx] = EntryOf(up.song)
         /\ \A e : e = EntryOf(up.song) => Whole(e)'
<1>1. o = "ok"
  BY SoundCard
<1>2. /\ up.active /\ up.song \in Songs /\ up.written = up.expected
      /\ up.expected \in Nat /\ up.start \in Nat /\ up.start = hdr.next
      /\ place[up.song].start = up.start /\ place[up.song].audio > 0
      /\ Len(up.song) = up.expected
      /\ \A k \in 0 .. (up.written - 1) : Holds(up.start + k, up.song, k)
  BY ConstantFacts
  DEF CommitHeader, Good, Bounds, Complete, TypeOK, Uploads, Inv, UploadInv
<1>3. /\ cat' = cat /\ data' = data /\ place' = place
      /\ hdr'.count = hdr.count /\ hdr'.next = up.start + up.written
  BY <1>1 DEF CommitHeader, WriteHeader, Landed, NextFree, Good, TypeOK, Headers
<1>4. up' = NoUpload /\ pc' = "idle" /\ loc'.then = "idle"
  BY AnswerTypes DEF CommitHeader
<1>5. ASSUME NEW e, e = EntryOf(up.song) PROVE Whole(e)'
  <2>1. e.name = up.song /\ e.start = up.start
    BY <1>2, <1>5 DEF EntryOf
  <2>2. e.name \in Used' /\ e = EntryOf(e.name)' /\ Len(e.name)' = up.expected
    BY <1>2, <1>3, <1>5, <2>1 DEF Used, EntryOf, Len
  <2>3. \A k \in 0 .. (up.expected - 1) : Holds(e.start + k, e.name, k)'
    BY <1>2, <1>3, <2>1 DEF Holds
  <2>4. e.start + Len(e.name)' <= hdr'.next
    BY <1>2, <1>3, <2>1, <2>2
  <2> QED BY <2>2, <2>3, <2>4 DEF Whole
<1>6. cat[up.idx] = EntryOf(up.song)
  BY <1>2 DEF LibInv, SlotInv
<1> QED BY <1>2, <1>3, <1>4, <1>5, <1>6

\* SONG_COMMIT's header write keeps the entries of the library whole.
LEMMA LibCommitHeader ==
  ASSUME Sound, Good, Good', SlotInv', LibInv, NEW o \in Outcomes, CommitHeader(o)
  PROVE  LibInv'
<1>1. /\ up.active /\ cat' = cat /\ data' = data /\ place' = place
      /\ hdr'.count = hdr.count /\ hdr'.next >= hdr.next
      /\ up' = NoUpload /\ pc' = "idle" /\ loc'.then = "idle"
      /\ cat[up.idx] = EntryOf(up.song)
      /\ \A e : e = EntryOf(up.song) => Whole(e)'
  BY CommitWhole
<1>2. \A e : Whole(e) => Whole(e)'
  BY <1>1, WholeStill
<1>3. WholeSlots'
  <2> SUFFICES ASSUME NEW i \in Slots, Visible(i)', ~Pending(i)'
        PROVE  Whole(cat[i])'
    BY DEF WholeSlots
  <2>1. PICK e : e = cat[i]
    OBVIOUS
  <2>2. CASE i = up.idx
    BY <1>1, <2>1, <2>2, WholeAt
  <2>3. CASE i # up.idx
    <3>1. Visible(i) /\ ~Pending(i)
      BY <1>1, <2>3 DEF Visible, Pending, CommitHeader
    <3>2. Whole(e)
      BY <2>1, <3>1 DEF LibInv
    <3> QED BY <1>1, <1>2, <2>1, <3>2, WholeAt
  <2> QED BY <2>2, <2>3
<1> QED BY <1>1, <1>3 DEF LibInv, SwapInv, WholeSlots

\* SONG_REMOVE's write keeps the entries of the library whole.
LEMMA LibRemoveEntry ==
  ASSUME Sound, Good, Good', SlotInv', LibInv, NEW o \in Outcomes, RemoveEntry(o)
  PROVE  LibInv'
<1>1. o = "ok"
  BY SoundCard
<1>2. up' = up /\ pc' = "idle" /\ loc'.then = "idle" /\ pc = "remove"
  BY AnswerTypes DEF RemoveEntry
<1>3. /\ hdr' = hdr /\ data' = data /\ place' = place
      /\ \A i \in Slots : i # loc.idx => cat'[i] = cat[i]
      /\ loc.idx \in Slots => cat'[loc.idx] = Free
  BY <1>1, SoundCard, EntryWritten DEF RemoveEntry, Good
<1>4. \A e : Whole(e) => Whole(e)'
  BY <1>3, WholeStill, ConstantFacts DEF Good, TypeOK, Headers
<1>5. ASSUME NEW i \in Slots, Visible(i)', ~Pending(i)'
      PROVE  Visible(i) /\ ~Pending(i) /\ cat'[i] = cat[i]
  <2>1. i # loc.idx
    BY <1>3, <1>5 DEF Visible, Playable, Free
  <2> QED BY <1>2, <1>3, <1>5, <2>1 DEF Visible, Pending
<1>6. WholeSlots'
  BY <1>4, <1>5, LibChanged
<1> QED BY <1>2, <1>6 DEF LibInv, SwapInv, WholeSlots

\* SONG_SWAP's first write keeps the entries of the library whole.
LEMMA LibSongSwap ==
  ASSUME Sound, Good, Good', SlotInv', LibInv, NEW i \in Slots, NEW j \in Slots,
         NEW o \in Outcomes, SongSwap(i, j, o)
  PROVE  LibInv'
<1>1. /\ pc' = "swap" /\ loc'.idx = i /\ loc'.other = j /\ loc'.saved = cat[i]
      /\ hdr' = hdr /\ data' = data /\ cat'[i] = cat[j] /\ cat'[j] = cat[j]
      /\ \A k \in Slots : k # i => cat'[k] = cat[k]
  BY SwapStarted DEF Good, Sound
<1>2. /\ "swap" \in Commands /\ pc = "idle" /\ ~up.active /\ up' = up /\ place' = place
      /\ i # j /\ i < hdr.count /\ j < hdr.count
  BY DEF SongSwap
<1>3. \A e : Whole(e) => Whole(e)'
  BY <1>1, <1>2, WholeStill, ConstantFacts DEF Good, TypeOK, Headers
<1>4. \A k \in Slots : ~Pending(k)
  BY <1>2 DEF Pending
<1>5. ASSUME NEW k \in Slots, Visible(k)', ~Pending(k)'
      PROVE  \/ Visible(k) /\ ~Pending(k) /\ cat'[k] = cat[k]
             \/ Whole(cat'[k])
  <2>1. CASE k # i
    BY <1>1, <1>4, <1>5, <2>1 DEF Visible
  <2>2. CASE k = i
    <3>1. Visible(j)
      BY <1>1, <1>2, <1>5, <2>2 DEF Visible
    <3> QED BY <1>1, <1>4, <2>2, <3>1 DEF LibInv
  <2> QED BY <2>1, <2>2
<1>6. WholeSlots'
  BY <1>3, <1>5, LibChanged
<1>7. Playable(loc'.saved) => Whole(loc.saved)'
  <2> SUFFICES ASSUME Playable(cat[i]) PROVE Whole(loc.saved)'
    BY <1>1
  <2>1. PICK e : e = cat[i]
    OBVIOUS
  <2>2. Whole(e) /\ loc'.saved = e
    BY <1>1, <1>2, <1>4, <2>1 DEF LibInv, Visible
  <2>3. Whole(e)'
    BY <1>3, <2>2
  <2> QED BY <2>2, <2>3 DEF Whole, Holds, EntryOf, Used, Len
<1>8. SwapInv'
  BY <1>1, <1>2 DEF SwapInv
<1>9. (pc = "swap" /\ Playable(loc.saved) => Whole(loc.saved))'
  BY <1>7 DEF Playable
<1>10. loc'.then # "begin"
  BY <1>1 DEF Good, Inv, BeginInv
<1> QED BY <1>1, <1>6, <1>8, <1>9, <1>10 DEF LibInv, WholeSlots

\* SONG_SWAP's second write keeps the entries of the library whole.
LEMMA LibSwapSecond ==
  ASSUME Sound, Good, Good', SlotInv', LibInv, NEW o \in Outcomes, SwapSecond(o)
  PROVE  LibInv'
<1>1. /\ pc' = "idle" /\ hdr' = hdr /\ data' = data
      /\ loc.other \in Slots /\ cat'[loc.other] = loc.saved
      /\ \A k \in Slots : k # loc.other => cat'[k] = cat[k]
  BY SwapFinished DEF Good, Sound
<1>2. pc = "swap" /\ ~up.active /\ up' = up /\ place' = place /\ loc'.then = "idle"
  BY <1>1, AnswerTypes DEF SwapSecond, LibInv, SlotInv, Good, Inv, BeginInv, Sound
<1>3. \A e : Whole(e) => Whole(e)'
  BY <1>1, <1>2, WholeStill, ConstantFacts DEF Good, TypeOK, Headers
<1>4. ASSUME NEW k \in Slots, Visible(k)', ~Pending(k)'
      PROVE  \/ Visible(k) /\ ~Pending(k) /\ cat'[k] = cat[k]
             \/ Whole(cat'[k])
  <2>1. CASE k = loc.other
    BY <1>1, <1>2, <1>4, <2>1 DEF LibInv, Visible, Playable
  <2>2. CASE k # loc.other
    BY <1>1, <1>2, <1>4, <2>2 DEF Visible, Pending
  <2> QED BY <2>1, <2>2
<1>5. WholeSlots'
  BY <1>3, <1>4, LibChanged
<1> QED BY <1>1, <1>2, <1>5 DEF LibInv, SwapInv, WholeSlots

\* DISK_FORMAT's header write keeps the entries of the library whole.
LEMMA LibFormatHeader ==
  ASSUME Sound, Good, Good', SlotInv', LibInv, NEW o \in Outcomes, FormatHeader(o)
  PROVE  LibInv'
<1>1. o = "ok"
  BY SoundCard
<1>2. hdr'.count = 0 /\ pc' = "formatCat" /\ loc'.then = "idle"
  BY <1>1, SoundCard, FixedTypes DEF FormatHeader, WriteHeader, Formatted
<1>3. WholeSlots'
  BY <1>2, ConstantFacts DEF WholeSlots, Visible
<1> QED BY <1>2, <1>3 DEF LibInv, SwapInv, WholeSlots

\* Each zeroed catalog block keeps the entries of the library whole.
LEMMA LibFormatCatalog ==
  ASSUME Good, Good', SlotInv', LibInv, NEW o, FormatCatalog(o)
  PROVE  LibInv'
<1>1. hdr'.count = 0 /\ pc = "formatCat"
  BY DEF FormatCatalog, WriteCatalog, LibInv
<1>2. pc' \in {"idle", "formatCat"}
  BY AnswerTypes DEF FormatCatalog
<1>3. loc'.then # "begin"
  BY <1>2 DEF Good, Inv, BeginInv
<1>4. WholeSlots'
  BY <1>1, ConstantFacts DEF WholeSlots, Visible
<1> QED BY <1>1, <1>2, <1>3, <1>4 DEF LibInv, SwapInv, WholeSlots

\* What a card that never fails does not make a handler do.
LEMMA SoundSteps ==
  ASSUME Sound, LibInv
  PROVE  /\ ~CommitUnread /\ ~EndBeforeVerify /\ ~VerifyMatches /\ ~VerifyFails
         /\ \A o : ~RewriteBlock(o) /\ ~SwapBack(o)
         /\ \A unread : ~Crash(unread)
BY SoundCard DEF Sound, LibInv, CommitUnread, EndBeforeVerify, VerifyMatches, VerifyFails,
   RewriteBlock, SwapBack, Crash

\* Every step keeps the entries of the library whole.
LEMMA LibStep ==
  ASSUME Plain, Sound
  PROVE  Good /\ LibInv /\ [Next]_vars => LibInv'
<1> SUFFICES ASSUME Good, LibInv, [Next]_vars PROVE LibInv'
  OBVIOUS
<1>1. SlotInv /\ SlotInv' /\ Good'
  BY Plain, GoodStep, SlotStep DEF LibInv
<1>2. CASE Command
  BY Sound, <1>1, <1>2, LibSongBegin, LibSongMultiblock, LibSongBlock,
     LibSongCommit, LibSongRemove, LibNoWrite, LibSongSwap, LibDiskFormat, LibDtrDrop
  DEF Command
<1>3. CASE Handler
  BY Sound, <1>1, <1>3, SoundSteps, LibBeginRejected, LibAbortSession,
     LibBatchTimeout, LibBeginAddSong, LibBeginWriteHeader, LibAbortRemove,
     LibBatchBlock, LibCommitCatalog, LibCommitHeader, LibRemoveEntry,
     LibSwapSecond, LibFormatHeader, LibFormatCatalog, LibNoWrite
  DEF Handler
<1>4. CASE Environment
  BY Sound, <1>1, <1>4, SoundSteps, LibChangeSong, LibPowerCycle DEF Environment
<1>5. CASE UNCHANGED vars
  BY <1>1, <1>5 DEF vars, LibInv, SwapInv, Visible, Pending, Whole, EntryOf, Len, Used,
     Holds
<1> QED BY <1>2, <1>3, <1>4, <1>5 DEF Next

\* A blank card and a formatted one list nothing.
LEMMA LibInit == Init => LibInv
<1> SUFFICES ASSUME Init PROVE LibInv
  OBVIOUS
<1>1. \A i \in Slots : ~Visible(i)
  BY DEF Init, Visible, Playable, Free
<1> QED BY <1>1, SlotInit, FixedTypes DEF Init, LibInv, SwapInv

\* So every entry of the library is always whole.
LEMMA AlwaysLib == ASSUME Plain, Sound PROVE Spec => []LibInv
<1>1. Init => LibInv
  BY LibInit
<1>2. Good /\ LibInv /\ [Next]_vars => LibInv'
  BY Plain, Sound, LibStep
<1> QED BY <1>1, <1>2, AlwaysGood, PTL DEF Spec

\* The entry of a running upload starts at next_free_block.
LEMMA PendingBehind ==
  ASSUME Good, SlotInv, NEW x, Pending(x)
  PROVE  cat[x].start = hdr.next /\ DataStart <= hdr.next
<1>1. \A s \in Provisional : place[s].start = hdr.next
  BY DEF Provisional, Good, Inv, UploadInv, BeginInv
<1>2. cat[x].name \in Provisional /\ cat[x] = EntryOf(cat[x].name)
  BY DEF Pending, Provisional, SlotInv, EntryOf, Good, Inv, BeginInv
<1>3. DataStart <= hdr.next
  BY ConstantFacts
  DEF Pending, Good, Bounds, Inv, UploadInv, BeginAccepted, TypeOK, Headers
<1> QED BY <1>1, <1>2, <1>3 DEF EntryOf

\* Whole songs share no block: a block holds one song's. The provisional entry
\* lies behind them all.
THEOREM Disjoint == ASSUME Plain, Sound PROVE Spec => []NoOverlap
<1>1. Good /\ LibInv => NoOverlap
  <2> SUFFICES ASSUME Good, LibInv, NEW i \in Slots, NEW j \in Slots,
                      Visible(i), Visible(j), cat[i].name # cat[j].name,
                      NEW b \in Extent(i), b \in Extent(j)
               PROVE  FALSE
    BY DEF NoOverlap
  <2>1. /\ cat[i].start \in Nat /\ cat[j].start \in Nat /\ hdr.next \in Nat
    BY ConstantFacts DEF Good, TypeOK, Catalogs, Entries, Headers
  <2>2. ASSUME NEW x \in Slots, Visible(x), Pending(x) PROVE cat[x].start = hdr.next
    BY <2>2, PendingBehind DEF LibInv
  <2>3. ASSUME NEW x \in Slots, Visible(x), ~Pending(x), b \in Extent(x)
        PROVE  b < hdr.next /\ data[b].song = cat[x].name
    <3>1. Whole(cat[x]) /\ cat[x].start \in Nat
      BY <2>3, ConstantFacts DEF LibInv, Good, TypeOK, Catalogs, Entries
    <3>2. Len(cat[x].name) \in Nat
      BY <3>1 DEF Whole, Used, Len, Good, TypeOK, Places
    <3>3. PICK k \in 0 .. (Len(cat[x].name) - 1) : b = cat[x].start + k
      <4>1. b - cat[x].start \in 0 .. (Len(cat[x].name) - 1)
            /\ b = cat[x].start + (b - cat[x].start)
        BY <2>3, <3>1, <3>2 DEF Extent
      <4> QED BY <4>1
    <3>4. Holds(cat[x].start + k, cat[x].name, k) /\ b < hdr.next
      BY <2>1, <3>1, <3>2, <3>3 DEF Whole
    <3> QED BY <3>3, <3>4 DEF Holds, Stamp
  <2>4. ASSUME NEW x \in Slots, Visible(x), Pending(x), b \in Extent(x)
        PROVE  b >= hdr.next
    BY <2>1, <2>2, <2>4 DEF Extent
  <2>5. Pending(i) /\ Pending(j) => i = j
    BY DEF Pending, Good, Inv, BeginInv
  <2>6. b \in Int
    BY <2>1 DEF Extent
  <2> QED BY <2>1, <2>3, <2>4, <2>5, <2>6
<1> QED BY Plain, Sound, <1>1, AlwaysGood, AlwaysLib, PTL

(***************************************************************************)
(* The player.                                                             *)
(***************************************************************************)

\* What is loaded stays as it is while only free blocks are written and the
\* catalog does not get shorter.
LEMMA PlayerKept ==
  ASSUME TypeOK, TypeOK', PlayerInv, pl' = pl,
         pc # "formatCat", pc' # "formatCat",
         hdr'.next = hdr.next, hdr'.count >= hdr.count,
         \A s \in Used : s \in Used',
         \A b \in DataBlocks : b < hdr.next => data'[b] = data[b]
  PROVE  PlayerInv'
<1>1. /\ pl.start \in Nat /\ pl.count \in Nat /\ hdr.next \in Nat /\ pl.n \in Nat
      /\ hdr.count \in Nat /\ hdr'.count \in Nat
  BY ConstantFacts DEF TypeOK, Playlists, Headers
<1>2. pl'.n <= hdr'.count
  BY <1>1 DEF PlayerInv
<1>3. CASE pl.count > 0 /\ ~pl.early
  <2>1. PICK s \in Used : \A k \in 0 .. (pl.count - 1) : Holds(pl.start + k, s, k)
    BY <1>3 DEF PlayerInv, PlayerWhole, OneSong
  <2>2. \A k \in 0 .. (pl.count - 1) : pl.start + k < hdr.next
    BY <1>1, <1>3 DEF PlayerInv
  <2>3. \A k \in 0 .. (pl.count - 1) : Holds(pl.start + k, s, k)'
    BY <2>1, <2>2 DEF Holds
  <2>4. OneSong'
    BY <2>1, <2>3 DEF OneSong
  <2> QED BY <1>1, <1>2, <1>3, <2>4 DEF PlayerInv, PlayerWhole
<1>4. CASE ~(pl.count > 0) \/ pl.early
  BY <1>2, <1>4 DEF PlayerInv, PlayerWhole
<1> QED BY <1>3, <1>4

\* A whole song loaded.
LEMMA PlayerLoaded ==
  ASSUME TypeOK, TypeOK', NEW e, Whole(e)', pl'.start = e.start, pl'.count = e.count,
         ~pl'.early, pl'.n <= hdr'.count, pc' # "formatCat"
  PROVE  PlayerInv'
<1>1. /\ e.name \in Used' /\ e.start + Len(e.name)' <= hdr'.next /\ e.start \in Nat
      /\ e.count = place'[e.name].audio /\ Len(e.name)' = e.count + place'[e.name].level
      /\ place'[e.name].level \in Nat /\ e.count \in Nat
      /\ \A k \in 0 .. (Len(e.name)' - 1) : Holds(e.start + k, e.name, k)'
  BY ConstantFacts DEF Whole, EntryOf, Used, TypeOK, Places, Len
<1>2. \A k \in 0 .. (pl'.count - 1) : Holds(e.start + k, e.name, k)'
  BY <1>1
<1>3. OneSong'
  BY <1>1, <1>2 DEF OneSong, Holds
<1>4. pl'.start + pl'.count <= hdr'.next
  BY <1>1, ConstantFacts DEF TypeOK, Headers
<1> QED BY <1>3, <1>4 DEF PlayerInv, PlayerWhole

\* Nothing loaded.
LEMMA PlayerEmpty ==
  ASSUME TypeOK', pl' = EmptyPlaylist
  PROVE  PlayerInv'
<1>1. /\ pl'.n = 0 /\ pl'.count = 0 /\ pl'.early = FALSE
      /\ hdr'.count \in Nat
  BY ConstantFacts DEF EmptyPlaylist, TypeOK, Headers
<1>2. \A i \in Slots : ~(i < 0)
  BY ConstantFacts
<1> QED BY <1>1, <1>2 DEF PlayerInv, PlayerWhole

\* The boot scan loads a whole song or nothing.
LEMMA BootWhole ==
  ASSUME Good, LibInv, pc = "idle", ~up.active, NEW unread \in SUBSET Slots
  PROVE  \/ BootScan(hdr, cat, unread) = EmptyPlaylist
         \/ /\ BootScan(hdr, cat, unread).n = hdr.count
            /\ ~BootScan(hdr, cat, unread).early
            /\ \E e : /\ Whole(e)
                      /\ BootScan(hdr, cat, unread).start = e.start
                      /\ BootScan(hdr, cat, unread).count = e.count
<1> DEFINE valid == {i \in Slots \ unread : i < hdr.count /\ Playable(cat[i])}
           first == CHOOSE i \in valid : \A j \in valid : i <= j
<1>1. CASE ~hdr.valid \/ valid = {}
  BY <1>1 DEF BootScan
<1>2. CASE hdr.valid /\ valid # {}
  <2>1. valid \in SUBSET Nat
    BY ConstantFacts
  <2>2. first \in valid
    BY <1>2, <2>1, Smallest
  <2>3. first \in Slots /\ Visible(first) /\ ~Pending(first)
    BY <2>2 DEF Visible, Pending
  <2>4. Whole(cat[first])
    BY <2>3 DEF LibInv
  <2>5. BootScan(hdr, cat, unread) =
          [n |-> hdr.count, cur |-> first,
           start |-> cat[first].start, count |-> cat[first].count, early |-> FALSE]
    BY <1>2 DEF BootScan
  <2> HIDE DEF first
  <2> QED BY <2>4, <2>5
<1> QED BY <1>1, <1>2

\* change_song loads a whole song, or, in an upload, the entry BEGIN wrote for
\* it, which starts at next_free_block.
LEMMA PlayerChangeSong ==
  ASSUME Good, Good', LibInv, PlayerInv, NEW dir \in {1, -1}, NEW unread,
         ChangeSong(dir, unread)
  PROVE  PlayerInv'
<1>1. PICK i \in Slots :
        /\ i < pl.n /\ Playable(cat[i])
        /\ pl' = [pl EXCEPT !.cur = i, !.start = cat[i].start, !.count = cat[i].count,
                            !.early = Pending(i)]
  BY SongFound DEF ChangeSong, Good
<1>2. /\ UNCHANGED <<hdr, cat, data, place, pc, up, loc>>
      /\ pl'.n = pl.n /\ pl'.start = cat[i].start /\ pl'.count = cat[i].count
      /\ pl'.early = Pending(i)
  BY <1>1 DEF ChangeSong, disk, Good, TypeOK, Playlists
<1>3. CASE Pending(i)
  <2>1. cat[i].start = hdr.next /\ DataStart <= hdr.next /\ hdr.next \in Nat
    BY <1>3, PendingBehind, ConstantFacts DEF LibInv, Good, TypeOK, Headers
  <2>2. pc # "formatCat"
    BY <1>3 DEF Pending, LibInv, SlotInv
  <2> QED BY <1>2, <1>3, <2>1, <2>2 DEF PlayerInv, PlayerWhole
<1>4. CASE ~Pending(i) /\ pc # "formatCat"
  <2>1. pl.n <= hdr.count /\ pl.n \in Nat /\ hdr.count \in Nat /\ i \in Nat
    BY <1>4, ConstantFacts DEF PlayerInv, Good, TypeOK, Playlists, Headers
  <2>2. PICK e : e = cat[i]
    OBVIOUS
  <2>3. Whole(e)
    BY <1>1, <1>4, <2>1, <2>2 DEF Visible, LibInv
  <2>4. Whole(e)'
    BY <1>2, <2>3 DEF Whole, Holds, EntryOf, Used, Len
  <2> QED BY <1>2, <1>4, <2>1, <2>2, <2>4, PlayerLoaded DEF Good
<1>5. CASE ~Pending(i) /\ pc = "formatCat"
  <2>1. Stored(cat[i])
    BY <1>1, <1>5 DEF PlayerInv
  <2>2. /\ cat[i].name \in Used /\ cat[i].count \in Nat
        /\ Len(cat[i].name) = cat[i].count + place[cat[i].name].level
        /\ place[cat[i].name].level \in Nat
    BY <2>1, ConstantFacts DEF Stored, EntryOf, Used, Len, Good, TypeOK, Places
  <2>3. \A k \in 0 .. (cat[i].count - 1) : Holds(cat[i].start + k, cat[i].name, k)
    BY <2>1, <2>2 DEF Stored
  <2>4. OneSong'
    BY <1>2, <2>2, <2>3 DEF OneSong, Holds, Used
  <2>5. \A j \in Slots : j < pl'.n /\ Playable(cat'[j]) => Stored(cat[j])'
    BY <1>2, <1>5 DEF PlayerInv, Stored, Holds, EntryOf, Used, Len
  <2> QED BY <1>2, <1>5, <2>4, <2>5 DEF PlayerInv, PlayerWhole, Playable
<1> QED BY <1>3, <1>4, <1>5

\* DISK_FORMAT begins to empty a catalog whose songs are all on the card.
LEMMA PlayerFormatHeader ==
  ASSUME Sound, Good, Good', LibInv, PlayerInv, NEW o \in Outcomes, FormatHeader(o)
  PROVE  PlayerInv'
<1>1. /\ pc = "format" /\ pc' = "formatCat" /\ hdr' = Formatted
      /\ UNCHANGED <<cat, data, place, pl>>
  BY Sound, SoundCard DEF FormatHeader, WriteHeader
<1>2. ASSUME NEW i \in Slots, i < pl.n, Playable(cat[i]) PROVE Stored(cat[i])'
  <2>1. pl.n <= hdr.count /\ pl.n \in Nat /\ hdr.count \in Nat /\ i \in Nat
    BY <1>1, ConstantFacts DEF PlayerInv, Good, TypeOK, Playlists, Headers
  <2>2. Visible(i) /\ ~Pending(i)
    BY <1>1, <1>2, <2>1 DEF Visible, Pending, Good, Inv, BeginInv
  <2>3. Whole(cat[i])
    BY <2>2 DEF LibInv
  <2> QED BY <1>1, <2>3 DEF Whole, Stored, Holds, EntryOf, Used, Len
<1>3. pl.early => hdr'.next <= pl.start
  BY <1>1 DEF Formatted, PlayerInv
<1> QED
  BY <1>1, <1>2, <1>3
  DEF PlayerInv, PlayerWhole, OneSong, Used, Holds, Formatted, Playable

\* Each block it zeroes takes entries out of that catalog; behind the last one
\* nothing is loaded.
LEMMA PlayerFormatCatalog ==
  ASSUME Sound, Good, Good', PlayerInv, NEW o \in Outcomes, FormatCatalog(o)
  PROVE  PlayerInv'
<1>1. CASE pl' = EmptyPlaylist
  BY <1>1, PlayerEmpty DEF Good
<1>2. CASE pl' # EmptyPlaylist
  <2>1. /\ pc = "formatCat" /\ pc' = "formatCat"
        /\ UNCHANGED <<hdr, data, place, pl>>
        /\ cat' = [i \in Slots |-> IF CatBlock(i) = loc.idx THEN Free ELSE cat[i]]
    BY Sound, <1>2, SoundCard DEF FormatCatalog, FormattedPlaylist, WriteCatalog
  <2>2. \A i \in Slots : Playable(cat'[i]) => cat'[i] = cat[i]
    BY <2>1 DEF Playable, Free
  <2>3. \A i \in Slots : i < pl'.n /\ Playable(cat'[i]) => Stored(cat'[i])
    BY <2>1, <2>2 DEF PlayerInv
  <2>4. \A i \in Slots : i < pl'.n /\ Playable(cat'[i]) => Stored(cat[i])'
    BY <2>1, <2>3 DEF Stored, Holds, EntryOf, Used, Len
  <2> QED BY <2>1, <2>4 DEF PlayerInv, PlayerWhole, OneSong, Used, Holds, Playable
<1> QED BY <1>1, <1>2

\* Every step leaves the player with a song that is on the card.
LEMMA PlayerStep ==
  ASSUME Plain, Sound
  PROVE  Good /\ LibInv /\ PlayerInv /\ [Next]_vars => PlayerInv'
<1> SUFFICES ASSUME Good, LibInv, PlayerInv, [Next]_vars PROVE PlayerInv'
  OBVIOUS
<1>1. /\ SlotInv /\ SlotInv' /\ Good' /\ LibInv'
      /\ TypeOK /\ TypeOK' /\ hdr.next \in Nat /\ hdr'.next \in Nat
      /\ hdr.count \in Nat
  BY Plain, Sound, GoodStep, SlotStep, LibStep, ConstantFacts DEF LibInv, Good, TypeOK, Headers
<1>2. ASSUME UNCHANGED <<hdr, data, place, pl>>, pc' # "formatCat", pc # "formatCat"
      PROVE  PlayerInv'
  BY <1>1, <1>2, PlayerKept DEF Used
<1>3. ASSUME UNCHANGED <<hdr, cat, data>>, pc = "idle", ~up.active, place' = place,
             pc' = "idle", NEW unread \in SUBSET Slots, pl' = BootScan(hdr, cat, unread)
      PROVE  PlayerInv'
  <2>1. CASE pl' = EmptyPlaylist
    BY <1>1, <2>1, PlayerEmpty
  <2>2. CASE pl' # EmptyPlaylist
    <3>1. PICK e : /\ Whole(e) /\ pl'.start = e.start /\ pl'.count = e.count
                   /\ pl'.n = hdr.count /\ ~pl'.early
      BY <1>3, <2>2, BootWhole
    <3>2. Whole(e)'
      BY <1>3, <3>1 DEF Whole, Holds, EntryOf, Used, Len
    <3>3. pl'.n <= hdr'.count
      BY <1>1, <1>3, <3>1, ConstantFacts DEF TypeOK, Headers
    <3> QED BY <1>1, <1>3, <3>1, <3>2, <3>3, PlayerLoaded
  <2> QED BY <2>1, <2>2
<1>4. CASE Command
  <2>1. ASSUME NEW s, NEW audio, NEW level, SongBegin(s, audio, level)
        PROVE  PlayerInv'
    BY <1>2, <2>1 DEF SongBegin, BeginWith, disk
  <2>2. ASSUME NEW n, SongMultiblock(n) PROVE PlayerInv'
    BY <1>2, <2>2 DEF SongMultiblock, disk
  <2>3. ASSUME NEW o \in Outcomes, SongBlock(o) PROVE PlayerInv'
    <3>1. /\ hdr' = hdr
          /\ \A b \in DataBlocks : b < hdr.next => data'[b] = data[b]
      BY <2>3, UploadBehind DEF SongBlock
    <3> QED BY <1>1, <2>3, <3>1, PlayerKept DEF SongBlock, Used
  <2>4. ASSUME SongCommit PROVE PlayerInv'
    <3>1. hdr' = hdr /\ data' = data
      BY <1>1, <2>4, SessionClosed DEF SongCommit, disk
    <3> QED BY <1>2, <2>4, <3>1 DEF SongCommit
  <2>5. ASSUME NEW i, SongRemove(i) PROVE PlayerInv'
    BY <1>2, <2>5 DEF SongRemove, disk
  <2>6. ASSUME NEW i, NEW j, NEW o, SongSwap(i, j, o) PROVE PlayerInv'
    BY <1>2, <2>6 DEF SongSwap, WriteCatalog
  <2>7. ASSUME DiskFormat \/ DtrDrop \/ HostRead PROVE PlayerInv'
    BY <1>2, <2>7 DEF DiskFormat, DtrDrop, HostRead, disk
  <2> QED BY <1>4, <2>1, <2>2, <2>3, <2>4, <2>5, <2>6, <2>7 DEF Command
<1>5. CASE Handler
  <2>1. ASSUME BeginRejected \/ BatchTimeout PROVE PlayerInv'
    BY <1>2, <2>1, AnswerTypes DEF BeginRejected, BatchTimeout, disk
  <2>2. ASSUME AbortSession PROVE PlayerInv'
    <3>1. hdr' = hdr /\ data' = data
      BY <1>1, <2>2, SessionClosed DEF AbortSession, disk
    <3> QED BY <1>2, <2>2, <3>1 DEF AbortSession
  <2>3. ASSUME NEW o \in Outcomes, BeginAddSong(o) PROVE PlayerInv'
    <3>1. hdr' = hdr /\ data' = data
      BY <2>3 DEF BeginAddSong, WriteCatalog
    <3>2. \A s \in Used : s \in Used'
      BY <2>3 DEF BeginAddSong, Used, BeginAccepted, Good, TypeOK, Places
    <3> QED BY <1>1, <2>3, <3>1, <3>2, PlayerKept, AnswerTypes DEF BeginAddSong
  <2>4. ASSUME NEW o \in Outcomes, BeginWriteHeader(o) PROVE PlayerInv'
    <3>1. hdr'.next = hdr.next /\ data' = data
      BY <2>4 DEF BeginWriteHeader, WriteHeader, Good, TypeOK, Headers
    <3>2. hdr'.count >= hdr.count
      BY <1>1, <2>4 DEF BeginWriteHeader, WriteHeader, SlotInv, TypeOK, Headers
    <3> QED BY <1>1, <2>4, <3>1, <3>2, PlayerKept, AnswerTypes DEF BeginWriteHeader, Used
  <2>5. ASSUME NEW o \in Outcomes,
               AbortRemove(o) \/ RemoveEntry(o) \/ SwapSecond(o) \/ CommitCatalog(o)
        PROVE  PlayerInv'
    <3>1. pc # "formatCat" /\ pc' # "formatCat"
      BY <1>1, <2>5, AnswerTypes
      DEF AbortRemove, Resume, RemoveEntry, SwapSecond, CommitCatalog, TypeOK, Locals
    <3> QED
      BY <1>2, <2>5, <3>1
      DEF AbortRemove, RemoveEntry, SwapSecond, CommitCatalog, WriteCatalog
  <2>6. ASSUME NEW o \in Outcomes, BatchBlock(o) PROVE PlayerInv'
    <3>1. up.active /\ card.pos = up.start + up.written
      BY <2>6 DEF BatchBlock, Good, Bounds, Receiving, Inv, SessionInv, TypeOK, Sessions
    <3>2. /\ hdr' = hdr
          /\ \A b \in DataBlocks : b < hdr.next => data'[b] = data[b]
      BY <2>6, <3>1, UploadBehind DEF BatchBlock, StreamBlock
    <3>3. pc # "formatCat" /\ pc' # "formatCat"
      BY <2>6, AnswerTypes DEF BatchBlock, BlockDone
    <3> QED BY <1>1, <2>6, <3>2, <3>3, PlayerKept DEF BatchBlock, Used
  <2>7. ASSUME NEW o \in Outcomes, CommitHeader(o) PROVE PlayerInv'
    <3>1. PICK e : e = EntryOf(up.song)
      OBVIOUS
    <3>2. Whole(e)' /\ up.active
      BY Sound, <1>1, <2>7, <3>1, CommitWhole
    <3>3. e.start = up.start /\ e.count = up.audio
      BY <3>1, <3>2 DEF EntryOf, Good, Inv, UploadInv, LibInv, SlotInv
    <3>4. /\ pl'.start = up.start /\ pl'.count = up.audio /\ ~pl'.early
          /\ pl'.n = hdr.count /\ hdr'.count = hdr.count /\ pc' = "idle"
      BY Sound, <1>1, <2>7, SoundCard, AnswerTypes
      DEF CommitHeader, WriteHeader, TypeOK, Headers
    <3> QED BY <1>1, <3>2, <3>3, <3>4, PlayerLoaded
  <2>8. ASSUME NEW o \in Outcomes, FormatHeader(o) \/ FormatCatalog(o) PROVE PlayerInv'
    BY Sound, <1>1, <2>8, PlayerFormatHeader, PlayerFormatCatalog
  <2>9. ASSUME HostReadDone \/ RemoveRefused PROVE PlayerInv'
    BY <1>2, <2>9, AnswerTypes DEF HostReadDone, RemoveRefused, disk
  <2> QED
    BY <1>1, <1>5, <2>1, <2>2, <2>3, <2>4, <2>5, <2>6, <2>7, <2>8, <2>9, Sound,
       SoundSteps
    DEF Handler
<1>6. CASE Environment
  <2>1. ASSUME NEW dir \in {1, -1}, NEW unread, ChangeSong(dir, unread) PROVE PlayerInv'
    BY <1>1, <2>1, PlayerChangeSong
  <2>2. ASSUME NEW unread \in Unread, PowerCycle(unread) PROVE PlayerInv'
    <3>1. /\ unread \in SUBSET Slots /\ pl' = BootScan(hdr, cat, unread)
      BY <2>2 DEF PowerCycle, Restart, Unread
    <3> QED BY <1>3, <2>2, <3>1, AnswerTypes DEF PowerCycle, Restart
  <2> QED BY Sound, <1>1, <1>6, <2>1, <2>2, SoundSteps DEF Environment
<1>7. CASE UNCHANGED vars
  BY <1>7 DEF vars, PlayerInv, PlayerWhole, OneSong, Stored, EntryOf, Len, Used, Holds
<1> QED BY <1>4, <1>5, <1>6, <1>7 DEF Next

\* What is loaded can be played from end to end, whatever was aborted,
\* removed, swapped or uploaded before and since, and whenever change_song ran:
\* only an entry it took from an upload in progress is not whole, and that one
\* lies behind next_free_block.
THEOREM LoadedWhole ==
  ASSUME Plain, Sound PROVE Spec => []PlayerWhole
<1>1. Init => PlayerInv
  BY ConstantFacts DEF Init, EmptyPlaylist, Formatted, PlayerInv, PlayerWhole
<1>2. Good /\ LibInv /\ PlayerInv /\ [Next]_vars => PlayerInv'
  BY Plain, Sound, PlayerStep
<1>3. PlayerInv => PlayerWhole
  BY DEF PlayerInv
<1> QED BY Plain, Sound, <1>1, <1>2, <1>3, AlwaysGood, AlwaysLib, PTL DEF Spec

(***************************************************************************)
(* The refinement.                                                         *)
(***************************************************************************)

\* The library as a set of complete songs.
Song(e) == [song |-> e.name, blocks |-> 0 .. (Len(e.name) - 1)]
Songbook == {Song(e) : e \in LibraryEntries}
Upload == [song |-> up.song, size |-> up.expected, got |-> up.written]

\* The entries of the library are the visible ones no upload owns, and the one
\* a swap holds.
EntriesInv ==
  \A e : e \in LibraryEntries <=>
    \/ \E i \in Slots : Visible(i) /\ ~Pending(i) /\ e = cat[i]
    \/ pc = "swap" /\ Playable(loc.saved) /\ e = loc.saved

\* No other entry has the name of the running upload, and its own has.
LEMMA Entered == Good /\ LibInv => EntriesInv
<1> SUFFICES ASSUME Good, LibInv, NEW e
    PROVE  e \in LibraryEntries <=>
             \/ \E i \in Slots : Visible(i) /\ ~Pending(i) /\ e = cat[i]
             \/ pc = "swap" /\ Playable(loc.saved) /\ e = loc.saved
  BY DEF EntriesInv
<1>1. ASSUME NEW i \in Slots, Visible(i)
      PROVE  cat[i].name \in Provisional <=> Pending(i)
  <2>1. CASE Pending(i)
    BY <2>1 DEF Pending, Provisional, LibInv, SlotInv, EntryOf, Good, Inv, BeginInv
  <2>2. CASE ~Pending(i)
    <3>1. Whole(cat[i])
      BY <1>1, <2>2 DEF LibInv
    <3>2. \A s \in Provisional : place[s].start = hdr.next
      BY DEF Provisional, Good, Inv, UploadInv, BeginInv
    <3> QED BY <2>2, <3>1, <3>2, WholeIsOther DEF Good
  <2> QED BY <2>1, <2>2
<1>3. \A i \in Slots : Visible(i) => Playable(cat[i])
  BY DEF Visible
<1>4. pc = "swap" => Provisional = {}
  BY DEF Provisional, LibInv, SlotInv
<1>5. e \in Listed <=> \/ \E i \in Slots : Visible(i) /\ e = cat[i]
                       \/ pc \in {"swap", "swapBack"} /\ e = loc.saved
  BY DEF Listed
<1>6. pc # "swapBack"
  BY DEF LibInv
<1> QED BY <1>1, <1>3, <1>4, <1>5, <1>6 DEF LibraryEntries

\* Each of them is whole, so the library is what Songbook says.
WholeInv ==
  /\ EntriesInv
  /\ \A e \in LibraryEntries : Whole(e)
  /\ {OnCard(e) : e \in LibraryEntries} = Songbook
\* So the library is the set of the whole songs listed.
LEMMA WholeLibrary == Good /\ LibInv => WholeInv
<1> SUFFICES ASSUME Good, LibInv PROVE WholeInv
  OBVIOUS
<1>1. ASSUME NEW e \in LibraryEntries PROVE Whole(e)
  BY Entered DEF EntriesInv, LibInv
<1>2. ASSUME NEW e \in LibraryEntries PROVE OnCard(e) = Song(e)
  BY <1>1, <1>2 DEF Whole, OnCard, Song
<1> QED BY <1>1, <1>2, Entered DEF WholeInv, Songbook

\* A step that keeps the set of entries, and the lengths of the songs in it.
LEMMA SameBook ==
  ASSUME LibraryEntries' = LibraryEntries,
         \A e \in LibraryEntries : Len(e.name)' = Len(e.name)
  PROVE  Songbook' = Songbook
BY DEF Songbook, Song

\* The same, told by the slots they come from.
LEMMA SameEntries ==
  ASSUME Good, LibInv, WholeInv, WholeInv', place' = place,
         \A e : (\/ \E i \in Slots : Visible(i)' /\ ~Pending(i)' /\ e = cat'[i]
                 \/ pc' = "swap" /\ Playable(loc'.saved) /\ e = loc'.saved)
            <=> (\/ \E i \in Slots : Visible(i) /\ ~Pending(i) /\ e = cat[i]
                 \/ pc = "swap" /\ Playable(loc.saved) /\ e = loc.saved)
  PROVE  Songbook' = Songbook
<1>1. \A e : e \in LibraryEntries' <=> e \in LibraryEntries
  BY DEF WholeInv, EntriesInv, Playable
<1>2. LibraryEntries' = LibraryEntries
  BY <1>1
<1> QED BY <1>2, SameBook DEF Len

\* What the steps below start from and end in.
Start == Good /\ LibInv /\ WholeInv
Step == Start /\ Start'

SameBlocks ==
  up'.song = up.song /\ up'.expected = up.expected /\ up'.written = up.written

\* A step that changes neither them nor the counts of the upload is not seen.
LEMMA Unseen ==
  ASSUME WholeInv, WholeInv', Songbook' = Songbook, SameBlocks
  PROVE  UNCHANGED Library!vars
BY DEF WholeInv, SameBlocks, Library!vars

\* A step that leaves the catalog alone and neither begins nor ends an upload.
LEMMA Still ==
  ASSUME Step, pc \notin {"beginHdr", "swap"}, pc' \notin {"beginHdr", "swap"},
         hdr' = hdr, cat' = cat, place' = place,
         up'.active = up.active, up'.idx = up.idx
  PROVE  Songbook' = Songbook
<1>1. \A i \in Slots : (Visible(i)' <=> Visible(i)) /\ (Pending(i)' <=> Pending(i))
  BY DEF Visible, Pending
<1> QED BY <1>1, SameEntries DEF Step, Start

\* The commands, and the steps that write nothing, are not seen,
LEMMA UnseenCommand ==
  ASSUME Step,
         \/ \E s, audio, level : SongBegin(s, audio, level)
         \/ \E n : SongMultiblock(n)
         \/ SongCommit
         \/ \E i : SongRemove(i)
         \/ HostRead \/ HostReadDone \/ RemoveRefused
         \/ DiskFormat
         \/ DtrDrop
         \/ BeginRejected
         \/ AbortSession
         \/ BatchTimeout
  PROVE  UNCHANGED Library!vars
<1>1. /\ hdr' = hdr /\ cat' = cat /\ place' = place
      /\ pc \notin {"beginHdr", "swap"} /\ pc' \notin {"beginHdr", "swap"}
  <2>1. ASSUME SongCommit \/ AbortSession PROVE hdr' = hdr /\ cat' = cat
    BY <2>1, SessionClosed DEF SongCommit, AbortSession, Step, Start, Good, disk
  <2> QED
    BY <2>1, AnswerTypes
    DEF SongBegin, BeginWith, SongMultiblock, SongCommit, SongRemove, DiskFormat, DtrDrop,
        BeginRejected, AbortSession, BatchTimeout, HostRead, HostReadDone, RemoveRefused,
        disk
<1>2. SameBlocks /\ up'.active = up.active /\ up'.idx = up.idx
  BY SessionClosed
  DEF SongBegin, SongMultiblock, SongCommit, SongRemove, DiskFormat, DtrDrop,
      BeginRejected, AbortSession, BatchTimeout, HostRead, HostReadDone, RemoveRefused,
      SameBlocks, Step, Start, Good, TypeOK,
      Uploads
<1> QED BY <1>1, <1>2, Still, Unseen DEF Step, Start

\* nor is SONG_COMMIT's rewrite of the entry that is there,
LEMMA UnseenCommitCatalog ==
  ASSUME Step, NEW o, CommitCatalog(o)
  PROVE  UNCHANGED Library!vars
<1>1. hdr' = hdr /\ cat' = cat
  BY SameEntry DEF Step, Start, LibInv
<1> QED
  BY <1>1, Still, Unseen, AnswerTypes DEF CommitCatalog, SameBlocks, Step, Start

\* a skip,
LEMMA UnseenChangeSong ==
  ASSUME Step, NEW dir, NEW unread, ChangeSong(dir, unread)
  PROVE  UNCHANGED Library!vars
<1>1. \A i \in Slots : (Visible(i)' <=> Visible(i)) /\ (Pending(i)' <=> Pending(i))
  BY DEF Visible, Pending, ChangeSong, disk
<1>2. Songbook' = Songbook
  BY <1>1, SameEntries DEF Step, Start, ChangeSong, disk
<1> QED BY <1>2, Unseen DEF Step, Start, SameBlocks, ChangeSong

\* a power cycle,
LEMMA UnseenPowerCycle ==
  ASSUME Step, NEW unread, PowerCycle(unread)
  PROVE  UNCHANGED Library!vars
<1>1. up' = up
  BY DEF PowerCycle, Restart, Step, Start, LibInv, SlotInv
<1> QED
  BY <1>1, Still, Unseen, AnswerTypes
  DEF PowerCycle, Restart, SameBlocks, Step, Start

\* the provisional entry of a BEGIN,
LEMMA UnseenBeginAddSong ==
  ASSUME Sound, Step, NEW o \in Outcomes, BeginAddSong(o)
  PROVE  UNCHANGED Library!vars
<1>1. o = "ok"
  BY SoundCard
<1>2. /\ pc' = "beginHdr" /\ pc = "begin" /\ loc'.idx = ClaimSlot
      /\ ~up.active /\ up' = up /\ loc.song \in Songs /\ loc.song \notin Used
  BY <1>1 DEF BeginAddSong, Step, Start, Good, TypeOK, Locals, Inv, BeginInv, Bounds,
     LibInv
<1>3. /\ hdr' = hdr
      /\ \A i \in Slots : i # ClaimSlot => cat'[i] = cat[i]
  BY EntryWritten DEF BeginAddSong, Step, Start, Good
<1>4. ~Visible(ClaimSlot)
  BY Claimed, ConstantFacts
  DEF Visible, Playable, Holes, Step, Start, Good, TypeOK, Headers
<1>5. \A e : (\E i \in Slots : Visible(i)' /\ ~Pending(i)' /\ e = cat'[i])
         <=> (\E i \in Slots : Visible(i) /\ ~Pending(i) /\ e = cat[i])
  BY <1>2, <1>3, <1>4 DEF Visible, Pending
<1>6. LibraryEntries' = LibraryEntries
  <2>1. EntriesInv /\ EntriesInv'
    BY DEF Step, Start, WholeInv
  <2>2. \A e : e \in LibraryEntries <=>
                 \E i \in Slots : Visible(i) /\ ~Pending(i) /\ e = cat[i]
    BY <1>2, <2>1 DEF EntriesInv
  <2>3. \A e : e \in LibraryEntries' <=>
                 \E i \in Slots : Visible(i)' /\ ~Pending(i)' /\ e = cat'[i]
    BY <1>2, <2>1 DEF EntriesInv
  <2>4. \A e : e \in LibraryEntries' <=> e \in LibraryEntries
    BY <1>5, <2>2, <2>3
  <2> QED BY <2>4
<1>7. \A e \in LibraryEntries : Len(e.name)' = Len(e.name)
  <2> SUFFICES ASSUME NEW e \in LibraryEntries PROVE place'[e.name] = place[e.name]
    BY DEF Len
  <2>1. e.name \in Used
    BY DEF Step, Start, WholeInv, Whole
  <2> QED BY <1>2, <2>1 DEF BeginAddSong, Step, Start, Good, TypeOK, Places, Used
<1> QED BY <1>2, <1>6, <1>7, SameBook, Unseen DEF Step, Start, SameBlocks

\* and the two writes of a swap.
LEMMA UnseenSwap ==
  ASSUME Sound, Step, NEW i \in Slots, NEW j \in Slots, NEW o \in Outcomes,
         SongSwap(i, j, o)
  PROVE  UNCHANGED Library!vars
<1>1. /\ pc' = "swap" /\ loc'.idx = i /\ loc'.other = j /\ loc'.saved = cat[i]
      /\ hdr' = hdr /\ cat'[i] = cat[j] /\ cat'[j] = cat[j]
      /\ \A k \in Slots : k # i => cat'[k] = cat[k]
  BY SwapStarted DEF Step, Start, Good, Sound
<1>2. /\ pc = "idle" /\ ~up.active /\ up' = up /\ place' = place
      /\ i # j /\ i < hdr.count /\ j < hdr.count
  BY DEF SongSwap
<1>3. \A k \in Slots : ~Pending(k) /\ ~Pending(k)'
  BY <1>1, <1>2 DEF Pending
<1>4. /\ Visible(i)' <=> Visible(j)
      /\ Visible(j)' <=> Visible(j)
      /\ \A k \in Slots : k # i => (Visible(k)' <=> Visible(k))
      /\ Visible(i) <=> Playable(cat[i])
  BY <1>1, <1>2 DEF Visible
<1>5. \A e : (\/ \E k \in Slots : Visible(k)' /\ ~Pending(k)' /\ e = cat'[k]
              \/ pc' = "swap" /\ Playable(loc'.saved) /\ e = loc'.saved)
         <=> (\/ \E k \in Slots : Visible(k) /\ ~Pending(k) /\ e = cat[k]
              \/ pc = "swap" /\ Playable(loc.saved) /\ e = loc.saved)
  <2> TAKE e
  <2>1. ASSUME NEW k \in Slots, Visible(k)', e = cat'[k]
        PROVE  \E x \in Slots : Visible(x) /\ e = cat[x]
    BY <1>1, <1>4, <2>1
  <2>2. ASSUME NEW k \in Slots, Visible(k), e = cat[k]
        PROVE  \/ \E x \in Slots : Visible(x)' /\ e = cat'[x]
               \/ Playable(cat[i]) /\ e = cat[i]
    BY <1>1, <1>4, <2>2
  <2> QED BY <1>1, <1>2, <1>3, <1>4, <2>1, <2>2
<1>6. Songbook' = Songbook
  BY <1>2, <1>5, SameEntries DEF Step, Start
<1> QED BY <1>2, <1>6, Unseen DEF Step, Start, SameBlocks

\* The second write puts back the entry the first one took.
LEMMA UnseenSwapSecond ==
  ASSUME Sound, Step, NEW o \in Outcomes, SwapSecond(o)
  PROVE  UNCHANGED Library!vars
<1>1. /\ pc' = "idle" /\ hdr' = hdr
      /\ loc.other \in Slots /\ cat'[loc.other] = loc.saved
      /\ \A k \in Slots : k # loc.other => cat'[k] = cat[k]
  BY SwapFinished DEF Step, Start, Good, Sound
<1>2. /\ pc = "swap" /\ ~up.active /\ up' = up /\ place' = place
      /\ loc.idx \in Slots /\ loc.idx < hdr.count /\ loc.other < hdr.count
      /\ loc.other # loc.idx /\ cat[loc.idx] = cat[loc.other]
  BY DEF SwapSecond, Step, Start, LibInv, SlotInv, SwapInv
<1>3. \A k \in Slots : ~Pending(k) /\ ~Pending(k)'
  BY <1>1, <1>2 DEF Pending
<1>4. /\ \A k \in Slots : k = loc.other => (Visible(k)' <=> Playable(loc.saved))
      /\ \A k \in Slots : k # loc.other => (Visible(k)' <=> Visible(k))
      /\ Visible(loc.other) => Visible(loc.idx)
  BY <1>1, <1>2 DEF Visible
<1>5. \A e : (\/ \E k \in Slots : Visible(k)' /\ ~Pending(k)' /\ e = cat'[k]
              \/ pc' = "swap" /\ Playable(loc'.saved) /\ e = loc'.saved)
         <=> (\/ \E k \in Slots : Visible(k) /\ ~Pending(k) /\ e = cat[k]
              \/ pc = "swap" /\ Playable(loc.saved) /\ e = loc.saved)
  <2> TAKE e
  <2>1. ASSUME NEW k \in Slots, Visible(k)', e = cat'[k]
        PROVE  \/ \E x \in Slots : Visible(x) /\ e = cat[x]
               \/ Playable(loc.saved) /\ e = loc.saved
    BY <1>1, <1>4, <2>1
  <2>2. ASSUME NEW k \in Slots, Visible(k), e = cat[k]
        PROVE  \E x \in Slots : Visible(x)' /\ e = cat'[x]
    BY <1>1, <1>2, <1>4, <2>2
  <2>3. ASSUME Playable(loc.saved), e = loc.saved
        PROVE  \E x \in Slots : Visible(x)' /\ e = cat'[x]
    BY <1>1, <1>4, <2>3
  <2> QED BY <1>1, <1>2, <1>3, <2>1, <2>2, <2>3
<1>6. Songbook' = Songbook
  BY <1>2, <1>5, SameEntries DEF Step, Start
<1> QED BY <1>2, <1>6, Unseen DEF Step, Start, SameBlocks

\* BEGIN's header write opens the upload,
LEMMA RefineBegin ==
  ASSUME Sound, Step, NEW o \in Outcomes, BeginWriteHeader(o)
  PROVE  \E s \in Songs : Library!Begin(s)
<1>1. o = "ok"
  BY SoundCard
<1>2. /\ loc.song \in Songs /\ BeginAccepted(loc.audio, loc.level)
      /\ loc.audio \in Nat /\ TotalBlocks(loc.audio, loc.level) \in Nat \ {0}
      /\ pc = "beginHdr" /\ ~up.active /\ up = NoUpload
      /\ place[loc.song].start = hdr.next
  <2>1. TotalBlocks(loc.audio, loc.level) \in Nat
    BY ConstantFacts DEF TotalBlocks, Step, Start, Good, TypeOK, Locals
  <2> QED
    BY <2>1
    DEF BeginWriteHeader, Step, Start, Good, TypeOK, Locals, Bounds, BeginAccepted, Inv,
        BeginInv, LibInv, SlotInv
<1>3. /\ hdr'.count = loc.count /\ cat' = cat /\ place' = place
      /\ pc' = "idle" /\ up'.active = TRUE /\ up'.idx = loc.idx
      /\ up'.song = loc.song /\ up'.written = 0
      /\ up'.expected = TotalBlocks(loc.audio, loc.level)
  BY <1>1, AnswerTypes
  DEF BeginWriteHeader, WriteHeader, Landed, Step, Start, Good, TypeOK, Headers
<1>4. \A i \in Slots : (Visible(i)' /\ ~Pending(i)') <=> (Visible(i) /\ ~Pending(i))
  <2> SUFFICES ASSUME NEW i \in Slots, i # loc.idx
        PROVE  i < loc.count <=> i < hdr.count
    BY <1>2, <1>3 DEF Visible, Pending
  <2> QED
    BY <1>2, ConstantFacts DEF Step, Start, LibInv, SlotInv, Good, TypeOK, Headers
<1>5. Songbook' = Songbook
  BY <1>2, <1>3, <1>4, SameEntries DEF Step, Start
<1>6. \A l \in Songbook : l.song # loc.song
  <2> SUFFICES ASSUME NEW e \in LibraryEntries PROVE e.name # loc.song
    BY DEF Songbook, Song
  <2> QED BY <1>2, WholeIsOther DEF Step, Start, WholeInv, Good
<1>7. /\ Upload = [song |-> NoName, size |-> 0, got |-> 0]
      /\ Upload' \in [song : {loc.song}, size : Nat \ {0}, got : {0}]
  BY <1>2, <1>3 DEF Upload, NoUpload
<1> QED
  BY <1>2, <1>5, <1>6, <1>7 DEF Step, Start, WholeInv, Library!Begin, Library!NoUpload, Upload

\* a block counted is a block received,
LEMMA RefineReceive ==
  ASSUME Sound, Step,
         \/ \E o \in Outcomes : BatchBlock(o)
         \/ \E o \in Outcomes : SongBlock(o)
  PROVE  Library!Receive
<1>1. /\ up.active /\ up.written < up.expected
      /\ up'.written = up.written + 1 /\ up'.active = up.active /\ up'.idx = up.idx
      /\ up'.song = up.song /\ up'.expected = up.expected
  BY SoundCard
  DEF BatchBlock, SongBlock, Step, Start, Good, Bounds, Receiving, TypeOK, Uploads, Locals
<1>2. /\ hdr' = hdr /\ cat' = cat /\ place' = place
      /\ pc \notin {"beginHdr", "swap"} /\ pc' \notin {"beginHdr", "swap"}
  BY SoundCard, AnswerTypes DEF BatchBlock, BlockDone, SongBlock, StreamBlock, WriteData
<1>3. Songbook' = Songbook
  BY <1>1, <1>2, Still
<1>4. Upload.got < Upload.size /\ Upload' = [Upload EXCEPT !.got = @ + 1]
  BY <1>1 DEF Upload
<1> QED
  BY <1>3, <1>4 DEF Step, Start, WholeInv, Library!Receive, Upload

\* an abort abandons the upload,
LEMMA RefineAbandon ==
  ASSUME Sound, Step, NEW o \in Outcomes, AbortRemove(o)
  PROVE  Library!Abandon
<1>1. o = "ok"
  BY SoundCard
<1>2. /\ up.active /\ up.song \in Songs /\ up' = NoUpload /\ pc = "abortRm"
      /\ pc' \in {"idle", "begin", "format"} /\ up.idx \in Slots
  BY DEF AbortRemove, Resume, Step, Start, Good, TypeOK, Locals, LibInv, SlotInv, Bounds,
     Uploads
<1>3. /\ hdr' = hdr /\ place' = place
      /\ \A i \in Slots : i # up.idx => cat'[i] = cat[i]
      /\ cat'[up.idx] = Free
  BY <1>1, <1>2, SoundCard, EntryWritten DEF AbortRemove, AfterAbort, Step, Start, Good
<1>4. \A i \in Slots : (Visible(i)' /\ ~Pending(i)') <=> (Visible(i) /\ ~Pending(i))
  BY <1>2, <1>3 DEF Visible, Pending, Playable, Free, NoUpload
<1>5. \A i \in Slots : Visible(i) /\ ~Pending(i) => cat'[i] = cat[i]
  BY <1>2, <1>3 DEF Pending
<1>6. Songbook' = Songbook
  BY <1>2, <1>3, <1>4, <1>5, SameEntries DEF Step, Start
<1>7. Upload # [song |-> NoName, size |-> 0, got |-> 0]
  BY <1>2, NameAssumption DEF Upload
<1> QED
  BY <1>2, <1>6, <1>7
  DEF Step, Start, WholeInv, Library!Abandon, Library!NoUpload, Upload, NoUpload

\* the commit's header write adds the song with all its blocks,
LEMMA RefineCommit ==
  ASSUME Sound, Step, NEW o \in Outcomes, CommitHeader(o)
  PROVE  Library!Commit
<1>1. /\ up.active /\ up.written = up.expected /\ up.song \in Songs
      /\ place[up.song].audio > 0 /\ Len(up.song) = up.expected
      /\ cat' = cat /\ place' = place /\ hdr'.count = hdr.count
      /\ up' = NoUpload /\ pc' = "idle" /\ cat[up.idx] = EntryOf(up.song)
  BY CommitWhole DEF Step, Start, LibInv
<1>2. /\ up.idx \in Slots /\ up.idx < hdr.count /\ pc = "commitHdr"
  BY <1>1 DEF CommitHeader, Step, Start, LibInv, SlotInv, Good, TypeOK, Uploads
<1> DEFINE new == EntryOf(up.song)
<1>3. Visible(up.idx) /\ new.name = up.song
  BY <1>1, <1>2, NameAssumption DEF Visible, Playable, EntryOf
<1>4. \A i \in Slots : /\ Visible(i)' <=> Visible(i)
                       /\ ~Pending(i)'
                       /\ Pending(i) <=> i = up.idx
  BY <1>1, <1>2 DEF Visible, Pending, NoUpload
<1>5. ASSUME NEW e PROVE e \in LibraryEntries' <=> e \in LibraryEntries \/ e = new
  <2>1. e \in LibraryEntries' <=> \E i \in Slots : Visible(i) /\ e = cat[i]
    BY <1>1, <1>4 DEF Step, Start, WholeInv, EntriesInv
  <2>2. e \in LibraryEntries <=> \E i \in Slots : Visible(i) /\ i # up.idx /\ e = cat[i]
    BY <1>2, <1>4 DEF Step, Start, WholeInv, EntriesInv
  <2> QED BY <1>1, <1>2, <1>3, <2>1, <2>2
<1>6. \A e : Song(e)' = Song(e)
  BY <1>1 DEF Song, Len
<1>7. Songbook' = Songbook \union {Song(new)}
  <2>1. LibraryEntries' = LibraryEntries \union {new}
    BY <1>5
  <2>2. Songbook' = {Song(e) : e \in LibraryEntries'}
    BY <1>6 DEF Songbook
  <2> QED BY <2>1, <2>2 DEF Songbook
<1>8. Song(new) = [song |-> up.song, blocks |-> 0 .. (up.expected - 1)]
  BY <1>1, <1>3 DEF Song
<1>9. Upload # [song |-> NoName, size |-> 0, got |-> 0]
  BY <1>1, NameAssumption DEF Upload
<1> HIDE DEF new
<1> QED
  BY <1>1, <1>7, <1>8, <1>9
  DEF Step, Start, WholeInv, Library!Commit, Library!NoUpload, Library!Complete, Upload,
      NoUpload

\* SONG_REMOVE takes one song out, or frees a slot no scan found,
LEMMA RefineRemove ==
  ASSUME Sound, Step, NEW o \in Outcomes, RemoveEntry(o)
  PROVE  Library!Remove \/ UNCHANGED Library!vars
<1>1. o = "ok"
  BY SoundCard
<1>2. up' = up /\ pc' = "idle" /\ pc = "remove" /\ place' = place
  BY AnswerTypes DEF RemoveEntry
<1>3. /\ hdr' = hdr
      /\ \A i \in Slots : i # loc.idx => cat'[i] = cat[i]
      /\ loc.idx \in Slots => cat'[loc.idx] = Free
  BY <1>1, SoundCard, EntryWritten DEF RemoveEntry, Step, Start, Good
<1>4. \A i \in Slots : /\ (Visible(i)' <=> Visible(i) /\ i # loc.idx)
                       /\ (Pending(i)' <=> Pending(i))
  BY <1>2, <1>3 DEF Visible, Pending, Playable, Free
<1>5. ASSUME NEW e
      PROVE  e \in LibraryEntries' <=>
               \E i \in Slots : Visible(i) /\ ~Pending(i) /\ i # loc.idx /\ e = cat[i]
  BY <1>2, <1>3, <1>4 DEF Step, Start, WholeInv, EntriesInv
<1>6. ASSUME NEW e
      PROVE  e \in LibraryEntries <=>
               \E i \in Slots : Visible(i) /\ ~Pending(i) /\ e = cat[i]
  BY <1>2 DEF Step, Start, WholeInv, EntriesInv
<1>7. \A e : Song(e)' = Song(e)
  BY <1>2 DEF Song, Len
<1>8. CASE LibraryEntries' = LibraryEntries
  <2>1. Songbook' = Songbook
    BY <1>7, <1>8 DEF Songbook
  <2> QED BY <1>2, <2>1, Unseen DEF Step, Start, SameBlocks
<1>9. CASE LibraryEntries' # LibraryEntries
  <2> DEFINE gone == cat[loc.idx]
  <2>1. gone \in LibraryEntries /\ gone \notin LibraryEntries'
        /\ LibraryEntries' = LibraryEntries \ {gone}
    <3>1. PICK e : ~(e \in LibraryEntries' <=> e \in LibraryEntries)
      BY <1>9
    <3>2. e \in LibraryEntries /\ e \notin LibraryEntries' /\ e = gone
      BY <1>5, <1>6, <3>1
    <3>3. \A x : x # gone => (x \in LibraryEntries' <=> x \in LibraryEntries)
      BY <1>5, <1>6
    <3> QED BY <3>2, <3>3
  <2>2. ASSUME NEW e \in LibraryEntries, e.name = gone.name PROVE e = gone
    BY <2>1, <2>2 DEF Step, Start, WholeInv, Whole
  <2>3. ASSUME NEW e \in LibraryEntries, Song(e) = Song(gone) PROVE e = gone
    BY <2>2, <2>3 DEF Song
  <2>4. Songbook' = {Song(e) : e \in LibraryEntries \ {gone}}
    BY <1>7, <2>1 DEF Songbook
  <2>5. Songbook' = Songbook \ {Song(gone)} /\ Song(gone) \in Songbook
    BY <2>1, <2>3, <2>4 DEF Songbook
  <2> HIDE DEF gone
  <2> QED BY <1>2, <2>5 DEF Step, Start, WholeInv, Library!Remove
<1> QED BY <1>8, <1>9

\* and the format's header write takes all of them.
LEMMA RefineFormat ==
  ASSUME Sound, Step, NEW o \in Outcomes, FormatHeader(o)
  PROVE  Library!Format
<1>1. hdr'.count = 0 /\ pc' = "formatCat" /\ up' = up
  BY SoundCard DEF FormatHeader, WriteHeader, Formatted
<1>2. up = NoUpload
  BY DEF FormatHeader, Step, Start, Good, Inv, BeginInv, LibInv, SlotInv
<1>3. \A i \in Slots : ~Visible(i)'
  BY <1>1, ConstantFacts DEF Visible
<1>4. LibraryEntries' = {}
  BY <1>1, <1>3 DEF Step, Start, WholeInv, EntriesInv
<1> QED
  BY <1>1, <1>2, <1>4
  DEF Step, Start, WholeInv, Songbook, Library!Format, Library!NoUpload, Upload, NoUpload

\* Its catalog writes find the library empty.
LEMMA UnseenFormatCatalog ==
  ASSUME Step, NEW o, FormatCatalog(o)
  PROVE  UNCHANGED Library!vars
<1>1. /\ hdr'.count = 0 /\ hdr.count = 0 /\ pc = "formatCat" /\ up' = up
      /\ pc' \in {"idle", "formatCat"}
  BY AnswerTypes DEF FormatCatalog, WriteCatalog, Step, Start, LibInv
<1>2. \A i \in Slots : ~Visible(i) /\ ~Visible(i)'
  BY <1>1, ConstantFacts DEF Visible
<1>3. LibraryEntries' = {} /\ LibraryEntries = {}
  BY <1>1, <1>2 DEF Step, Start, WholeInv, EntriesInv
<1>4. Songbook' = Songbook
  BY <1>3 DEF Songbook
<1> QED BY <1>1, <1>4, Unseen DEF Step, Start, SameBlocks

\* Every step of the store is a step of the library, or not seen.
LEMMA LibraryStep ==
  ASSUME Plain, Sound
  PROVE  Step /\ [Next]_vars => [Library!Next]_(Library!vars)
<1> SUFFICES ASSUME Step, [Next]_vars PROVE Library!Next \/ UNCHANGED Library!vars
  OBVIOUS
<1>1. CASE Command
  BY Sound, <1>1, UnseenCommand, UnseenSwap, RefineReceive DEF Command, Library!Next
<1>2. CASE Handler
  <2>1. LibInv
    BY DEF Step, Start
  <2> QED
    BY Sound, <1>2, <2>1, SoundSteps, UnseenCommand, UnseenBeginAddSong, RefineBegin,
       RefineAbandon, RefineReceive, UnseenCommitCatalog, RefineCommit, RefineRemove,
       UnseenSwapSecond, RefineFormat, UnseenFormatCatalog
    DEF Handler, Library!Next
<1>3. CASE Environment
  <2>1. LibInv
    BY DEF Step, Start
  <2> QED
    BY Sound, <1>3, <2>1, SoundSteps, UnseenChangeSong, UnseenPowerCycle DEF Environment
<1>4. CASE UNCHANGED vars
  BY <1>4
  DEF vars, Library!vars, LibraryEntries, Listed, Provisional, Visible, OnCard, Holds,
      Len
<1> QED BY <1>1, <1>2, <1>3, <1>4 DEF Next

\* The store starts with an empty library and no upload.
LEMMA LibraryInit == Init => Library!Init
<1> SUFFICES ASSUME Init PROVE Library!Init
  OBVIOUS
<1>1. LibraryEntries = {}
  BY DEF Init, LibraryEntries, Listed, Visible, Playable, Free
<1> QED BY <1>1 DEF Init, Library!Init, Library!NoUpload, NoUpload

\* SongStore implements SongLibrary on a card that never fails.
THEOREM Refines == ASSUME Plain, Sound PROVE Spec => KeepsLibrary
<1>1. Init => Library!Init
  BY LibraryInit
<1>2. Good /\ LibInv => WholeInv
  BY WholeLibrary
<1>3. Step /\ [Next]_vars => [Library!Next]_(Library!vars)
  BY Plain, Sound, LibraryStep
<1>4. Good /\ LibInv /\ WholeInv => Start
  BY DEF Start
<1>5. Start /\ Start' => Step
  BY DEF Step
<1> QED
  BY Plain, Sound, <1>1, <1>2, <1>3, <1>4, <1>5, AlwaysGood, AlwaysLib, PTL
  DEF Spec, KeepsLibrary, Library!Spec

=============================================================================
