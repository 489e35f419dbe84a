------------------------------ MODULE SongStore ------------------------------
(***************************************************************************)
(* The song store of the player: the SP1F disk (disk.c), the USB upload    *)
(* protocol that writes it (usb.c), the CMD24 and CMD25 write paths of the *)
(* eMMC driver as the upload sees them (emmc.c), and the two readers of    *)
(* the catalog, the boot scan (main.c) and change_song (audio.c).          *)
(*                                                                         *)
(* Every handler runs on the main thread, one at a time; it is cut into    *)
(* one action per eMMC write (with the reads and tests before it), so that *)
(* a reset or the feed thread can come between two writes.  pc says where  *)
(* the running handler is, loc holds its C locals, and both are back to    *)
(* "idle" / NoLocals when it has answered the host.                        *)
(*                                                                         *)
(* hdr, cat and data are the blocks as a read returns them; nand is what   *)
(* survives a power cycle, which differs only while the card's write cache *)
(* holds blocks.  A data block is stamped with the song and offset the     *)
(* host sent.                                                              *)
(***************************************************************************)
EXTENDS Integers, FiniteSets

CONSTANTS
  Songs,      \* names the host uploads under, each begun at most once
  NoName,     \* name[0] = DISK_ENTRY_FREE_MARKER
  MaxSongs,   \* DISK_MAX_SONGS
  PerBlock,   \* DISK_SONGS_PER_BLOCK
  DataStart,  \* DISK_DATA_START_BLOCK
  Capacity,   \* emmc_capacity_blocks()
  Word,       \* one more than the largest uint32_t
  AudioSizes, \* audio_blocks the host declares
  LevelSizes, \* lvl_blocks the host declares
  Commands,   \* what the host and the user do in this instance
  Faults      \* what goes wrong in this instance

ASSUME SizesAssumption ==
  /\ MaxSongs \in Nat \ {0} /\ PerBlock \in Nat \ {0}
  /\ DataStart \in Nat /\ Capacity \in Nat /\ Word \in Nat
  /\ DataStart <= Capacity /\ Capacity < Word
  /\ AudioSizes \subseteq 0 .. (Word - 1)
  /\ LevelSizes \subseteq 0 .. (Word - 1)

ASSUME NameAssumption == NoName \notin Songs

ASSUME ModeAssumption ==
  /\ Commands \subseteq {"multiblock", "block", "mixed", "remove", "swap",
                         "format", "power", "skip"}
  /\ Faults \subseteq {"io", "host", "crash", "cache"}

VARIABLES
  hdr,    \* disk_header_t in block 0
  cat,    \* the catalog blocks, entry by entry
  data,   \* the audio and level blocks
  nand,   \* the header, catalog and data a power cycle leaves
  up,     \* g_upload
  card,   \* the CMD25 session: the bus lock is held while it is open
  pl,     \* s_song_count, s_cur_song, s_song_block_start, s_song_block_count;
          \* history: early, taken from the entry of an unfinished upload
  pc,     \* where the running USB handler is
  loc,    \* its locals
  place,  \* history: where each begun song was to go
  acked   \* history: songs whose COMMIT was answered OK, not yet given up

vars == <<hdr, cat, data, nand, up, card, pl, pc, loc, place, acked>>
disk == <<hdr, cat, data, nand>>

Slots == 0 .. (MaxSongs - 1)
DataBlocks == DataStart .. (Capacity - 1)
CatBlock(i) == i \div PerBlock
CatBlocks == {CatBlock(i) : i \in Slots}

Free == [name |-> NoName, start |-> 0, count |-> 0]
Blank == [song |-> NoName, off |-> 0]
Stamp(s, k) == [song |-> s, off |-> k]
NoUpload == [active |-> FALSE, begun |-> FALSE, song |-> NoName, idx |-> 0,
             start |-> 0, expected |-> 0, audio |-> 0, written |-> 0]
Closed == [open |-> FALSE, pos |-> 0]
NoPlace == [start |-> 0, audio |-> 0, level |-> 0]
NoLocals == [then |-> "idle", song |-> NoName, audio |-> 0, level |-> 0,
             idx |-> 0, count |-> 0, other |-> 0, saved |-> Free, left |-> 0,
             attempt |-> 0]
EmptyPlaylist == [n |-> 0, cur |-> 0, start |-> 0, count |-> 0, early |-> FALSE]

Len(s) == place[s].audio + place[s].level
Used == {s \in Songs : place[s].audio > 0}

(***************************************************************************)
(* The eMMC driver as its callers see it.                                  *)
(***************************************************************************)

\* A CMD24 or CMD25 block write returns true, or false with the block
\* rejected, or false with the block written (busy-timeout, or a response
\* token misread).
Outcomes == IF "io" \in Faults THEN {"ok", "reject", "late"} ELSE {"ok"}
Landed(o) == o # "reject"

\* A command, response or CRC may fail, so any read or session open may.
Fails == IF "io" \in Faults THEN BOOLEAN ELSE {FALSE}

Cached == "cache" \in Faults

\* emmc_write_block of the header, of a catalog block, of a data block.
WriteHeader(h, o) ==
  /\ hdr' = IF Landed(o) THEN h ELSE hdr
  /\ nand' = IF Cached THEN nand ELSE [nand EXCEPT !.hdr = hdr']
  /\ UNCHANGED <<cat, data>>

WriteCatalog(c, o) ==
  /\ cat' = IF Landed(o) THEN c ELSE cat
  /\ nand' = IF Cached THEN nand ELSE [nand EXCEPT !.cat = cat']
  /\ UNCHANGED <<hdr, data>>

WriteData(b, s, k, o) ==
  /\ data' = IF Landed(o) THEN [data EXCEPT ![b] = Stamp(s, k)] ELSE data
  /\ nand' = IF Cached THEN nand ELSE [nand EXCEPT !.data = data']
  /\ UNCHANGED <<hdr, cat>>

\* emmc_write_multi_end and emmc_power_down: CMD6 FLUSH_CACHE, whose result
\* nobody looks at.
AllBlocks == [hdr |-> hdr, cat |-> cat, data |-> data]
FlushCache ==
  /\ nand' = AllBlocks \/ ("io" \in Faults /\ nand' = nand)
  /\ UNCHANGED <<hdr, cat, data>>

\* emmc_write_multi_begin succeeds only inside the capacity.
CanOpen(addr, n) == addr < Capacity /\ addr + n <= Capacity
OpenedAt(addr) == [open |-> TRUE, pos |-> addr]

(***************************************************************************)
(* The catalog.                                                            *)
(***************************************************************************)

\* disk_add_song: the first deleted hole below song_count, else append;
\* MaxSongs stands for the 0xFFFF a full catalog returns.
HolesUntested == {i \in Slots : i < hdr.count}  \* mutant: name[0] not looked at
Holes == {i \in Slots : i < hdr.count /\ cat[i].name = NoName}
ClaimSlot == IF Holes # {} THEN CHOOSE i \in Holes : \A j \in Holes : i <= j
             ELSE hdr.count
CountAfterClaim == IF Holes # {} THEN hdr.count ELSE hdr.count + 1

\* main's boot scan and change_song take the first entry they can read that
\* has a name and a length.
Playable(e) == e.name # NoName /\ e.count > 0
Unread == IF "io" \in Faults THEN SUBSET Slots ELSE {{}}

BootScan(h, c, unread) ==
  LET valid == {i \in Slots \ unread : i < h.count /\ Playable(c[i])}
      first == CHOOSE i \in valid : \A j \in valid : i <= j
  IN  IF ~h.valid \/ valid = {} THEN EmptyPlaylist
      ELSE [n |-> h.count, cur |-> first,
            start |-> c[first].start, count |-> c[first].count,
            early |-> FALSE]

(***************************************************************************)
(* SONG_BEGIN.                                                             *)
(***************************************************************************)

Answer == pc' = "idle" /\ loc' = NoLocals

\* handle_song_begin: abort a stale upload first.
BeginDirectly == "begin"  \* mutant: the previous upload is left as it is
BeginWith == IF up.active THEN "abort" ELSE "begin"

SongBegin(s, audio, level) ==
  /\ pc = "idle" /\ s \notin Used
  /\ pc' = BeginWith
  /\ loc' = [NoLocals EXCEPT !.then = "begin", !.song = s,
                             !.audio = audio, !.level = level]
  /\ UNCHANGED <<disk, up, card, pl, place, acked>>

\* The tests of handle_song_begin on the header it has just read.
TotalBlocks(audio, level) == (audio + level) % Word
BeginAccepted(audio, level) ==
  /\ hdr.valid
  /\ audio > 0
  /\ TotalBlocks(audio, level) >= audio
  /\ hdr.next >= DataStart
  /\ hdr.next + TotalBlocks(audio, level) <= Capacity

BeginRejected ==
  /\ pc = "begin"
  /\ \/ ~BeginAccepted(loc.audio, loc.level)
     \/ ClaimSlot >= MaxSongs
     \/ TRUE \in Fails
  /\ Answer
  /\ UNCHANGED <<disk, up, card, pl, place, acked>>

\* ensure_hdr, the tests, disk_add_song: the provisional entry already has
\* its full block_count.
BeginAddSong(o) ==
  LET entry == [name |-> loc.song, start |-> hdr.next, count |-> loc.audio]
  IN
  /\ pc = "begin"
  /\ BeginAccepted(loc.audio, loc.level) /\ ClaimSlot < MaxSongs
  /\ WriteCatalog([cat EXCEPT ![ClaimSlot] = entry], o)
  /\ place' = [place EXCEPT ![loc.song] =
                 [start |-> hdr.next, audio |-> loc.audio, level |-> loc.level]]
  /\ IF o = "ok"
       THEN /\ pc' = "beginHdr"
            /\ loc' = [loc EXCEPT !.idx = ClaimSlot, !.count = CountAfterClaim]
       ELSE Answer
  /\ UNCHANGED <<up, card, pl, acked>>

\* disk_write_header, then g_upload is filled in and the host gets song_idx.
BeginWriteHeader(o) ==
  /\ pc = "beginHdr"
  /\ WriteHeader([hdr EXCEPT !.count = loc.count], o)
  /\ up' = IF o = "ok"
             THEN [active |-> TRUE, begun |-> FALSE, song |-> loc.song,
                   idx |-> loc.idx, start |-> hdr.next,
                   expected |-> TotalBlocks(loc.audio, loc.level),
                   audio |-> loc.audio, written |-> 0]
             ELSE up
  /\ Answer
  /\ UNCHANGED <<card, pl, place, acked>>

(***************************************************************************)
(* upload_abort, from BEGIN, FORMAT, a failed batch or COMMIT, a DTR drop. *)
(***************************************************************************)

\* What follows the abort: the rest of BEGIN or FORMAT, or nothing.
Resume ==
  /\ pc' = loc.then
  /\ loc' = IF loc.then = "idle" THEN NoLocals ELSE loc

CloseSession ==
  /\ card' = Closed
  /\ up' = [up EXCEPT !.begun = FALSE]
  /\ FlushCache

AbortSession ==
  /\ pc = "abort"
  /\ IF up.begun THEN CloseSession ELSE UNCHANGED <<disk, card, up>>
  /\ pc' = "abortRm"
  /\ UNCHANGED <<pl, loc, place, acked>>

\* disk_remove_song, its result ignored.
AfterAbortKept == cat  \* mutant: the provisional entry stays
AfterAbort == [cat EXCEPT ![up.idx] = Free]

AbortRemove(o) ==
  /\ pc = "abortRm"
  /\ WriteCatalog(AfterAbort, o)
  /\ up' = NoUpload
  /\ Resume
  /\ UNCHANGED <<card, pl, place, acked>>

\* usb_cdc_poll: DTR drops while an upload is active.
DtrDrop ==
  /\ "host" \in Faults
  /\ pc = "idle" /\ up.active
  /\ pc' = "abort"
  /\ UNCHANGED <<disk, up, card, pl, loc, place, acked>>

(***************************************************************************)
(* SONG_MULTIBLOCK: batches of blocks through one CMD25 session.           *)
(***************************************************************************)

\* The address the session is opened at when the batch is the first one.
SessionStart == up.start

\* The tests of handle_song_multiblock and the lazily opened session.
SongMultiblock(n) ==
  /\ "multiblock" \in Commands
  /\ up.written = 0 \/ up.begun \/ "mixed" \in Commands
  /\ pc = "idle" /\ up.active
  /\ n > 0 /\ up.written + n <= up.expected
  /\ \/ /\ up.begun
        /\ UNCHANGED <<card, up>>
     \/ /\ ~up.begun /\ CanOpen(SessionStart, up.expected)
        /\ card' = OpenedAt(SessionStart)
        /\ up' = [up EXCEPT !.begun = TRUE]
  /\ pc' = "batch"
  /\ loc' = [NoLocals EXCEPT !.left = n]
  /\ UNCHANGED <<disk, pl, place, acked>>

\* One block counted: on to the next of the batch, or answer.
BlockDone ==
  IF loc.left = 1
    THEN Answer
    ELSE pc' = "batch" /\ loc' = [NoLocals EXCEPT !.left = loc.left - 1]

\* usb_read_bytes gives up on the next block of the batch.
BatchTimeout ==
  /\ "host" \in Faults
  /\ pc = "batch"
  /\ pc' = "abort" /\ loc' = NoLocals
  /\ UNCHANGED <<disk, up, card, pl, place, acked>>

\* emmc_write_multi_block.  A block that landed moves the card on.
StreamBlock(o) ==
  /\ WriteData(card.pos, up.song, up.written, o)
  /\ card' = IF Landed(o) THEN [card EXCEPT !.pos = @ + 1] ELSE card

BatchBlock(o) ==
  /\ pc = "batch"
  /\ StreamBlock(o)
  /\ IF o = "ok"
       THEN /\ up' = [up EXCEPT !.written = @ + 1]
            /\ BlockDone
       ELSE /\ pc' = "verify" /\ loc' = [loc EXCEPT !.attempt = 0]
            /\ UNCHANGED up
  /\ UNCHANGED <<pl, place, acked>>

\* The recovery loop: end the session, read the block back, and either count
\* it or write it again through a new session at its own address.
FailedBlock == up.start + up.written
ReopenSame == FailedBlock      \* mutant: the verified block is not skipped
ReopenAt == FailedBlock + 1
Trusted == TRUE                \* mutant: every reject taken for a false alarm
Verified == data[FailedBlock] = Stamp(up.song, up.written)
Retries == 2
SameAttempt == loc.attempt     \* mutant: attempts not counted
NextAttempt == loc.attempt + 1

EndBeforeVerify ==
  /\ pc = "verify" /\ card.open
  /\ CloseSession
  /\ UNCHANGED <<pl, pc, loc, place, acked>>

VerifyMatches ==
  /\ pc = "verify" /\ ~card.open
  /\ Verified
  /\ LET remaining == up.expected - up.written - 1
     IN  \/ /\ remaining = 0
            /\ up' = [up EXCEPT !.written = @ + 1]
            /\ BlockDone
            /\ UNCHANGED card
         \/ /\ remaining > 0 /\ CanOpen(ReopenAt, remaining)
            /\ card' = OpenedAt(ReopenAt)
            /\ up' = [up EXCEPT !.written = @ + 1, !.begun = TRUE]
            /\ BlockDone
         \/ /\ remaining > 0 /\ TRUE \in Fails
            /\ up' = [up EXCEPT !.written = @ + 1]
            /\ pc' = "abort" /\ loc' = NoLocals
            /\ UNCHANGED card
  /\ UNCHANGED <<disk, pl, place, acked>>

\* The block does not match, or cannot be read.
VerifyFails ==
  /\ pc = "verify" /\ ~card.open
  /\ ~Verified \/ TRUE \in Fails
  /\ \/ /\ loc.attempt = Retries \/ TRUE \in Fails
        /\ pc' = "abort" /\ loc' = NoLocals
        /\ UNCHANGED <<card, up>>
     \/ /\ loc.attempt < Retries
        /\ CanOpen(FailedBlock, up.expected - up.written)
        /\ card' = OpenedAt(FailedBlock)
        /\ up' = [up EXCEPT !.begun = TRUE]
        /\ pc' = "rewrite"
        /\ UNCHANGED loc
  /\ UNCHANGED <<disk, pl, place, acked>>

RewriteBlock(o) ==
  /\ pc = "rewrite"
  /\ StreamBlock(o)
  /\ IF o = "ok"
       THEN /\ up' = [up EXCEPT !.written = @ + 1]
            /\ BlockDone
       ELSE /\ pc' = "verify" /\ loc' = [loc EXCEPT !.attempt = NextAttempt]
            /\ UNCHANGED up
  /\ UNCHANGED <<pl, place, acked>>

(***************************************************************************)
(* SONG_BLOCK: one block, outside any session (CMD24).                     *)
(***************************************************************************)

\* A host that got ERR sends the same block again.
SongBlock(o) ==
  /\ "block" \in Commands
  /\ pc = "idle" /\ up.active /\ ~up.begun
  /\ up.written < up.expected
  /\ WriteData(up.start + up.written, up.song, up.written, o)
  /\ up' = IF o = "ok" THEN [up EXCEPT !.written = @ + 1] ELSE up
  /\ UNCHANGED <<card, pl, pc, loc, place, acked>>

(***************************************************************************)
(* SONG_COMMIT.                                                            *)
(***************************************************************************)

Complete == up.written = up.expected

\* The tests, and the end of the session; a failed end aborts the upload.
SongCommit ==
  /\ pc = "idle" /\ up.active /\ Complete
  /\ IF up.begun THEN CloseSession ELSE UNCHANGED <<disk, card, up>>
  /\ pc' = "commitCat" \/ (up.begun /\ TRUE \in Fails /\ pc' = "abort")
  /\ UNCHANGED <<pl, loc, place, acked>>

\* disk_read_song, disk_write_song; on failure the upload stays open and the
\* host may ask again.
CommitCatalog(o) ==
  /\ pc = "commitCat"
  /\ WriteCatalog([cat EXCEPT ![up.idx].count = up.audio], o)
  /\ IF o = "ok" THEN pc' = "commitHdr" /\ UNCHANGED loc ELSE Answer
  /\ UNCHANGED <<up, card, pl, place, acked>>

\* The header cannot be read back: ERR, the upload still open.
CommitUnread ==
  /\ pc = "commitHdr" /\ TRUE \in Fails
  /\ Answer
  /\ UNCHANGED <<disk, up, card, pl, place, acked>>

\* active is cleared before the write.  On success the new song is armed.
NextFree == up.start + up.written

CommitHeader(o) ==
  /\ pc = "commitHdr"
  /\ WriteHeader([hdr EXCEPT !.next = NextFree], o)
  /\ up' = NoUpload
  /\ IF o = "ok"
       THEN /\ acked' = acked \union {up.song}
            /\ pl' = [n |-> hdr.count, cur |-> up.idx,
                      start |-> up.start, count |-> up.audio, early |-> FALSE]
       ELSE UNCHANGED <<acked, pl>>
  /\ Answer
  /\ UNCHANGED <<card, place>>

(***************************************************************************)
(* SONG_REMOVE, the commands that only read, SONG_SWAP, DISK_FORMAT.       *)
(***************************************************************************)

\* handle_song_remove looks at neither the upload nor the session: between two
\* batches its commands go into the open stream.  The host does not remove the
\* entry it is uploading.
SongRemove(i) ==
  /\ "remove" \in Commands
  /\ pc = "idle" /\ ~(up.active /\ i = up.idx)
  /\ pc' = "remove" /\ loc' = [NoLocals EXCEPT !.idx = i]
  /\ UNCHANGED <<disk, up, card, pl, place, acked>>

\* The card refuses the read that comes first while it waits for a block of
\* the stream; behind the last one CMD23 declared it is ready again.
MidStream == card.open /\ card.pos < up.start + up.expected

RemoveRefused ==
  /\ pc = "remove" /\ MidStream
  /\ Answer
  /\ UNCHANGED <<disk, up, card, pl, place, acked>>

RemoveEntry(o) ==
  /\ pc = "remove" /\ ~MidStream
  /\ WriteCatalog([cat EXCEPT ![loc.idx] = Free], o)
  /\ acked' = acked \ {cat[loc.idx].name}
  /\ Answer
  /\ UNCHANGED <<up, card, pl, place>>

\* DISK_INFO, READ_BLOCK and CATALOG_READ look at neither the upload nor the
\* session either, and are answered whether their CMD17s are or not.
HostRead ==
  /\ pc = "idle"
  /\ pc' = "read"
  /\ UNCHANGED <<disk, up, card, pl, loc, place, acked>>

HostReadDone ==
  /\ pc = "read"
  /\ Answer
  /\ UNCHANGED <<disk, up, card, pl, place, acked>>

\* Both entries are read, then the first is written; a failure of this write
\* is answered as it is.  The handler checks the indices against MaxSongs only;
\* the host swaps songs of its list, which are below song_count.
SongSwap(i, j, o) ==
  /\ "swap" \in Commands
  /\ pc = "idle" /\ ~up.active /\ i # j
  /\ i < hdr.count /\ j < hdr.count
  /\ WriteCatalog([cat EXCEPT ![i] = cat[j]], o)
  /\ IF o = "ok"
       THEN /\ pc' = "swap"
            /\ loc' = [NoLocals EXCEPT !.idx = i, !.other = j, !.saved = cat[i]]
       ELSE UNCHANGED <<pc, loc>>
  /\ UNCHANGED <<up, card, pl, place, acked>>

SwapEntry == loc.saved

SwapSecond(o) ==
  /\ pc = "swap"
  /\ WriteCatalog([cat EXCEPT ![loc.other] = SwapEntry], o)
  /\ IF o = "ok" THEN Answer ELSE pc' = "swapBack" /\ UNCHANGED loc
  /\ UNCHANGED <<up, card, pl, place, acked>>

SwapBack(o) ==
  /\ pc = "swapBack"
  /\ WriteCatalog([cat EXCEPT ![loc.idx] = loc.saved], o)
  /\ Answer
  /\ UNCHANGED <<up, card, pl, place, acked>>

DiskFormat ==
  /\ "format" \in Commands
  /\ pc = "idle"
  /\ pc' = IF up.active THEN "abort" ELSE "format"
  /\ loc' = [NoLocals EXCEPT !.then = "format"]
  /\ UNCHANGED <<disk, up, card, pl, place, acked>>

Formatted == [valid |-> TRUE, count |-> 0, next |-> DataStart]

FormatHeader(o) ==
  /\ pc = "format"
  /\ WriteHeader(Formatted, o)
  /\ acked' = {}
  /\ IF o = "ok" THEN pc' = "formatCat" /\ loc' = NoLocals ELSE Answer
  /\ UNCHANGED <<up, card, pl, place>>

\* One catalog block zeroed; the playlist goes only when all of them are.
KeepPlaylist == pl  \* mutant: the RAM playlist survives the format
FormattedPlaylist == EmptyPlaylist

FormatCatalog(o) ==
  LET last == \A b \in CatBlocks : b <= loc.idx
  IN
  /\ pc = "formatCat"
  /\ WriteCatalog([i \in Slots |-> IF CatBlock(i) = loc.idx THEN Free ELSE cat[i]],
                  o)
  /\ pl' = IF o = "ok" /\ last THEN FormattedPlaylist ELSE pl
  /\ IF o = "ok" /\ ~last
       THEN loc' = [loc EXCEPT !.idx = @ + 1] /\ UNCHANGED pc
       ELSE Answer
  /\ UNCHANGED <<up, card, place, acked>>

(***************************************************************************)
(* The feed thread's skip, power off and on, a reset.                      *)
(***************************************************************************)

\* change_song, on a skip and at the end of a song, walks the catalog from the
\* current song to the first entry it can read and play.  It does not run
\* while a session holds the bus, but it may in the middle of an upload, and
\* then it finds the entry of that upload too.
SongAt(dir, step) == (pl.cur + dir * step) % pl.n
Found(dir, unread) ==
  {step \in 1 .. pl.n : /\ SongAt(dir, step) \notin unread
                        /\ Playable(cat[SongAt(dir, step)])}
Nearest(dir, unread) ==
  CHOOSE step \in Found(dir, unread) :
    \A other \in Found(dir, unread) : step <= other

\* The slot of the running upload.
Pending(i) ==
  \/ up.active /\ i = up.idx
  \/ pc = "beginHdr" /\ i = loc.idx

ChangeSong(dir, unread) ==
  LET i == SongAt(dir, Nearest(dir, unread))
  IN
  /\ "skip" \in Commands
  /\ ~card.open
  /\ pl.n > 0 /\ Found(dir, unread) # {}
  /\ pl' = [pl EXCEPT !.cur = i, !.start = cat[i].start, !.count = cat[i].count,
                      !.early = Pending(i)]
  /\ UNCHANGED <<disk, up, card, pc, loc, place, acked>>

\* The RAM of a fresh boot, over the blocks the card now returns.
Restart(unread) ==
  /\ up' = NoUpload /\ card' = Closed
  /\ pl' = BootScan(hdr', cat', unread)
  /\ Answer
  /\ UNCHANGED <<place, acked>>

\* enter_system_off, which main refuses during an upload, and the next boot.
PowerCycle(unread) ==
  /\ "power" \in Commands
  /\ pc = "idle" /\ ~up.active
  /\ nand' = AllBlocks
  /\ UNCHANGED <<hdr, cat, data>>
  /\ Restart(unread)

\* Watchdog, fault or flat battery: of the blocks still in the card's cache
\* any subset has reached the NAND.
Crash(unread) ==
  /\ "crash" \in Faults
  /\ \E h \in {hdr, nand.hdr},
        lostCat \in SUBSET {b \in CatBlocks :
                      \E i \in Slots : CatBlock(i) = b /\ cat[i] # nand.cat[i]},
        lostData \in SUBSET {b \in DataBlocks : data[b] # nand.data[b]} :
       /\ hdr' = h
       /\ cat' = [i \in Slots |-> IF CatBlock(i) \in lostCat
                                    THEN nand.cat[i] ELSE cat[i]]
       /\ data' = [b \in DataBlocks |-> IF b \in lostData
                                          THEN nand.data[b] ELSE data[b]]
  /\ nand' = [hdr |-> hdr', cat |-> cat', data |-> data']
  /\ Restart(unread)

(***************************************************************************)
(* The specification.                                                      *)
(***************************************************************************)

\* A card never formatted, or one freshly formatted.
Init ==
  /\ hdr \in {[valid |-> FALSE, count |-> 0, next |-> 0], Formatted}
  /\ cat = [i \in Slots |-> Free]
  /\ data = [b \in DataBlocks |-> Blank]
  /\ nand = AllBlocks
  /\ up = NoUpload /\ card = Closed /\ pl = EmptyPlaylist
  /\ pc = "idle" /\ loc = NoLocals
  /\ place = [s \in Songs |-> NoPlace] /\ acked = {}

\* The steps that begin a handler.
Command ==
  \/ \E s \in Songs, audio \in AudioSizes, level \in LevelSizes :
       SongBegin(s, audio, level)
  \/ \E n \in 1 .. Capacity : SongMultiblock(n)
  \/ \E o \in Outcomes : SongBlock(o)
  \/ SongCommit
  \/ \E i \in Slots : SongRemove(i)
  \/ HostRead
  \/ \E i, j \in Slots, o \in Outcomes : SongSwap(i, j, o)
  \/ DiskFormat
  \/ DtrDrop

\* The steps that carry it on.
Handler ==
  \/ BeginRejected \/ AbortSession \/ CommitUnread \/ RemoveRefused \/ HostReadDone
  \/ EndBeforeVerify \/ VerifyMatches \/ VerifyFails \/ BatchTimeout
  \/ \E o \in Outcomes :
       \/ BeginAddSong(o) \/ BeginWriteHeader(o) \/ AbortRemove(o)
       \/ BatchBlock(o) \/ RewriteBlock(o)
       \/ CommitCatalog(o) \/ CommitHeader(o)
       \/ RemoveEntry(o) \/ SwapSecond(o) \/ SwapBack(o)
       \/ FormatHeader(o) \/ FormatCatalog(o)

Environment ==
  \/ \E dir \in {1, -1}, unread \in Unread : ChangeSong(dir, unread)
  \/ \E unread \in Unread : PowerCycle(unread)
  \/ \E unread \in Unread : Crash(unread)

Next == Command \/ Handler \/ Environment

Spec == Init /\ [][Next]_vars

\* The main thread runs whenever the feed thread sleeps, and every wait of a
\* handler has a timeout.
FairSpec == Spec /\ WF_vars(Handler)

(***************************************************************************)
(* Properties.                                                             *)
(***************************************************************************)

Names == Songs \union {NoName}
Entries == [name : Names, start : 0 .. Capacity, count : Nat]
Headers == [valid : BOOLEAN, count : 0 .. MaxSongs, next : 0 .. Capacity]
Catalogs == [Slots -> Entries]
Contents == [DataBlocks -> [song : Names, off : Nat]]
Cards == [hdr : Headers, cat : Catalogs, data : Contents]
Uploads == [active : BOOLEAN, begun : BOOLEAN, song : Names, idx : Slots,
            start : 0 .. Capacity, expected : Nat, audio : Nat, written : Nat]
Sessions == [open : BOOLEAN, pos : Nat]
Playlists == [n : 0 .. MaxSongs, cur : Slots, start : 0 .. Capacity, count : Nat,
              early : BOOLEAN]
Steps == {"idle", "abort", "abortRm", "begin", "beginHdr", "batch", "verify",
          "rewrite", "commitCat", "commitHdr", "remove", "read", "swap", "swapBack",
          "format", "formatCat"}
Locals == [then : {"idle", "begin", "format"}, song : Names, audio : Nat,
           level : Nat, idx : Nat, count : 0 .. MaxSongs, other : Slots,
           saved : Entries, left : Nat, attempt : Nat]
Places == [Songs -> [start : 0 .. Capacity, audio : Nat, level : Nat]]

\* Each variable holds what its C type and the handlers allow it.
TypeOK ==
  /\ hdr \in Headers /\ cat \in Catalogs /\ data \in Contents /\ nand \in Cards
  /\ up \in Uploads /\ card \in Sessions /\ pl \in Playlists
  /\ pc \in Steps /\ loc \in Locals
  /\ place \in Places /\ acked \subseteq Songs

\* The block at b is the k-th block the host sent of song s.
Holds(b, s, k) == b \in DataBlocks /\ data[b] = Stamp(s, k)

\* Once COMMIT has answered OK every block of the song, level region included,
\* is on the card where the catalog put it, whatever is uploaded, aborted,
\* retried, removed or reset afterwards, until the host gives the song up.
AckedIntact ==
  \A s \in acked : \A k \in 0 .. (Len(s) - 1) : Holds(place[s].start + k, s, k)

\* The entry of slot i, if a scan of the catalog gets that far.
Visible(i) == i < hdr.count /\ Playable(cat[i])

\* ... and stays in the part of the catalog a scan reads, under its own start
\* and length (while a swap runs its entry may be in the handler's locals).
AckedListed ==
  pc \notin {"swap", "swapBack"} =>
    \A s \in acked : \E i \in Slots :
      Visible(i) /\ cat[i] = [name |-> s, start |-> place[s].start,
                              count |-> place[s].audio]

\* Two songs of the catalog never claim the same block, levels included.
Extent(i) == cat[i].start .. (cat[i].start + Len(cat[i].name) - 1)
NoOverlap ==
  \A i, j \in Slots :
    Visible(i) /\ Visible(j) /\ cat[i].name # cat[j].name =>
      Extent(i) \intersect Extent(j) = {}

\* Between uploads, what a boot scan or a skip would play was committed.
PlayableCommitted ==
  pc = "idle" /\ ~up.active => \A i \in Slots : Visible(i) => cat[i].name \in acked

\* The catalog never lists a song twice once the handler has answered.
ListedOnce ==
  pc = "idle" => \A i, j \in Slots :
                   i # j /\ Visible(i) /\ Visible(j) => cat[i].name # cat[j].name

\* The song the player has loaded, by a boot, by COMMIT or by change_song at
\* any time, is on the card from end to end: it was uploaded completely and
\* nothing has been written over it since.  The one exception is an entry
\* change_song took from an upload in progress; that one lies behind
\* next_free_block, outside every committed song, and never stays loaded
\* behind a COMMIT.
OneSong ==
  \E s \in Used : \A k \in 0 .. (pl.count - 1) : Holds(pl.start + k, s, k)
PlayerWhole ==
  pl.count > 0 => IF pl.early THEN hdr.next <= pl.start ELSE OneSong

\* Without the exception; change_song (audio.c:176) tests the name and the
\* length of an entry only, which BEGIN has written both.
AlwaysWhole == pl.count > 0 => OneSong

\* An open CMD25 session writes the block the upload counts next, through
\* every retry and reopening, and through the commands that go to the card
\* between two batches.
StreamAligned ==
  card.open /\ pc \in {"idle", "read", "remove", "batch", "rewrite"} =>
    /\ up.active /\ up.begun
    /\ card.pos = up.start + up.written
    /\ pc \in {"batch", "rewrite"} => up.written < up.expected

\* The only single-block commands a CMD25 session ever sees are those of the
\* handlers that do not look for one, dispatched between two batches: BEGIN,
\* COMMIT, SWAP, FORMAT and the abort, from whatever failure they come, have
\* ended the session before their first one, and no session outlives its
\* upload.
SingleBlockSteps == {"begin", "beginHdr", "abortRm", "commitCat", "commitHdr",
                     "remove", "read", "swap", "swapBack", "format", "formatCat"}
Unguarded == {"remove", "read"}
NoNesting ==
  /\ pc \in SingleBlockSteps \ Unguarded => ~card.open
  /\ card.open => up.active
  /\ card.open <=> up.begun

\* emmc.c:750-751 holds the bus for the whole session "so nothing can
\* interleave clocks mid-stream", and usb.c:470-471 refuses SONG_BLOCK there because
\* it would "nest on the recursive bus lock".  The unguarded handlers do nest.
NothingNested == pc \in SingleBlockSteps => ~card.open

\* Every command is answered, however often the card or the host fails.
Answered == pc # "idle" ~> pc = "idle"

(***************************************************************************)
(* SongStore implements SongLibrary.  The library is what a scan of the    *)
(* catalog finds now, without the entry BEGIN has written for an upload    *)
(* and with the one a swap holds in its locals; the blocks of a song are   *)
(* those that read back as the host sent them.                             *)
(***************************************************************************)
Provisional ==
  IF up.active THEN {up.song} ELSE IF pc = "beginHdr" THEN {loc.song} ELSE {}
Listed ==
  {cat[i] : i \in {j \in Slots : Visible(j)}}
    \union (IF pc \in {"swap", "swapBack"} THEN {loc.saved} ELSE {})
OnCard(e) ==
  [song |-> e.name,
   blocks |-> {k \in 0 .. (Len(e.name) - 1) : Holds(e.start + k, e.name, k)}]

LibraryEntries == {e \in Listed : Playable(e) /\ e.name \notin Provisional}

Library == INSTANCE SongLibrary WITH
  library <- {OnCard(e) : e \in LibraryEntries},
  upload <- [song |-> up.song, size |-> up.expected, got |-> up.written]

\* Read from the disk alone, through every handler, retry, abort, swap and
\* power cycle, the store does nothing SongLibrary does not allow: a song
\* appears by its COMMIT only, whole, and stays as it is until REMOVE or
\* FORMAT.
KeepsLibrary == Library!Spec

(***************************************************************************)
(* The inductive invariants behind TypeOK and AckedIntact.                 *)
(***************************************************************************)

Receiving == {"batch", "verify", "rewrite"}

\* The upload has a name and fits the card; the running batch fits the upload.
Bounds ==
  /\ up.active => /\ up.song \in Songs
                  /\ DataStart <= up.start
                  /\ up.start + up.expected <= Capacity
                  /\ up.written <= up.expected
  /\ pc \in Receiving =>
       up.active /\ loc.left >= 1 /\ up.written + loc.left <= up.expected
  /\ pc \in {"commitCat", "commitHdr"} => up.active /\ Complete
  /\ loc.then = "begin" => loc.song \in Songs
  /\ pc \in {"begin", "beginHdr"} => loc.then = "begin"
  /\ pc = "beginHdr" => loc.idx \in Slots /\ BeginAccepted(loc.audio, loc.level)

\* A BEGIN in progress works for a song never acknowledged, with no upload
\* beside it once it has passed the abort; FORMAT likewise.
BeginInv ==
  /\ loc.then = "begin" =>
       /\ pc \in {"abort", "abortRm", "begin", "beginHdr"}
       /\ loc.song \notin acked
       /\ loc.audio \in 0 .. (Word - 1) /\ loc.level \in 0 .. (Word - 1)
  /\ pc \in {"begin", "beginHdr"} => ~up.active
  /\ pc = "beginHdr" =>
       place[loc.song] = [start |-> hdr.next, audio |-> loc.audio, level |-> loc.level]
  /\ pc = "format" => ~up.active

\* The upload writes past everything acknowledged, and what it has counted is
\* on the card.
UploadInv ==
  up.active =>
    /\ up.song \notin acked
    /\ up.start = hdr.next
    /\ place[up.song].start = up.start
    /\ place[up.song].audio > 0
    /\ Len(up.song) = up.expected
    /\ \A k \in 0 .. (up.written - 1) : Holds(up.start + k, up.song, k)

SessionInv ==
  /\ up.begun = card.open
  /\ up.begun => up.active
  /\ card.open /\ pc \in {"idle", "read", "remove", "batch", "rewrite"} =>
       card.pos = up.start + up.written
  /\ pc \in {"batch", "rewrite"} => card.open
  /\ card.open => pc \notin SingleBlockSteps \ Unguarded

AckedInv ==
  /\ \A s \in acked : place[s].audio > 0 /\ place[s].start + Len(s) <= hdr.next
  /\ AckedIntact

\* With no write cache the card has what it returns.
Inv == nand = AllBlocks /\ BeginInv /\ UploadInv /\ SessionInv /\ AckedInv

\* What holds before every step and after it when the card has no write cache
\* and the host does not mix SONG_BLOCK and SONG_MULTIBLOCK in one upload: the
\* types, the bounds of the upload, and where every counted block lies.
Good == TypeOK /\ Bounds /\ Inv

(***************************************************************************)
(* The inductive invariants behind AckedListed, PlayerWhole and            *)
(* KeepsLibrary, each on top of Good.                                      *)
(***************************************************************************)

\* The entry a song gets in the catalog.
EntryOf(s) == [name |-> s, start |-> place[s].start, count |-> place[s].audio]

\* An active upload owns the slot BEGIN wrote for it, a BEGIN between its two
\* writes the slot it has claimed; no other handler that writes the catalog
\* runs beside them, but a SONG_REMOVE of another slot.
SlotInv ==
  /\ pc \in {"abort", "abortRm"} => up.active
  /\ pc \in {"swap", "swapBack", "formatCat"} => ~up.active
  /\ ~up.active => up = NoUpload
  /\ up.active => /\ up.idx < hdr.count
                  /\ cat[up.idx] = EntryOf(up.song)
                  /\ up.audio = place[up.song].audio
  /\ pc = "remove" => ~(up.active /\ loc.idx = up.idx)
  /\ pc = "beginHdr" =>
       /\ cat[loc.idx] = EntryOf(loc.song)
       /\ \/ loc.idx < hdr.count /\ loc.count = hdr.count
          \/ loc.idx = hdr.count /\ loc.count = hdr.count + 1

\* Between the two writes of a swap the first slot repeats the second, and the
\* entry it had is in the handler's locals.
SwapInv ==
  pc = "swap" =>
    /\ "swap" \in Commands
    /\ loc.idx \in Slots /\ loc.idx < hdr.count
    /\ loc.other < hdr.count /\ loc.other # loc.idx
    /\ cat[loc.idx] = cat[loc.other]

\* Every acknowledged song is in the catalog, or in the locals of a swap.
InCatalog(s) == \E i \in Slots : i < hdr.count /\ cat[i] = EntryOf(s)
ListInv ==
  /\ SlotInv /\ SwapInv
  /\ pc # "swapBack"
  /\ pc = "formatCat" => acked = {}
  /\ \A s \in acked : InCatalog(s) \/ (pc = "swap" /\ loc.saved = EntryOf(s))

\* The entry names a song that is on the card from end to end, in front of
\* next_free_block.
Whole(e) ==
  /\ e.name \in Used /\ e = EntryOf(e.name)
  /\ e.start + Len(e.name) <= hdr.next
  /\ \A k \in 0 .. (Len(e.name) - 1) : Holds(e.start + k, e.name, k)

\* On a card that never fails every other entry a scan finds is whole, the one
\* a swap holds included; a BEGIN works for a song that has no place yet.
LibInv ==
  /\ SlotInv /\ SwapInv
  /\ pc \notin {"verify", "rewrite", "swapBack"}
  /\ pc = "formatCat" => hdr.count = 0
  /\ pc # "beginHdr" /\ loc.then = "begin" => loc.song \notin Used
  /\ \A i \in Slots : Visible(i) /\ ~Pending(i) => Whole(cat[i])
  /\ pc = "swap" /\ Playable(loc.saved) => Whole(loc.saved)

\* What the player has loaded was whole when it was loaded, and lies in front
\* of next_free_block until DISK_FORMAT has unloaded it; what it took early lies
\* behind.  It scans no further than the catalog goes, and while DISK_FORMAT
\* empties the catalog what is left in it is still on the card.
Stored(e) ==
  /\ e.name \in Used /\ e = EntryOf(e.name)
  /\ \A k \in 0 .. (Len(e.name) - 1) : Holds(e.start + k, e.name, k)

PlayerInv ==
  /\ PlayerWhole
  /\ pl.early => DataStart <= pl.start /\ hdr.next <= pl.start
  /\ pl.count > 0 /\ ~pl.early /\ pc # "formatCat" =>
       pl.start + pl.count <= hdr.next
  /\ pc # "formatCat" => pl.n <= hdr.count
  /\ pc = "formatCat" =>
       \A i \in Slots : i < pl.n /\ Playable(cat[i]) => Stored(cat[i])

=============================================================================
