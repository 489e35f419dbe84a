# Verification of marisko

marisko is a firmware for a four-stem music player (nRF52840, Zephyr). A song is
a run of 512-byte ADPCM blocks on an eMMC card; a host uploads songs over a USB
serial port, and a feed thread decodes the current song into the I2S transmit
queue. All source paths below are under `src/app/src/`.

This directory holds TLA+ modules translated from that source, TLC
configurations that check them on small instances, and TLAPS proofs of what
holds on instances of every size. `PROJECT.json` maps every definition to the
lines it models, and lists each run, the properties it checks, and for every
property a mutation of the code it would catch.

## 1. The system

### Threads

| thread | priority | runs | shares |
|---|---|---|---|
| UI (`main.c` ui_main) | 1 | every 8 ms: buttons, faders, LEDs; calls `audio_*`, `codec_*` | audio state, codec pages, `g_settings_dirty`, volume |
| feed (`audio.c` feed_main) | 5 | whenever a transmit buffer is free | audio state, eMMC |
| main (`main.c` main) | 10 | boot, USB commands, settings, power, watchdog | everything |
| USB interrupt (`usb.c` uart_irq) | - | fills the receive ring | ring head and tail |

A thread of a smaller number preempts the others at any instruction. So a UI
handler is atomic for the feed, a feed step is atomic for main unless it blocks
on the bus or the queue, and main may be interrupted anywhere.

### Components

| component | state | operations | correct when |
|---|---|---|---|
| Song store (`disk.c`) | header block, catalog blocks | write header, read/write/add/remove entry, format | acknowledged songs stay listed with their own blocks |
| Upload protocol (`usb.c` 103-565) | `g_upload`, `g_hdr` | BEGIN, MULTIBLOCK, BLOCK, COMMIT, REMOVE, SWAP, FORMAT, abort, DTR drop | an answer OK means the song is there for good; an abandoned upload leaves nothing |
| eMMC driver (`emmc.c`) | session flag, bus mutex, cache flag, the card itself | init, CMD17/18/24/25, cache flush, power down | a command reaches only a card that can take it; every path returns the bus; sessions do not nest |
| Audio feed (`audio.c`) | position, prefetch, loop cache, levels, decoder | fill_block, change_song, load, loop, skip | the decoder gets the blocks of one song in order; the shared pool is never read as what it is not |
| Transmit queue (`audio.c` 457-522) | slab, I2S state | prime, feed, recover | no buffer is lost; nothing is left out of the stream; the feed never stops for good |
| USB framing (`usb.c` 21-97, 566-679) | receive ring, parser | read with timeout, drain, dispatch | no data is parsed as a command; a batch answered OK is the batch that was sent; one answer for each message |
| Boot scan, main loop (`main.c` 703-946) | playlist, uploading | scan, poll, settings, power | the player starts on a committed song |
| Settings and output (`main.c` 60-72, 425-474, 813-922) | volume, dirty flag, output in use | step, flush, switch | the last volume reaches the card; one output sounds, at the volume |
| Buttons and UI (`main.c` 301-590) | debounce, gestures | fold, solo, gate, hold | a gesture has one meaning |
| Power gates (`main.c` 101-300, 630-700, 830-883) | hold timers | on, off | off only after a full hold, never in an upload |
| Codec (`codec.c`) | page of each codec, mutes | register writes, routing | a register write goes to the page it was meant for |
| ADC, battery, LEDs, PWM | last samples | convert, look up, write registers | data only |

### How they interact

- main calls the USB handlers, and these call `disk_*` and `emmc_*`; a whole
  upload holds one CMD25 session and with it the recursive bus mutex.
- The feed thread reads the catalog (change_song) and the song through the same
  mutex; `fill_block` plays silence while a session is open.
- COMMIT and FORMAT reload the player (`audio_set_playlist`, `audio_load_song`);
  the UI thread sets flags that the feed consumes (skip, loop start, loop stop).
- The host sees the answers; it may stall, drop DTR, or send any command at any
  time. The card may reject a command, misread a response, or report a block as
  failed that it has written. A watchdog reset may come anywhere.

### What is hard

Two block writes make one change and anything may come between them; a retry
must not double or skip a block; the answer OK comes before the card's cache is
on flash; three threads share the audio state without a lock; one memory pool is
prefetch, level table and loop cache in turn. `PROJECT.json` lists each such
hazard at its line with the properties that watch it.

## 2. Modules

| module | models | status |
|---|---|---|
| `SongStore` | disk.c, the upload commands of usb.c, the write paths of emmc.c, boot scan, change_song | checked |
| `SongLibrary` | what the song store promises, without a card; SongStore implements it | refinement checked, and proved for a card that works |
| `SongStoreProofs` | theorems about SongStore | proved |
| `EmmcBus` | emmc.c between its two threads: lock, init, reads with retries, writes, sessions, flush, power down; the scratch block of disk.c | checked |
| `EmmcBusProofs` | theorems about EmmcBus | proved |
| `UsbFraming` | the receive ring and the parser of usb.c | checked |
| `UsbFramingProofs` | theorems about UsbFraming | proved |
| `AudioFeed` | fill_block, loop_preload, change_song, the loop and skip handlers, audio_load_song | checked |
| `AudioFeedProofs` | theorems about AudioFeed | proved |
| `TxQueue` | feed_main over the slab and the I2S driver | checked |
| `TxQueueProofs` | theorems about TxQueue | proved |
| `Mixer`, `MixerProofs` | the ADPCM step, the mix of the stems, the level table: what is computed, and that nothing leaves its range | checked, proved |
| `Output` | volume and its save, jack switch, codec driver over two threads | checked |
| `OutputProofs` | theorems about Output | proved |
| `Gates` | track buttons, function, gate, solo, hold to switch off and on | checked |
| `GatesProofs` | theorems about Gates | proved |
| `MC...` | instances of each for TLC | |

SongStore sees of the card what a caller sees: a call works, fails, or fails with
the block written. EmmcBus has the calls step by step between the threads, and
no contents. AudioFeed says which block of a song fills a buffer, TxQueue what
becomes of the buffer. UsbFraming delivers the commands SongStore executes;
that a host stalls or goes away is in both.

A step that is proved to keep a type is not checked again: the runs of SongStore,
AudioFeed, TxQueue, Output and Gates leave TypeOK to the theorems. UsbFraming's
TypeOK holds the bound of the ring and of every count of the parser, EmmcBus's that
of the tries and of the calls; both are proved and checked.

What is left, in this order:

1. `Player`, the abstract stream of blocks of one song after the other, and the
   refinement from AudioFeed.

Every invariant and action property of a passing run is a theorem of its module as
well, some under assumptions that the section of the module names; liveness is
checked only.

## 3. SongStore

### State

| variable | code |
|---|---|
| `hdr` | `disk_header_t` in block 0: magic and version (`valid`), `song_count`, `next_free_block`; the volume is in Output |
| `cat` | the catalog, one entry for each slot, `PerBlock` to a block |
| `data` | each audio or level block, stamped with the song and the offset the host sent |
| `nand` | what survives a power cycle; equal to the three above unless the card caches writes |
| `up` | `g_upload` |
| `card` | the CMD25 session: open, and where the next block lands |
| `pl` | `s_song_count`, `s_cur_song`, `s_song_block_start`, `s_song_block_count`; history: `early`, the entry was taken from an upload in progress |
| `pc`, `loc` | where the running handler is, and its C locals |
| `place`, `acked` | history: where a begun song was to go; the songs whose COMMIT was answered OK and which were not removed or formatted away since |

`g_hdr` is not a variable: every handler that uses it reads it afresh after BEGIN
and nobody writes the modelled fields in between.

### Actions

A handler runs on the main thread until it answers; it is cut into one action for
each block write, together with the reads and tests before it, because between
two writes a reset may come, or the feed thread's change_song. `BEGIN` is
`SongBegin`, (`AbortSession`, `AbortRemove`,) `BeginAddSong`, `BeginWriteHeader`;
`SONG_MULTIBLOCK` is `SongMultiblock`, then `BatchBlock` for each block, with the
recovery loop `EndBeforeVerify`, `VerifyMatches`, `VerifyFails`, `RewriteBlock`;
`COMMIT` is `SongCommit`, `CommitCatalog`, `CommitHeader`; and so on. Block
writes are atomic: a card block is the unit of a program operation.

`SONG_REMOVE`, and `READ_BLOCK`, `CATALOG_READ` and `DISK_INFO` (`HostRead`,
`HostReadDone`), look at neither the upload nor the session. The host may send them
between two batches, and the bus mutex is recursive, so their CMD17 goes into the
open CMD25 stream. A card that waits for a block of the stream refuses it: the
reads are answered with ERR or zeros, and SONG_REMOVE, whose write comes behind a
read, ends there (`MidStream`, `RemoveRefused`). Behind the last block CMD23 has
declared the card is ready again and the command is done. That the stream itself
survives is what is assumed of the card here; nobody has tried it.

A write has three outcomes (`Outcomes`): done; refused; done but reported as
failed, which `write_multi_block_locked` does on a busy timeout or a misread
response token. Reads, session ends and session opens may fail. The result of
the flush inside a session end is ignored by the code, so `FlushCache` may do
nothing on a failing card.

### What the environment is assumed to do

- A name is not empty, and no song is uploaded twice under one name (names only
  tell songs apart).
- The host swaps entries below `song_count` (the handler tests against
  `DISK_MAX_SONGS` only), does not remove the entry it is uploading, and after an
  ERR to SONG_BLOCK sends the same block again.
- SONG_BLOCK and SONG_MULTIBLOCK are not mixed in one upload, unless the run says
  so (`mixed`).
- WRITE_PROBE and WRITE_STRESS, which write raw blocks as a bench test, are not
  sent. DISK_FORMAT is the host giving every song up.

### Runs

`songstore_host` has every command, the reading ones and SONG_REMOVE in a session
too, change_song at any time no session is open (the rocker, and every end of a
song), a stalling or vanishing host, a working card;
three songs, three catalog slots in two catalog blocks, four data blocks, a Word
of 8 so that `audio_blocks + lvl_blocks` wraps. Holes are reused in either
catalog block, the catalog fills, and four blocks hold two songs with or without a
level region and refuse a third. It checks the refinement (below) and
PlayerWhole: what the player holds is a whole song, or the entry change_song took
from the upload in progress. change_song tests name and length of an entry only,
and BEGIN has written both, so it can take that one between BEGIN and the first
batch, or between two SONG_BLOCKs; PlayerWhole then says that it lies behind
`next_free_block`, outside every committed song, and that no COMMIT leaves it
loaded. `songstore_faults` adds failing reads and writes and resets, with
two slots and one audio block per song. `songstore_answered` checks under
fairness that every command ends.

The bounds are enough because every action reads at most one upload, one
previous song and one neighbour in the catalog; the theorems below say the same
of every size for what they cover.

### SongLibrary

`SongLibrary` knows no card: a set of songs, each with its blocks, and at most
one upload. `KeepsLibrary == Library!Spec` says that SongStore implements it under
this mapping:

| abstract | concrete |
|---|---|
| `library` | the entries a boot scan would take now, each with those of its blocks that read back as the host sent them; without the entry BEGIN has written for the upload under way, and with the one a swap holds in its locals |
| `upload` | `g_upload`: the song, `blocks_expected`, `blocks_written` |

The library is read off the disk alone: no history variable has a part in it. So
one step of SongStore may be COMMIT in SongLibrary only when it makes a complete
song visible; a lost, overwritten, doubled or torn song is a step SongLibrary does
not have. It holds with a working card and any host, and power cycles in between.
With a failing card or a reset it does not, as the configurations below show
one at a time (an entry left by a reset or by a failed removal, half a swap);
what the code keeps even then is AckedIntact, AckedListed and StreamAligned,
checked by `songstore_faults`.

Each of these configurations has one property violated, and documents a
disagreement between the code and a sentence of its own comments. The first
is a run of `PROJECT.json`; the others are to be run by hand, as in
`tlc -config SongStoreOverlap.cfg MCSongStore`:

| configuration | violates | what happens |
|---|---|---|
| `SongStoreUncommitted.cfg` | PlayableCommitted | a reset during an upload: the boot scan takes the provisional entry, which already has its full length, for a song |
| `SongStoreUnflushed.cfg` | AckedIntact | with the card's cache on, a reset after COMMIT's OK loses the header; `next_free_block` rolls back and the next upload goes over the acknowledged song. `emmc_cache_flush` exists and is never called |
| `SongStoreHalfSwap.cfg` | ListedOnce | the first write of a swap lands and is reported failed: one song twice, the other nowhere |
| `SongStoreMixed.cfg` | AckedIntact | SONG_BLOCK, then SONG_MULTIBLOCK: the session opens at `block_start` again |
| `SongStoreNested.cfg` | NothingNested | SONG_REMOVE or a command that reads between two batches: a single-block command in an open session. emmc.c 750: the bus is held for the session "so nothing can interleave clocks mid-stream"; usb.c 470 refuses SONG_BLOCK there for that reason. NoNesting, which the runs check, says that no other handler does so |
| `SongStoreSkipEarly.cfg` | AlwaysWhole | change_song during an upload adopts the provisional entry. PlayerWhole, which the run checks, has this exception |
| `SongStoreOverlap.cfg` | NoOverlap | the removal in upload_abort fails: the dead entry and the next upload share blocks |

That is also why `songstore_host` checks KeepsLibrary and PlayerWhole on a working
card without resets: on a failing card the code does not keep them.

### Fairness

`FairSpec` is `WF_vars(Handler)`. main has the lowest priority, but the feed
blocks whenever the transmit queue is full and the UI thread sleeps 8 ms in every
round, so main gets to run; and each wait of a handler (`usb_read_bytes`, busy
waits, the bus mutex) has a timeout or ends. New commands and the environment
have no fairness.

### Proofs

`SongStoreProofs` proves, for every set of songs, size of card, catalog, word
size, and set of commands and faults, but where an assumption is named:

- `Typing`: `Spec => []TypeOK`. TypeOK is not inductive: that a batch fits the
  upload and the upload fits the card is needed to keep `card.pos` and
  `up.written` in range. The inductive invariant is `TypeOK /\ Bounds`.
- `Durable`: `Spec => []AckedIntact`, that an acknowledged song stays on the card
  block for block. Assumed is `Plain`: a card without a volatile cache and a host
  that does not mix the two block commands; `SongStoreUnflushed.cfg` and
  `SongStoreMixed.cfg` show that neither can be dropped. Failing reads and writes,
  retries, resets and host failures are all in.
- `Aligned`: under `Plain` the session always stands at the block the upload
  counts next.
- `Exclusive`: under `Plain`, NoNesting: BEGIN, COMMIT, SWAP, FORMAT and the abort
  have ended the session before they read or write a single block, and no session
  outlives its upload. SONG_REMOVE and the host's reads are its exception.
- `StaysListed`: under `Plain` an acknowledged song stays in the catalog, whatever
  fails. `SwapSafe` is assumed too: the host does not swap, or nothing fails and
  nobody resets the player, since half a swap has one song in no slot at all
  (`SongStoreHalfSwap.cfg`).
- `Disjoint`, `LoadedWhole`, `Refines`: under `Plain` and `Sound`, which is a card
  that answers every command and a player that is not reset, the entries of a scan
  share no block, the player holds nothing but whole songs and what change_song took
  early (`Spec => []PlayerWhole`), and SongStore
  implements SongLibrary (`Spec => KeepsLibrary`). `SongStoreOverlap.cfg` and
  `SongStoreUncommitted.cfg` show what a failing card and a reset do to it.
  change_song at any time, power cycles, a host that stalls or goes away, and a full card or catalog are in.

The argument: `Good == TypeOK /\ Bounds /\ Inv`. An upload writes only at or
above `next_free_block` (`UploadInv`), every acknowledged song ends at or below
it (`AckedInv`), it never moves down but by a format, and what an upload has
counted is on the card (`UploadInv`), which the recovery loop keeps because the
session stands at the block to be counted (`SessionInv`). BEGIN's overflow test
makes `expected` equal the sum of the two sizes (`BeginInv`, lemma `NoWrap`).
There is one lemma `Type<Action>` and one `Keep<Action>` for every action; lemma
`Frame` says a step that leaves header, data, upload and session alone keeps the
invariant, `BlockWritten` what writing one block above `next_free_block` keeps.

The theorems about the catalog stand on it. `ListInv` is for AckedListed, which
says nothing inside a swap: there the first slot repeats the second and the entry
it had is in the handler's locals (`SwapInv`), and an upload owns its slot, so no
other handler overwrites it (`SlotInv`). `LibInv` says that on a card that works
every visible entry but the one of the running upload (`Pending`) is `Whole`: its
blocks are what the host sent, in front of `next_free_block`. An upload writes
only behind that, so whole entries stay whole, and COMMIT's entry has become so.
`PlayerInv` adds to PlayerWhole that a whole song lies in front of
`next_free_block` and an early one behind it, so that an upload can write over the
second only, and that while DISK_FORMAT empties the catalog, whose header already
says that all is free, the entries still in it are on the card (`Stored`):
change_song may come between two catalog blocks. For the refinement `LibInv` gives what the mapping reads
off the disk (`WholeLibrary`); then there is one lemma for every action, and it
names the step of SongLibrary or shows that the library is unchanged.

### Only model-checked

Answered: liveness; fairness and ENABLED are out of the prover's reach.

## 4. AudioFeed

### Threads and atomicity

`fill_block` runs on the feed thread for every transmit buffer. The UI thread
preempts it anywhere, so one UI handler is one action, and `fill_block` is cut
wherever the UI thread could see or change something between: the steps
`request`, `arm`, `preload`, `read`, `clear`, `dirty`, `serve`, `seam`, `change`,
`refill` of `fp.at`. Statements that touch nothing the UI thread reads or writes
stay together. A round of the UI thread may call several handlers; the feed may
run between them in the model, which is more than the code allows.

main has the lowest priority. A transfer busy-waits and never sleeps, so main
runs only while the feed waits for a buffer (`fp.at = "idle"`) or for the bus
mutex; giving the mutex back lets the feed run on at once, so main never gets far
in its own assignments meanwhile. `LoadStep` is one assignment of
`audio_set_playlist` and `audio_load_song` at a time, and UI and feed may come
between any two. `lvl_setup` is one step: a UI tick in the middle of it could
show one old level, inside the table.

### State

| variable | code |
|---|---|
| `song` | `s_song_count`, `s_cur_song` (from 1), `s_song_block_start` (the entry), `s_song_block_count` |
| `cur` | `s_cur_block` |
| `dec` | `s_pred`, `s_sidx`, as the entry decoded and the block that comes next, `Reset`, or `Noise` after a block out of order |
| `pf`, `loop`, `active`, `startReq`, `cacheOk`, `pfDirty`, `div`, `skip`, `playing` | the statics of these names |
| `lvl` | `s_lvl_present`, `s_lvl_loaded`, `s_lvl_start` (the entry), `s_lvl_blocks` |
| `pool` | `s_audio_buf`: one tag for each 512-byte slot, prefetch first, then levels, the loop cache over both |
| `session` | `emmc_write_multi_active()` |
| `held`, `was` | `play_prev`, `play_was_playing` |
| `fp`, `mp` | where the feed is in `fill_block`, where main is in a reload |

Tags stand for ADPCM data: a decoder that gets block k of the song in state k is in
state k + 1; anything else is noise, because the predictor and the step index
depend on every block before. The arithmetic is in Mixer.

### Actions

`Enter` or `Silence`; `Request`; `Arm`, `Preload`, `PreloadRead`, `ClearDirty`
(a loop start); `DropPrefetch`; then one of `ServeLoop` (a block from the
cache), `Wrap`, `NextSong` with `ChangeSong`, `PlayOn`; then `PlayPrefetched`,
`Refill` or `Tone`. The UI thread: `Press`, `Release`, `ChangeDivider`,
`MoveLoop`, `Skip`. main: `Session` (an upload), `LoadBegins`, `LoadStep`.

Three constants say what an instance contains. `Windows` are the steps before
which the UI thread may come in; `Gestures` are what the user and the host do;
`Faults` are failing reads. The theorems hold for all values of the three. The
runs that check InStep, Momentary and SkipHonoured leave out what the
configurations with a violation show, namely the windows `arm`, `preload`, `read`, `clear`, `serve`, `change`,
the gestures `uncache` and `atEnd`, and failing reads. Where nothing is left
out (`audiofeed_races`, `AudioFeedReload.cfg`), what still holds is checked:
the pool and the levels.

### Runs

| run | instance | checks |
|---|---|---|
| `audiofeed_play` | songs of 6 and 4 blocks and an empty entry, prefetch 2, cache 3, loops of 4 (not cached), 2 and 1; with fairness | InStep, Momentary, LoopHeld, NeverStarved, SkipHonoured, SkipServed |
| `audiofeed_load` | songs of 4 and 2, loops of 3, uploads and reloads at any time | InStep after a reload |
| `audiofeed_races` | songs of 3 and 1, prefetch and level table of one slot, cache 2; every window, failing reads | InPool, LvlSafe |
| `AudioFeedReload.cfg` (by hand) | the same, UI and feed between any two assignments of a reload | InPool, LvlSafe |

6 blocks are three refills of 2, and a cached and an uncached loop both start and
end inside a refill, at one, and at the end of the song; the 4-block song is cut
short by a loop that begins near its end. An empty entry is between the two, so
a skip in either direction passes it. Positions of one block decide
every comparison of `fill_block`; sizes beyond that repeat them.

What the code does against its own comments, each to be run by hand, as in
`tlc -config AudioFeedLongLoop.cfg MCAudioFeed`:

| configuration | violates | what happens |
|---|---|---|
| `AudioFeedStop.cfg` | Momentary, InStep | (with `-continue`) Play is released after the request was taken and before `s_loop_active` is set: the loop outlives the press. Released during the preload, `s_loop_pf_dirty = false` forgets the stop, and the old prefetch indices stand over the loop cache |
| `AudioFeedLongLoop.cfg`, gesture `"uncache"` | InStep | a divider change from a cached loop to one that does not fit: the prefetch path decodes loop bytes |
| the same, gesture `"atEnd"` | InStep | a loop is asked for with the position behind the last block: start 0, decoder state of the end |
| the same with `Lengths <- ShortSongs`, gestures `"loop"`, `"skip"` | InStep | a skip to a song of one block with a loop asked for before it: the request is taken with the position behind its only block |
| `AudioFeedLostSkip.cfg` | SkipHonoured | a skip during `change_song` is cleared with the one being served |
| `AudioFeedPreloadFails.cfg` | InStep | a failed preload over a valid prefetch: half a transfer is decoded, no tone |

### Fairness

`FairSpec` is `WF_vars(Feed)`: the feed has the second highest priority, the UI
thread above it sleeps 8 ms in every round, and the transmit queue keeps
emptying. UI and main have no fairness.

### Proofs

`AudioFeedProofs`, for every playlist, pool, set of divisors, and set of windows,
gestures and faults:

- `FeedTyping`: `Spec => []TypeOK`.
- `PoolSafety`: `Spec => []InPool`; every read and every decoded block lies in its
  part of `s_audio_buf`. What is assumed of the sizes is what the comment at
  audio.c:110 says, that the loop cache fits the pool.
- `LevelSafety`: `Spec => []LvlSafe`.
- `LoopMomentary`: `Spec => []Momentary` when the UI thread does not come in between
  the request and the activation of a loop; `AudioFeedStop.cfg` shows that it
  has to be assumed.
- `StaysInStep`, `LoopPlaysItself`, `AlwaysBlocks`: `Spec => []InStep`, `[]LoopHeld`
  and `[]NeverStarved`. `Undisturbed` is assumed: the UI thread stays out of a loop
  start and of change_song, the gestures `uncache` and `atEnd` do not occur, reads
  do not fail, and no song has exactly one block. Each part but the last is a
  configuration above, and the last is the remark in `AudioFeedLongLoop.cfg`.
  Sizes, songs, divisors, empty entries, skips, pauses, uploads and reloads are free.
- `SkipsHonoured`: `Spec => SkipHonoured` when the UI thread does not come in before
  change_song has read the catalog (`AudioFeedLostSkip.cfg`).

The first three come from one inductive invariant, `Good == TypeOK /\ InPool /\
LevelsInv`. TypeOK alone is not inductive: `cacheOk` is only set after a read of
`loop.len` slots, which InPool bounds. LvlSafe is not either: it says nothing
while the cache is live or the levels are not shown, and a stop would make the
table visible again; `LevelsInv` says that levels count as loaded only while
their slots hold them, and that a preload has given them up before it reads.
`LoopMomentary` uses `HoldInv`: without a press the feed is not about to
activate a loop either. The lemmas are one for each step and group of variables;
`NearestEntry` needs that a non-empty set of naturals has a least member, from
the library's well-foundedness of `<`.

InStep speaks of the decoder, but what it gets comes from the pool, which is
prefetch, levels and loop cache in turn. The inductive invariant, `Following`,
therefore says for every step of fill_block where the position is and that the
decoder is there (`Positioned`), that a request still has a block before the end
when it will be taken (`Requested`), that a loop lies in the song with the
decoder saved at its start (`Looping`), that the cache holds the loop block for
block, and that a loop placed next will fit it too (`Cached`), and that
the prefetch slots hold the blocks at the position unless the cache lies over
them (`Prefetched`). In a reload all that is void until the assignments behind
it are made, in the order of the code (`Reloading`). Each part has one lemma for
each step of the feed and of the UI thread. `SkipTaken`, for SkipHonoured, is that
the skip the feed has read is still the one that is there when it clears it.

Only model-checked: SkipServed (liveness).

## 5. Output

### Threads and atomicity

The UI thread (priority 1) steps the volume and writes the new level to the
output in use; main (priority 10) saves the volume, reads the jack and switches
the output. Both call the codec driver. An I2C transfer sleeps until its
interrupt, so each thread can run while the other waits for the bus, and the UI
thread can also preempt main anywhere; main runs only while the UI thread sleeps
or waits. `UiTurn` and `MainTurn` say so, and the constant `Races` says where of
all that an instance lets the UI thread in: `"flush"` in a save, `"route"` between
two driver calls of a switch, `"bus"` inside one, `"down"` after the last save.
With `Races = {}` a UI round comes between main's steps of the loop, before and
after the read of a header, before the jack is read, and so on.

### State

| variable | code |
|---|---|
| `vol`, `dirty`, `hpOut` | `s_vol_level`, `g_settings_dirty`, `s_hp_out` |
| `saved` | `settings_magic` and `vol_level` of the header on the card |
| `ui`, `mp` | where the threads are, the key held (`volup_prev`, `voldn_prev`), and the writes left of their driver calls |
| `jack` | `hp_raw_prev`, `hp_debounce` |
| `cache` | `s_cs_page`, `s_tas_page` |
| `page`, `regs` | the page register of each chip, and the six registers that mute or set a level |
| `activity` | stopped, playing, or an upload |
| `wedged` | history: a transfer has failed since boot |

A driver call is a sequence of writes. Each write tests the cached page, selects
the page if it has to, notes it, and sends an offset of whatever page the chip has
then (`"test"`, `"note"`, `"data"`), so a write to a wrong page is a write to
another register, as on the chip: 0x2301 and 0x2001 differ in the page only.
After a failed transfer the rest of the call is not tried; nothing is said of the
sound from there to the next boot. Levels stand for attenuations. R48, R64, R65,
the diagnosis reads and the bring-up scripts are left out, the latter up to the
silence they end in.

The jack may read anything at any time: contacts bounce and a plug can move
between any two readings. A header that an upload holds in `g_hdr` cannot take a
saved volume back: COMMIT reads the header again and a save waits for the end of
the upload, so the volume is not in SongStore.

### Runs

`output_play` is the instance with `Races = {}`; what each race breaks is shown by
a configuration of its own below. It has three levels, of which 0 is silence and the default is neither
end: every branch of a step, and a level different from the one before. All
failures are in: the card in either half of a save, a write reported as failed
that landed, a transfer at any point, a reset anywhere. Levels beyond three only
lengthen the walk between the ends; `VolumeSafe` holds for all of them.

What the code does against its own comments, each to be run by hand, as in
`tlc -config OutputSpeaker.cfg MCOutput`:

| configuration | violates | what happens |
|---|---|---|
| `OutputSpeaker.cfg` | SpeakerLevel | `codec_speaker_mute(false)` begins with R46 = 0x00, the loudest, after `codec_speaker_volume` has set the level: after boot or an unplugged jack the speaker is at its loudest until the next key step; main.c 902 wants "loudness ... roughly consistent across the change" |
| `OutputSave.cfg`, race `"flush"` | VolumeKept | a key is pressed and released while main writes the header; `g_settings_dirty = false` forgets it (main.c 470: "only the final level after a gesture matters") |
| `OutputRoute.cfg` | OneOutput | a key step between two calls of a switch unmutes the headphones main has just muted, or the other way (main.c 34: "exactly one is unmuted at a time") |
| `OutputBus.cfg` | HeadphoneLevel | the UI thread selects another page between main's test and its write |
| `OutputSave.cfg`, race `"down"` | VolumeKept | a key is released after the save of `enter_system_off` |

### Proofs

`OutputProofs`, for every number of levels and every set of failures:

- `Typing`: `Spec => []TypeOK`, whatever the interleaving. The work is in the
  queues: every call the driver makes is a sequence of writes to modelled
  registers (`DriverTypes`), and so is what is left of one after a step or a
  failure (`LeftType`).
- `VolumeSafe`: `Spec => []VolumeKept` with `Races = {}`; `OutputSave.cfg` shows that
  it has to be assumed. VolumeKept is not inductive:
  `VolumeInv` adds the release of the round under way (`ui.released`), that the
  level main carries from the read of the header to its write is still the
  volume, and that nothing becomes due on the way down.

- `OneOutputSounds`, `HeadphonesAtLevel`: `Spec => []OneOutput` and
  `[]HeadphoneLevel`, when the UI thread comes in neither between two driver calls of
  a switch nor between the test of a page and its write (`Ordered`);
  `OutputRoute.cfg` and `OutputBus.cfg` show that both have to be assumed. Both
  properties speak of rest, when no write is under way. `SoundInv` says what will be
  heard then: only one thread has writes left (`Turns`), and with the registers
  as they are, the last write to each decides its value (`Ends`, `Heard`). That a
  write goes where it is meant to is `Paged`: a cached page is the chip's, except
  between a select and its note. `RestHeard` leads from there to rest; every
  driver call has a lemma about what its sequence of writes ends in.

## 6. Gates

### Threads and atomicity

A round of the UI thread is atomic for main, which has a lower priority. main
reads function, clears the taint, and decides about the hold in three steps
(`Look`, `Clear`, the hold), between which any number of UI rounds may come. Time
is a `Tick`; a hold of `HoldTicks` is 3 s, one of `SoloTicks` 250 ms. Main's
three steps take far less than a tick, and a press or a release lasts longer than
a loop of main, unless `Starved`: the feed's card reads keep main from running
for up to 40 ms (main.c 270-283), and a command of the host for longer.
`SwitchOff` is the test of the hold and all that follows it (main.c 862-876) in one
step. The few milliseconds in between are not in the model; the code looks at the
taint once, at 862, so a gate that the UI thread sees in them, at the very end of
a 3 s hold, does not stop it.

### State

| variable | code |
|---|---|
| `device` | which of the loops of main() runs, or SYSTEM OFF |
| `fn` | P0.27 |
| `ladder` | `trk_pending`, `trk_pend_cnt`, `trk_stable` |
| `tap` | `trk_held`, `trk_soloed`, `trk_last`, the time since `trk_press_ms` |
| `muted`, `solo`, `gate`, `gesture`, `tainted` | `s_stem_muted`, `s_solo_mask`, `s_gate_mask`, `s_gate_gesture`, `s_fn_hold_tainted` |
| `mp` | where main is, `fn_raw_now`, `fn_raw_prev`, the time since `off_hold_start` (or `hold_start`), an upload, `g_power_off_req` |
| `press`, `gated` | history: of this press of function, its length and whether the UI saw it with a track; whether the tracks held were gated |

The UI rounds are `GateRound`, `HoldRound`, `LiftRound` and `IdleRound`, after the
four branches of main.c 373-396, each with a sample of the ladder. main:
`Look`, `Clear`, then `SwitchOff`, `HoldGrows` or `HoldEnds`, then `Poll`. Power:
`Closed` (SYSTEM OFF), `Wake`, `GateFails`, `Boot`. While the device closes the UI
thread still runs for a moment; nothing of its state survives, so its rounds are
left out. Function held on after the power-on gate counts for a power-off hold
from boot; `press` therefore begins again at boot.

### Runs

`gates_play` has two tracks (one more can be added, dropped, or swapped in one
gesture), a solo of one tick and a hold of two, so that a solo can begin before,
in and after a hold. The gestures `soloFirst` and `fnFirst` and a starved main are
left out there, because each violates a property:

| configuration | violates | what happens |
|---|---|---|
| `GatesSolo.cfg` | AllBack | function is pressed in a solo: the gate branch forgets `trk_held` (main.c 378) but not `s_solo_mask`, and with all buttons up the solo stays until the next one ("solo them until release", main.c 317) |
| `GatesFnFirst.cfg` | GateIsNoTap | function is let go before the track: a new press begins and its end toggles the mute ("no solo/mute toggle for this gesture", main.c 370) |
| `GatesStarved.cfg` | PowerOffMeant | main clears the taint of the press that ended after the UI thread has set it for the next one ("that whole continuous hold is disqualified", main.c 246) |
| the same, without PowerOffMeant | PowerOffWorks | main never sees the release: the taint of a gate stays and a plain hold never switches off |

These are to be run by hand, as in `tlc -config GatesSolo.cfg MCGates`.

### Fairness

`WF_vars(Main)`, `WF_vars(Ui)`: both threads sleep in every round and the feed
waits for the transmit queue, so each gets to run. `SF_vars(Tick)`: time goes on;
strong, because main's three steps, in which the model allows no tick, come
again and again. The fingers, the host and the power have no fairness, so a press
may end, or not.

### Proofs

`GatesProofs`, for every set of tracks and all times:

- `Typing`: `Spec => []TypeOK`.
- `PowerOffSafe`: `Spec => PowerOffMeant` if main is not starved;
  `GatesStarved.cfg` shows that it has to be assumed. PowerOffMeant is a statement
  about single steps; the invariant behind it, `PressKnown`, relates main's copies
  to the press itself: a press the UI thread has used is tainted as long as main
  can still count it, the taint is cleared only behind a real release, and main's
  hold is never longer than the press.
- `PowerOnSafe`: `Spec => PowerOnMeant`.
- `SoloMomentary`, `GateNoTap`: AllBack and GateIsNoTap without the gesture that
  violates them, from `SoloOwned` (a solo belongs to a hold the UI thread still
  follows) and `GateOwned`.

Only model-checked: PowerOffWorks (liveness).

## 7. TxQueue

### State

| variable | code |
|---|---|
| `slab`, `hand`, `queue` | the 48 blocks: free in `s_tx_slab`, held by feed_main, queued on the driver as serial numbers |
| `i2s`, `clock` | the driver: ready, running, in error; whether the codec clocks the bus |
| `phase`, `pc`, `left` | the loop feed_main is in (priming, feeding, recovering), where in it, and what is left to prime |
| `lost` | history: a block was refused and no DROP has worked since |

`Alloc` takes a block and fills it, `WriteQueued` and `WriteRefused` are the two
ends of `i2s_write`, `AllocTimeout` is the wait of 200 ms that ends without a
block, `Drop` and `Start` are the triggers, whose results the code ignores.
`Transmit` is the driver: it sends a block, gives it back to the slab, and is in
error when there is no next one. The driver is the clock slave, and the codec
may stop and start the clock at any time.

### Runs

`txqueue_recover` has four blocks, three of them primed, and three driver calls
that fail without cause, so that a refused write, a failed DROP and a failed
START come together in one recovery. What the driver refuses for a cause (a write
in error, a START without a block) is not limited. Serial numbers are counted
modulo 6, more than there are blocks, so a gap shows.

Conserved and Contiguous speak of every path of feed_main: a block is neither lost
nor freed twice, and what is queued is what the decoder produced, without a gap.
FullRunway is the comment at audio.c 489: no restart on a shallow queue.
KeepsFeeding and Flows are the "NEVER exit the thread" of audio.c 484 and the "no way
back" of 497: the feed always comes back to its loop, and with a clock audio flows
again.

`TxQueueNext.cfg`, to be run by hand, violates RecoversNext: audio.c 514 says of a
refused write "Drop into the recovery path on the next iteration", but DROP has
just freed the whole slab, so the next alloc succeeds at once and the loop feeds
one block after the other into a driver that is not started, until the slab is
empty and the 200 ms have passed. Nothing is lost by it but that time.

### Fairness

`WF_vars(Feed)`: every wait of feed_main but the first priming has a bound, and
only the UI thread is above it. `WF_vars(Transmit)`: a driver with clock and queue
sends. KeepsFeeding and Flows assume of the clock that it settles; the codec is
switched at power on and off only.

### Proofs

`TxQueueProofs`, for every number of blocks from two on and every number of
failures: `TypeCorrect`, `BlocksConserved` (`Spec => []Conserved`) and `StartsDeep`
(`Spec => FullRunway`), all from `Good` (`Invariance`). FullRunway speaks of a step; what it
needs of the state before is that in a priming loop the blocks queued and the
blocks left to queue make a runway, unless a write was refused since the last
DROP that worked. `SentContiguous` is `Spec => []Contiguous`, for every modulus of the
serial numbers: Contiguous says nothing of the next block to be filled, `Linked`
adds that it follows the last one queued unless a refused one lies between, which
is so in the steps `Unbroken` names. Only model-checked: KeepsFeeding and Flows
(liveness).

## 8. UsbFraming

### State

| variable | code |
|---|---|
| `ring` | `g_rx_rb`: bytes, each as the message it belongs to and its place in it |
| `pc`, `cur`, `need`, `left` | where `usb_cdc_poll` is, the header it took, the bytes it waits for, the blocks or bytes still to come |
| `host`, `owed` | the message the host sends and how far it is; messages less answers |
| `seen` | history: bytes taken for a header or for a block that were not, and whether the host had been cut off |

Nothing on the line marks a header; the parser is in step as long as it counts as
the host does. The ring callback comes at any time and drops what does not fit.
A timeout is that the host sends nothing (`Silence`): the waits are of seconds, a
packet takes less than a millisecond.

### Runs

`usbframing_batches`: headers and blocks of two bytes, payloads from none to one
that is too long, batches of one to three blocks, a ring of five bytes: a batch
does not fit it, nor a header with a payload and a block. The card may fail at any
block, and the host may stall inside any message, go on with it later, or die.

- NoPhantom: nothing is taken for a header that was not sent as one, after any
  failed batch, drained payload or timeout. What it cannot exclude is `"cut"`:
  a host that dies inside the five bytes of a header leaves them in the ring, and
  one that goes on with a message the device has given up sends data for a command.
- BatchWhole: a batch answered OK is what the host sent, though the callback
  throws bytes away when the ring is full: the batch then comes up short and times out.
- OneAnswer and Answered: one answer for each message, and for every message.

Left out of that run, and violated in one of its own, to be run by hand (with one of the two faults taken out to see the other):

| configuration | violates | what happens |
|---|---|---|
| `UsbFramingMisused.cfg`, fault `"refuse"` | OneAnswer | a batch that is refused (no upload, too many blocks, no session) is answered at once, and its raw blocks are parsed as commands, each with an answer: usb.h 23, "OK (one ACK for all)". The drain of usb.c 457 is only behind a batch that was begun |
| the same, fault `"hasty"` | Answered | a host that sends its next command right after an ERR loses it to that drain, and waits for ever |

### Fairness

`WF_vars(Poll)`: main polls in every round of its loop, and no wait in it is without
a bound. `WF_vars(Line)`: the host goes on sending what it has begun, unless it
stalls or dies, which is an action of its own.

### Proofs

`UsbFramingProofs`, for every size of header, payload limit, block and ring, and
every set of payloads, counts and faults, but where an assumption is named:

- `TypeCorrect`: `Spec => []TypeOK`, nothing assumed. The ring never overflows
  and no count of the parser goes below zero; a block is only waited for while
  one is due (`Types`).
- `HeadersTrue`, `BatchesWhole`, `AnsweredOnce`: `Spec => []NoPhantom`, `[]BatchWhole`,
  `[]OneAnswer`. Assumed is `Patient`, no `"hasty"` and no `"refuse"`: with either,
  NoPhantom and OneAnswer are violated in the instance of `UsbFramingMisused.cfg`;
  BatchWhole holds there too, but the proof of it needs the same invariant.

`Framed` is that invariant. Bytes have no marks, so it compares two counts: what
the parser has taken of the message plus what is in the ring never exceeds what
was sent, and when they are equal nothing was lost and the ring is the rest of the
message (`UpTo`). A block with a gap is then never complete, because the message
ends before it fills: that is why a batch that lost bytes times out and is not
taken. There is one such statement for every state of the parser (`AtHeader`,
`Between`, `InPayload`, `InDrain`, `InBlocks`, `InQuiet`). A host that was cut off
may leave bytes that cannot make a header (`Astray`); and once one was misread, no
first byte of a message is left to be misread again (`Misled`).

Only model-checked: Answered (liveness).

## 9. EmmcBus

### State

| variable | code |
|---|---|
| `owner`, `depth`, `waiting` | `s_bus_lock`, a recursive mutex |
| `inited`, `cacheOn`, `active`, `tries` | `g_initialized`, `g_cache_enabled`, `g_multi_active`, the attempt of the running read |
| `scratch` | `s_cat_buf`: who filled it, and whether with a good CRC |
| `card` | the state the card is in, whether it caches writes, whether blocks in its cache are not yet in flash |
| `code` | for each thread the calls it has to make, as sequences of their steps |
| `phase` | boot, run, the blinking behind a failed boot, or the wait for SYSTEM OFF |

A call is a sequence of named steps, one for each point at which the other thread
can tell the difference: `disk_write_song` is `lock`, a whole read into the
scratch block, `merge`, a whole write, `unlock`. Where the code calls itself in a
loop, an `Entry` step stands for the call: "scan" reads an entry of
`disk_add_song` and its failure ends the scan, "look" reads one for `change_song`
and its failure does not. The feed thread has the higher priority: main makes a
step only while the feed waits for the mutex or sleeps, and the feed comes
between any two of main's steps. When a step fails, every function on the stack
releases what it has locked: what is left of the call is as many unlocks as the
thread holds the bus (`Held`, `Unwind`), and in `emmc_write_multi_begin` the
flag is taken back first; in a session the lock that belongs to it stays (`Taken`).
The feed makes the calls of `fill_block`. Main makes any
call of disk.c and emmc.c; in a session those of an upload, and also a single
read, a single write or `disk_write_song` (`Unguarded`): DISK_INFO, READ_BLOCK,
CATALOG_READ, WRITE_PROBE, WRITE_STRESS and SONG_REMOVE do not look at
`g_multi_active`, and the recursive lock lets them through. The save of the
settings is not among them: main.c 892 tests for an upload first.

Their CMD17 or CMD24 then meets a card in a stream. It may refuse it (it waits for a
block) or take it (behind the last block CMD23 has declared), and both are in
(`Replies`); the card is assumed to go on with its stream.

### Runs

`emmcbus_shared`: any call of either thread at any time; a command that is not
answered, bad CRCs three times in a row, a boot that fails at any step, a reset
between any two steps. One scanned entry before the wanted one stands for a scan.

- Legal: no command but to a card in the state for it, and by the thread that
  holds the bus. The one exception are main's own unguarded single-block commands
  in its own session; that they occur is `SongStoreNested.cfg`. The feed tests `g_multi_active` and `g_initialized` before it has the
  lock, so this is about what main may do in between: open a session, power down.
- ScratchMine is the comment at disk.c 8, which tells of the bug that was there
  once: the catalog block written back was another one.
- Settled: every path returns the lock as often as it took it, and `g_multi_active`
  agrees with the card between calls. In a session main holds the bus exactly once
  between two calls, also behind an unguarded one that failed.
- PoweredClean: the cache is flushed before the rail is cut.
- FeedServed: a feed that waits for the bus gets it, if sessions end. They do when
  the host commits, fails or goes away (SongStore); a host that keeps an upload
  open keeps the bus.

To be run by hand:

| configuration | violates | what happens |
|---|---|---|
| `EmmcBusMissed.cfg` | Legal | the card takes CMD18 or CMD25 and its answer is missed: no CMD12 is sent, the card stays in its stream and takes no other command until the power is cycled |
| `EmmcBusMissed.cfg` | FeedNotParked | emmc.c 752 says the test of `g_multi_active` "keeps the feed thread from even trying, so it never blocks here for long", and emmc.c 61 "Worst-case wait is one 64-block prefetch (~65 ms)". The lock is taken at 754 and the flag set at 758: a feed that comes in between waits out the whole upload |
| `EmmcBusUnflushed.cfg` | PoweredClean | FLUSH_CACHE fails, or the cache was switched on and the answer misread: nobody looks at the first result, and with the second `g_cache_enabled` is false. Blocks are lost with the rail |

### Fairness

`WF_vars(Feed)`, `WF_vars(Main)`: a thread that may run does. New calls and the
reset have none.

### Proofs

`EmmcBusProofs` proves the five invariants for every `MaxScan`.

| theorem | property | assumed of `Faults` |
|---|---|---|
| `TypeCorrect` | TypeOK | nothing |
| `ScratchIsMine` | ScratchMine | nothing |
| `CommandsAreLegal` | Legal | no answer to CMD18 or CMD25 is missed |
| `CallsSettle` | Settled | the same |
| `PowerDownIsClean` | PoweredClean | the same, the flush works, the switch of the cache is not misread |

No assumption can be dropped: with any one of the three faults alone TLC finds
PoweredClean violated, and with a missed answer Legal and Settled as well. They are
what the two configurations above show.

The calls nest to any depth and a scan has any length, so the invariant does not
list what may be left of a call. Instead a text of steps has an outline
(`Takes`): before each step it says how often the thread holds the bus, whether
the call has tested `g_initialized` and whether `s_cat_buf` is the thread's own,
and `Leads` says what a step needs of that and what it leaves. There is an
outline for each text that main or the feed may begin (`BlockCallTexts`,
`FillTexts`), built from those of its parts. The same outlines serve main's calls
in a session, counted from the one lock the session holds. A thread is `Working` when what is
left of its calls has an outline that fits the state of the lock, the flag and
the scratch block; a step, a failed step and the steps of the other thread keep
it so (`GoesWorking`, `FailsWorking`, `StaysWorking`).

The second part is the priority. Main makes a step only while the feed has no
call or waits, so the feed holds the bus only while main stands still, main never
waits for the bus (`BusInv`), and the feed waits only for main (`FeedInv`). So the
feed thread finds `g_initialized` as it tested it: what main may do between the
test and the lock is open a session, and then the feed waits until that is over;
a power down lowers the flag only when the bus is free and the feed in no call
(`InitedFalls`).

The calls of main that open, run and close a session, power down or boot are
straight lines. `Session`, `Down` and `Booting` write down for each of their steps
in which phase main is, whether in a session, and how often it holds the bus.
Together that is `IndInv`. On it rests `CardInv`: in phase "run" the card
receives a stream exactly while main is in one (`Streaming`), which gives Legal
and Settled. On both rests `CacheInv`: a block that is not in flash is in a cache
that is on, `g_cache_enabled` tells of it, and behind the flush of a power down
there is none. Each of the three was an invariant of a run of TLC, with a scan of
one entry and of two, before it was proved.

### Only model-checked

FeedServed: liveness, and the assumption that sessions end is one about the host.
## 10. Mixer

AudioFeed treats a block as a tag. Mixer is what decode_block computes with it:
the ADPCM step, the layout of four stereo stems in a block, fader gain, gate and mean,
the transmit word; and the level table: how many bytes a song has, how many blocks
that is, which byte a block and a stem show. All are functions of their arguments, so there
is nothing to run; >> is `\div` by a power of two, which rounds down as the arithmetic shift
does. `Modulus` stands for 2^32: where it matters, a theorem assumes no more than that
block numbers are below it.

`MixerProofs`, for all arguments:

- DecoderInRange: any byte leaves the predictor an int16_t and the index in
  0 .. 88. Since `s_sidx` is only ever written by adpcm_step, a saved copy or 0, the cast to
  uint8_t never sees -1.
- DiffNearExact: the sum of shifts is at most 17/8 below (2m + 1)/8 of the step. The same
  is an assumption of MCAudioFeed (`DecoderNearExact`), which TLC evaluates for every code and
  index of the transcribed table.
- EveryNibbleOnce: the indices of decode_block are a bijection on the nibbles of a block.
- NeverClips: the comment at audio.c 297 is right, also for four stems at -32768,
  which it does not count in; the clamp is the safety net it says.
- LevelsFit: `emmc_read_blocks(s_lvl_start, s_lvl_ram, s_lvl_blocks)` at audio.c 421 writes whole
  blocks, and they end inside the array because LVL_MAX_BYTES is a multiple of 512.
- IndexOfStem: past the end of a table the meter holds the last level of its own stem.
  Its argument is a number of samples, not of bytes, because LvlCount is a multiple of 4.
- MetersAreBytes: fader gains never take a meter out of 0 .. 255.

No run of TLC has Mixer in it but for that assumption: that the arithmetic of the
source is what is transcribed rests on these theorems, each of which would fail
with a wrong shift, bound or index, and on reading the two side by side.

They rest on arithmetic alone. The step table is unfolded in one lemma, StepsBounded.


## 11. Not modelled

- Fader ladders, register scripts of codec and PWM, battery and ladder tables:
  data without protocol. A conversion of the ADC holds its mutex from start to
  result; the LED and PWM calls write a register.
- CRC7 and CRC16 and the bit-banged clocks of a command: a command is answered
  or not, a block comes with a good CRC or a bad one.
- `emmc_cache_flush`, which has no caller, and the statistics of the card.
- Of the reading USB commands what they answer; that READ_BLOCK, CATALOG_READ and
  DISK_INFO use the card, in a session too, is in SongStore and EmmcBus. PING,
  EXTCSD_DUMP, BATTERY and the diagnosis commands do not use it.
- The bench commands WRITE_PROBE and WRITE_STRESS write over songs on purpose; in
  EmmcBus they are single reads and writes, in SongStore they are not sent.
- The animations of boot and upload and the error blinking of main.
- The watchdog as a timer: that every long wait feeds it is a matter of
  milliseconds; that it may fire anywhere is the reset of SongStore, EmmcBus and
  Output.
