-------------------------------- MODULE Mixer --------------------------------
(***************************************************************************)
(* The arithmetic of the audio feed (audio.c): one step of the IMA-ADPCM   *)
(* decoder, the mix of the four stems into a transmit word, and the table  *)
(* of baked levels behind the meters.  These are functions of their        *)
(* arguments; when they are called, and on which block, is AudioFeed's     *)
(* subject.  >> is \div by a power of two: both round down.                *)
(***************************************************************************)
EXTENDS Integers, Sequences

\* The values of a uint32_t.
CONSTANT Modulus

Within(x, low, high) == x \in Int /\ low <= x /\ x <= high
IsInt16(x) == Within(x, -32768, 32767)

Clamp(x, low, high) == IF x < low THEN low ELSE IF x > high THEN high ELSE x

(***************************************************************************)
(* The decoder: s_pred and s_sidx of one channel.                          *)
(***************************************************************************)

StepTable ==
  <<7, 8, 9, 10, 11, 12, 13, 14, 16, 17, 19, 21, 23, 25, 28,
    31, 34, 37, 41, 45, 50, 55, 60, 66, 73, 80, 88, 97, 107, 118,
    130, 143, 157, 173, 190, 209, 230, 253, 279, 307, 337, 371, 408,
    449, 494, 544, 598, 658, 724, 796, 876, 963, 1060, 1166, 1282,
    1411, 1552, 1707, 1878, 2066, 2272, 2499, 2749, 3024, 3327, 3660,
    4026, 4428, 4871, 5358, 5894, 6484, 7132, 7845, 8630, 9493, 10442,
    11487, 12635, 13899, 15289, 16818, 18500, 20350, 22385, 24623,
    27086, 29794, 32767>>

\* s_index_table; its two halves are equal.
IndexStep(nibble) ==
  LET m == nibble % 8 IN IF m < 4 THEN -1 ELSE 2 * (m - 3)

\* Bit b of the nibble: 1, 2, 4 or 8.
Bit(nibble, b) == (nibble \div b) % 2

Magnitude(nibble, step) ==
  step \div 8 + Bit(nibble, 4) * step + Bit(nibble, 2) * (step \div 2)
              + Bit(nibble, 1) * (step \div 4)
Diff(nibble, step) ==
  IF Bit(nibble, 8) = 1 THEN -Magnitude(nibble, step) ELSE Magnitude(nibble, step)

Predicted(pred, nibble, index) ==
  Clamp(pred + Diff(nibble, StepTable[index + 1]), -32768, 32767)
NextIndex(nibble, index) == Clamp(index + IndexStep(nibble), 0, 88)

(***************************************************************************)
(* The layout of a block: 128 bytes for each stem, 64 for each channel,    *)
(* two frames in a byte, the low nibble first.                             *)
(***************************************************************************)

Stems == 0 .. 3
Channels == 0 .. 1
Frames == 0 .. 127

ByteOf(stem, ch, frame) == stem * 128 + ch * 64 + frame \div 2
Nibble(byte, frame) == IF frame % 2 = 1 THEN byte \div 16 ELSE byte % 16

(***************************************************************************)
(* The mix of one frame of one channel: the fader gain of each stem, 256   *)
(* for unity, and 0 in the closed half of the gate.                        *)
(***************************************************************************)

StemGain(fader) == IF fader > 256 THEN 256 ELSE fader

GateCycle == 47
GateOpen(block) == block % GateCycle < GateCycle \div 2
Gated(gain, inGate, block) == IF inGate /\ ~GateOpen(block) THEN 0 ELSE gain

Scaled(sample, gain) == (sample * gain) \div 256
Mean(a, b, c, d) == (a + b + c + d) \div 4
Mixed(a, b, c, d) == Clamp(Mean(a, b, c, d), -32768, 32767)

\* A 16-bit sample as a right-aligned 24-bit transmit word.
Word24(sample) == sample * 256

(***************************************************************************)
(* The baked levels: four bytes, one for each stem, for 16 audio blocks.   *)
(***************************************************************************)

LvlDecim == 16
LvlStems == 4
LvlMaxBytes == 24576

\* lvl_setup.
LvlCount(blocks) ==
  LET bytes == ((((blocks + LvlDecim - 1) % Modulus) \div LvlDecim) * LvlStems) % Modulus
  IN  IF bytes > LvlMaxBytes THEN LvlMaxBytes ELSE bytes
LvlBlocks(blocks) == (LvlCount(blocks) + 511) \div 512

\* lvl_index_at: past the end, the last level of the same stem.
LvlIndex(block, stem, count) ==
  LET index == ((block \div LvlDecim) * LvlStems + stem) % Modulus
      last == count - LvlStems + stem
  IN  IF index > last THEN last ELSE index

\* audio_stem_level_at, of a level byte; audio_vu_level_at, of four of them.
StemLevel(byte, gain) == (byte * gain) \div 256
VuLevel(a, b, c, d) ==
  LET sum == (a + b + c + d) \div 4 IN IF sum > 255 THEN 255 ELSE sum

\* ... and of the peak of the last buffers, where there are no levels.
Peak(sample) == IF sample < 0 THEN -sample ELSE sample
PeakLevel(peak) == Clamp(peak \div 128, 0, 255)

(***************************************************************************)
(* References.                                                             *)
(***************************************************************************)

\* IMA-ADPCM in eighths, before any shift drops a bit: (2m + 1) / 8 of the step.
ExactEighths(nibble, step) == (2 * (nibble % 8) + 1) * step

\* Every code at every index is within 17/8 of it, on its side of zero.
NearExact ==
  \A nibble \in 0 .. 15, index \in 0 .. 88 :
    LET step == StepTable[index + 1]
        diff == IF nibble < 8 THEN Diff(nibble, step) ELSE -Diff(nibble, step)
    IN  ExactEighths(nibble, step) - 8 * diff \in 0 .. 17
=============================================================================
