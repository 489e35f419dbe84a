----------------------------- MODULE MixerProofs -----------------------------
(***************************************************************************)
(* What the arithmetic of audio.c guarantees for all of its arguments: no  *)
(* index leaves its table, no sum its type, and the mix is never clipped.  *)
(***************************************************************************)
EXTENDS Mixer, TLAPS

(***************************************************************************)
(* The decoder.                                                            *)
(***************************************************************************)

LEMMA StepsBounded ==
  ASSUME NEW i \in 0 .. 88
  PROVE  Within(StepTable[i + 1], 7, 32767)
BY DEF StepTable, Within

LEMMA BitsAreBits ==
  ASSUME NEW nibble \in 0 .. 15, NEW b \in {1, 2, 4, 8}
  PROVE  Bit(nibble, b) \in 0 .. 1
BY DEF Bit

LEMMA NibbleBits ==
  ASSUME NEW nibble \in 0 .. 15
  PROVE  nibble % 8 = 4 * Bit(nibble, 4) + 2 * Bit(nibble, 2) + Bit(nibble, 1)
BY DEF Bit

\* The shifts of adpcm_step (audio.c:242-246) lose less than 17/8 of what the
\* code stands for, always towards the old value and for every step size.
THEOREM DiffNearExact ==
  ASSUME NEW nibble \in 0 .. 15, NEW step \in Nat
  PROVE  /\ Magnitude(nibble, step) \in Nat
         /\ Within(ExactEighths(nibble, step) - 8 * Magnitude(nibble, step), 0, 17)
<1> DEFINE e == step % 8
           h == step % 2
           q == step % 4
           b4 == Bit(nibble, 4)
           b2 == Bit(nibble, 2)
           b1 == Bit(nibble, 1)
<1>1. /\ b4 \in 0 .. 1 /\ b2 \in 0 .. 1 /\ b1 \in 0 .. 1
      /\ nibble % 8 = 4 * b4 + 2 * b2 + b1
  BY BitsAreBits, NibbleBits
<1>2. /\ 8 * (step \div 8) = step - e /\ Within(e, 0, 7)
      /\ 2 * (step \div 2) = step - h /\ Within(h, 0, 1)
      /\ 4 * (step \div 4) = step - q /\ Within(q, 0, 3)
  BY DEF Within
<1>3. /\ step \div 8 \in Nat /\ step \div 2 \in Nat /\ step \div 4 \in Nat
      /\ e \in Nat /\ h \in Nat /\ q \in Nat
  BY DEF Within
<1>4. /\ ExactEighths(nibble, step) = (8 * b4 + 4 * b2 + 2 * b1 + 1) * step
      /\ Magnitude(nibble, step)
           = step \div 8 + b4 * step + b2 * (step \div 2) + b1 * (step \div 4)
  BY <1>1 DEF ExactEighths, Magnitude
<1> HIDE DEF e, h, q, b4, b2, b1
<1>5. (b4 = 0 \/ b4 = 1) /\ (b2 = 0 \/ b2 = 1) /\ (b1 = 0 \/ b1 = 1)
  BY <1>1
<1> QED
  BY <1>2, <1>3, <1>4, <1>5 DEF Within

\* Whatever the codes, the predictor stays an int16_t and the index inside the
\* step table (audio.c:241, 248-254): corrupt audio is noise, never a read past
\* the table.
THEOREM DecoderInRange ==
  ASSUME NEW pred, IsInt16(pred), NEW index \in 0 .. 88, NEW nibble \in 0 .. 15
  PROVE  /\ IsInt16(Predicted(pred, nibble, index))
         /\ NextIndex(nibble, index) \in 0 .. 88
<1> DEFINE step == StepTable[index + 1]
<1>1. step \in Nat
  BY StepsBounded DEF Within
<1> HIDE DEF step
<1>2. Magnitude(nibble, step) \in Nat
  BY <1>1, DiffNearExact
<1>3. Diff(nibble, step) \in Int
  BY <1>2 DEF Diff
<1>4. IsInt16(Predicted(pred, nibble, index))
  BY <1>3 DEF Predicted, Clamp, IsInt16, Within, step
<1>5. IndexStep(nibble) \in Int
  BY DEF IndexStep
<1>6. NextIndex(nibble, index) \in 0 .. 88
  BY <1>5 DEF NextIndex, Clamp
<1> QED
  BY <1>4, <1>6

\* decode_block (audio.c:279-288) reads each of the 1024 nibbles of a block
\* exactly once: all inside the block, no two reads of the same half byte.
THEOREM EveryNibbleOnce ==
  ASSUME NEW s \in Stems, NEW c \in Channels, NEW f \in Frames,
         NEW t \in Stems, NEW d \in Channels, NEW g \in Frames
  PROVE  /\ Within(ByteOf(s, c, f), 0, 511)
         /\ (ByteOf(s, c, f) = ByteOf(t, d, g) /\ f % 2 = g % 2)
               => s = t /\ c = d /\ f = g
<1> DEFINE m == f \div 2
           n == g \div 2
<1>1. /\ s \in Int /\ 0 <= s /\ s <= 3 /\ t \in Int /\ 0 <= t /\ t <= 3
      /\ c \in Int /\ 0 <= c /\ c <= 1 /\ d \in Int /\ 0 <= d /\ d <= 1
      /\ f \in Int /\ 0 <= f /\ f <= 127 /\ g \in Int /\ 0 <= g /\ g <= 127
  BY DEF Stems, Channels, Frames
<1>2. /\ m \in Int /\ 0 <= m /\ m <= 63 /\ n \in Int /\ 0 <= n /\ n <= 63
      /\ (m = n /\ f % 2 = g % 2) => f = g
  BY <1>1
<1>3. ByteOf(s, c, f) = s * 128 + c * 64 + m /\ ByteOf(t, d, g) = t * 128 + d * 64 + n
  BY DEF ByteOf
<1> HIDE DEF m, n
<1>4. Within(ByteOf(s, c, f), 0, 511)
  BY <1>1, <1>2, <1>3 DEF Within
<1>5. ByteOf(s, c, f) = ByteOf(t, d, g) => s = t /\ c = d /\ m = n
  BY <1>1, <1>2, <1>3
<1> QED
  BY <1>2, <1>4, <1>5

(***************************************************************************)
(* The mix.                                                                *)
(***************************************************************************)

LEMMA ScaledInRange ==
  ASSUME NEW sample, IsInt16(sample), NEW gain \in 0 .. 256
  PROVE  IsInt16(Scaled(sample, gain))
<1>1. /\ sample \in Int /\ -32768 <= sample /\ sample <= 32767
      /\ gain \in Int /\ 0 <= gain /\ gain <= 256
  BY DEF IsInt16, Within
<1> DEFINE p == sample * gain
<1>2. p \in Int /\ -32768 * 256 <= p /\ p <= 32767 * 256
  BY <1>1
<1> HIDE DEF p
<1>3. IsInt16(p \div 256)
  BY <1>2 DEF IsInt16, Within
<1> QED
  BY <1>3 DEF p, Scaled

LEMMA GainsBounded ==
  ASSUME NEW fader \in Nat, NEW inGate \in BOOLEAN, NEW block \in Nat
  PROVE  Gated(StemGain(fader), inGate, block) \in 0 .. 256
BY DEF Gated, StemGain

\* audio.c:298 says of the mix that it "NEVER clips": the mean of four stems at
\* any fader positions is an int16_t, so the clamp below it changes nothing, and
\* the transmit word fits the 24 bits of its slot.
THEOREM NeverClips ==
  ASSUME NEW a, NEW b, NEW c, NEW d,
         IsInt16(a), IsInt16(b), IsInt16(c), IsInt16(d),
         NEW i \in 0 .. 256, NEW j \in 0 .. 256, NEW k \in 0 .. 256, NEW l \in 0 .. 256
  PROVE  LET w == Scaled(a, i)  x == Scaled(b, j)  y == Scaled(c, k)  z == Scaled(d, l)
         IN  /\ Mixed(w, x, y, z) = Mean(w, x, y, z)
             /\ Within(Word24(Mixed(w, x, y, z)), -8388608, 8388607)
<1> DEFINE w == Scaled(a, i)
           x == Scaled(b, j)
           y == Scaled(c, k)
           z == Scaled(d, l)
<1>1. IsInt16(w) /\ IsInt16(x) /\ IsInt16(y) /\ IsInt16(z)
  BY ScaledInRange
<1> HIDE DEF w, x, y, z
<1>2. IsInt16(Mean(w, x, y, z))
  BY <1>1 DEF Mean, IsInt16, Within
<1>3. Mixed(w, x, y, z) = Mean(w, x, y, z)
  BY <1>2 DEF Mixed, Clamp, IsInt16, Within
<1>4. Within(Word24(Mixed(w, x, y, z)), -8388608, 8388607)
  BY <1>2, <1>3 DEF Word24, IsInt16, Within
<1> QED
  BY <1>3, <1>4 DEF w, x, y, z

(***************************************************************************)
(* The levels.                                                             *)
(***************************************************************************)

\* The level table of any song, read as whole blocks (audio.c:421), ends inside
\* s_lvl_ram.
THEOREM LevelsFit ==
  ASSUME NEW blocks \in Nat, Modulus \in Nat \ {0}
  PROVE  Within(LvlCount(blocks), 0, LvlMaxBytes) /\ LvlBlocks(blocks) * 512 <= LvlMaxBytes
<1> DEFINE samples == ((blocks + LvlDecim - 1) % Modulus) \div LvlDecim
           bytes == (samples * LvlStems) % Modulus
<1>1. (blocks + LvlDecim - 1) % Modulus \in Nat
  BY DEF LvlDecim
<1>2. samples \in Nat
  BY <1>1 DEF LvlDecim
<1>3. bytes \in Nat
  BY <1>2 DEF LvlStems
<1> HIDE DEF bytes
<1>4. Within(LvlCount(blocks), 0, LvlMaxBytes)
  BY <1>3 DEF LvlCount, LvlMaxBytes, bytes, Within
<1>5. LvlBlocks(blocks) * 512 <= LvlMaxBytes
  BY <1>4 DEF LvlBlocks, LvlMaxBytes, Within
<1> QED
  BY <1>4, <1>5

\* lvl_index_at (audio.c:655-658) answers with a valid byte, and one of the stem
\* it was asked for, for blocks past the end of the song and for songs whose
\* table was cut at LVL_MAX_BYTES too.
THEOREM IndexOfStem ==
  ASSUME NEW block \in Nat, NEW stem \in Stems, NEW samples \in Nat \ {0},
         Modulus \in Nat, Modulus > 16, block < Modulus
  PROVE  LET index == LvlIndex(block, stem, samples * LvlStems)
         IN  index \in 0 .. (samples * LvlStems - 1) /\ index % LvlStems = stem
<1> DEFINE n == block \div LvlDecim
           index == n * LvlStems + stem
<1>1. n \in Nat /\ 16 * n <= block
  BY DEF LvlDecim
<1>2. stem \in Nat /\ stem <= 3
  BY DEF Stems
<1> HIDE DEF n
<1>3. index \in Nat /\ index < Modulus
  BY <1>1, <1>2 DEF LvlStems
<1>4. index % Modulus = index
  BY <1>3
<1>5. LvlIndex(block, stem, samples * LvlStems)
        = IF index > samples * LvlStems - LvlStems + stem
          THEN samples * LvlStems - LvlStems + stem ELSE index
  BY <1>4 DEF LvlIndex, n
<1> QED
  BY <1>1, <1>2, <1>5 DEF LvlStems

\* The meters are bytes (audio.c:668, 679-680, 686-687) whatever the faders do;
\* the sum of the four levels never needs its clamp.
THEOREM MetersAreBytes ==
  ASSUME NEW byte \in 0 .. 255, NEW gain \in 0 .. 256,
         NEW a \in 0 .. 255, NEW b \in 0 .. 255, NEW c \in 0 .. 255, NEW d \in 0 .. 255,
         NEW sample, IsInt16(sample)
  PROVE  /\ StemLevel(byte, gain) \in 0 .. 255
         /\ VuLevel(a, b, c, d) = (a + b + c + d) \div 4
         /\ VuLevel(a, b, c, d) \in 0 .. 255
         /\ PeakLevel(Peak(sample)) \in 0 .. 255
<1> DEFINE p == byte * gain
<1>1. p \in Nat /\ p <= 255 * 256
  <2>1. /\ byte \in Int /\ 0 <= byte /\ byte <= 255
        /\ gain \in Int /\ 0 <= gain /\ gain <= 256
    OBVIOUS
  <2> QED
    BY <2>1
<1> HIDE DEF p
<1>2. p \div 256 \in 0 .. 255
  BY <1>1
<1>3. StemLevel(byte, gain) \in 0 .. 255
  BY <1>2 DEF StemLevel, p
<1>4. PeakLevel(Peak(sample)) \in 0 .. 255
  BY DEF PeakLevel, Peak, Clamp, IsInt16, Within
<1> QED
  BY <1>3, <1>4 DEF VuLevel
=============================================================================
