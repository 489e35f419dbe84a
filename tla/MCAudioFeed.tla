---------------------------- MODULE MCAudioFeed ----------------------------
(* Small instances of AudioFeed for TLC; each cfg picks the windows, the    *)
(* gestures and the faults of its question.                                 *)
EXTENDS AudioFeed

\* A song longer than the loop cache, an entry with nothing to play, a song
\* shorter than the cache.
TwoSongs == <<6, 0, 4>>
FewBlocks == <<4, 0, 2>>
ShortSongs == <<3, 1>>

\* Loops of 4 blocks, longer than the cache, of 2 and of 1; one length only.
LoopDivisors == <<1, 2, 4>>
OneDivisor == <<1>>

\* The decoder of Mixer against the reference, for every code and index.
Arithmetic == INSTANCE Mixer WITH Modulus <- 65536
ASSUME DecoderNearExact == Arithmetic!NearExact
=============================================================================
