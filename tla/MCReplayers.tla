---------------------------- MODULE MCReplayers ----------------------------
EXTENDS MCMidiSongs

CONSTANT Chosen   \* the replayers of a run

N(v) == [kind |-> "note", voice |-> v]
O(v) == [kind |-> "off", voice |-> v]
X(k, a) == [kind |-> k, arg |-> a, voice |-> 1]

HypSongs == {[speed |-> s, rows |-> r] : s \in {0, 1, 3},
             r \in {<<<<N(1)>>>>, <<<<N(1), N(2)>>, <<O(1)>>>>}}

PsiNote(d, r) == [delay |-> d, rest |-> r]
PsiSongs ==
  {[speed |-> 2, seqs |-> <<[events |-> a, loop |-> 1], [events |-> b, loop |-> 2]>>] :
     a \in {<<PsiNote(1, FALSE)>>, <<PsiNote(2, FALSE), PsiNote(Unset, TRUE), PsiNote(1, FALSE)>>},
     b \in {<<PsiNote(Unset, TRUE), PsiNote(3, FALSE)>>}}

RowsOf(S) == {<<a, b>> : a \in S, b \in S}
FlashRow == {<<>>, <<N(1), X("speed", 0)>>, <<X("break", 0), O(1)>>, <<X("slide", 0), X("speed", 2)>>}
FlashSongs == {[speed |-> 1, orders |-> o, patterns |-> <<r, <<<<N(2)>>, <<>>>>>>] :
                o \in {<<1>>, <<1, 2>>, <<1, 2, 1>>}, r \in RowsOf(FlashRow)}

RatRow == {<<N(1)>>, <<O(1), X("speed", 2)>>, <<X("break", 0)>>,
           <<X("jump", 0)>>, <<X("jump", 1), X("break", 0)>>, <<X("jump", 9)>>}
RatSongs == {[speed |-> 1, start |-> s, end |-> 3, loop |-> 1, orders |-> <<1, 9, 2>>,
              patterns |-> <<r, <<<<N(2)>>, <<>>>>>>] : s \in {0, 1}, r \in RowsOf(RatRow)}

HybNone == [kind |-> "none", voice |-> 0]
HybridTracks == {<<a, b>> : a \in {HybNone, N(0), X("slide", 1), X("speed", 2), X("break", 0), X("jump", 1)},
                            b \in {X("jump", 0), X("jump", 1)}}
\* Jumps in the last voice and, for the voices after it to be taken along, in
\* the first.  A song ends with a jump back: nothing else ends it.
HybridSongs == {[voices |-> 1..2, orders |-> o, tracks |-> <<t, <<u, u>>, <<HybNone, X("jump", 0)>>>>] :
     t \in HybridTracks, u \in {HybNone, N(0)},
     o \in {<<<<2, 1>>, <<2, 1>>, <<2, 3>>>>, <<<<1, 2>>, <<2, 1>>, <<2, 3>>>>}}

B(c, a, d) == [cmd |-> c, arg |-> a, delay |-> d]
BmfEv == {B("note", 0, 1), B("off", 0, 0), B("mark", 1, 0), B("loop", 0, 0), B("speed", 2, 1)}
BmfSongs == {[speed |-> 1, streams |-> <<<<x, y, z, B("end", 0, 0)>>, <<B("note", 0, 2), B("end", 0, 0)>>>>] :
     x \in BmfEv, y \in BmfEv, z \in BmfEv}

\* Patterns of two rows: every pair of these rows, then a plain pattern.
Plain == <<<<N(2)>>, <<>>>>
Two(S) == {[i \in 0..1 |-> IF i = 0 THEN r ELSE Plain] : r \in RowsOf(S)}

HscRow3 == {<<>>, <<N(1), N(3)>>, <<X("inst", 0), X("speed", 0)>>, <<X("slide", 0), [X("pause", 0) EXCEPT !.voice = 3]>>,
            <<X("break", 0), X("mode6", 1), N(3)>>, <<X("jump", 1), X("fadein", 0)>>}
HscSong(o, q) == [voices |-> {1, 3}, drums |-> {3}, orders |-> o, patterns |-> q]
HscSongs ==
  {HscSong(<<0, 255, 0>>, q) : q \in {q \in Two(HscRow3) : q[0][1] # <<>>}}
  \union {HscSong(o, q) : o \in {<<1, 0, 128>>, <<60, 0, 129>>, <<255, 1, 1>>},
                         q \in {q \in Two(HscRow3) : q[0][2] = <<>>}}

S3mRowSet == {<<>>, <<N(1)>>, <<O(1), X("speed", 1)>>, <<X("jump", 0)>>, <<X("jump", 1), X("break", 1)>>,
              <<X("break", 1)>>, <<X("start", 0), X("delay", 1)>>, <<X("loop", 2)>>}
S3mLoop == <<X("loop", 2)>>
S3mTunes == {[speed |-> 2, orders |-> o, patterns |-> q] :
              o \in {<<0, 1, 255>>, <<1, 0, 254, 1>>, <<9, 255>>}, q \in Two(S3mRowSet)}

\* Two loops of one pattern would share their count, and never end.
S3mSongs == {t \in S3mTunes : t.patterns[0] # <<S3mLoop, S3mLoop>>}
FmkRowSet == {<<>>, <<N(1), X("cut", 0)>>, <<X("speed", 1), N(3)>>, <<X("jump", 1), N(1)>>, <<X("break", 1), O(2)>>}
FmkSong(r) == [speed |-> 2, rhythm |-> {3}, orders |-> <<1, 2>>, patterns |-> <<r, Plain>>]
FmkSongs == {FmkSong(r) : r \in RowsOf(FmkRowSet)}

-----------------------------------------------------------------------------
(* AdLib Tracker 2: ReplayA2m.  Every song leaves room in its order list   *)
(* for the marker that ends it.                                            *)
A2mNone == [k |-> "none", arg |-> 0]
E(k, a) == [k |-> k, arg |-> a]
Cell(m, i, e, f) == [note |-> m, ins |-> i, eff |-> <<e, f>>]
A2mEmpty == Cell(0, 0, A2mNone, A2mNone)
Line(c, d) == [x \in {0, 1, 16} |-> IF x = 0 THEN c ELSE IF x = 1 THEN d ELSE A2mEmpty]
OnTrack16(e) == [x \in {0, 1, 16} |-> IF x = 16 THEN Cell(0, 0, e, A2mNone) ELSE A2mEmpty]

\* The lines that the first pattern begins and goes on with.
A2mFirstLines ==
  {Line(Cell(40, 1, E("loop", 0), A2mNone), Cell(50, 2, E("retrig", 1), E("delayFrames", 2))),
   Line(Cell(40, 2, E("keyoffLoop", 1), E("loopRec", 0)), Cell(41, 3, E("noteDelay", 1), A2mNone)),
   Line(Cell(0, 3, E("speed", 1), A2mNone), Cell(255, 0, E("delayRows", 2), E("tempo", 9)))}
A2mLaterLines ==
  {Line(Cell(44, 0, E("porta", 3), E("portaFK", 1)), Cell(255, 2, E("loop", 0), E("noteCut", 1))),
   Line(Cell(255, 0, E("loop", 1), E("retrig", 2)), Cell(42, 2, E("porta", 0), E("speed", 2))),
   Line(Cell(0, 0, E("loopRec", 1), A2mNone), Cell(42, 1, E("release", 0), E("noRestart", 0))),
   Line(Cell(42, 1, E("porta", 5), A2mNone), Cell(0, 0, E("jump", 1), A2mNone)),
   Line(Cell(0, 0, E("break", 1), E("tempo", 0)), Cell(44, 4, A2mNone, A2mNone)),
   OnTrack16(E("jump", 0)), OnTrack16(E("break", 0))}
A2mLast == Line(Cell(30, 1, A2mNone, A2mNone), Cell(0, 0, A2mNone, A2mNone))

A2mOf(length, loop, count, keyoff, cells) ==
  [length |-> length, loop |-> loop, count |-> count, keyoff |-> keyoff, cells |-> cells]
A2mMacroOf(d, r) == [duration |-> d, retrig |-> r]
A2mInsts ==
  1 :> [empty |-> FALSE, quiet |-> FALSE, macro |-> A2mOf(2, 1, 2, 0, <<A2mMacroOf(2, TRUE), A2mMacroOf(1, FALSE)>>)] @@
  2 :> [empty |-> FALSE, quiet |-> TRUE, macro |-> A2mOf(3, 0, 0, 2, <<A2mMacroOf(1, FALSE), A2mMacroOf(0, FALSE), A2mMacroOf(1, TRUE)>>)] @@
  3 :> [empty |-> TRUE, quiet |-> TRUE, macro |-> Unset]

A2mSong(o, l, s, pairs) ==
  [orders |-> o, patterns |-> (0 :> l @@ 1 :> [i \in 0..1 |-> A2mLast]), lines |-> 2,
   tracks |-> {0, 1, 16}, speed |-> s, tempo |-> 50, speedup |-> 1, speedUpdate |-> s = 2,
   fourOp |-> pairs, locks |-> FALSE, insts |-> A2mInsts]
A2mSongs ==
  {A2mSong(o, [i \in 0..1 |-> IF i = 0 THEN a ELSE b], s, IF s = 1 THEN {} ELSE {0}) :
     o \in {<<1, 0>>, <<129, 0, 128>>}, a \in A2mFirstLines, b \in A2mLaterLines, s \in {1, 2}}
  \union {[A2mSong(<<0, 129>>, [i \in 0..1 |-> A2mLast], 1, {}) EXCEPT !.locks = TRUE, !.speedup = 2]}

-----------------------------------------------------------------------------
AllSongs == [hyp |-> HypSongs, psi |-> PsiSongs, flash |-> FlashSongs, rat |-> RatSongs,
             hybrid |-> HybridSongs, bmf |-> BmfSongs, hsc |-> HscSongs, s3m |-> S3mSongs,
             fmk |-> FmkSongs]
\* PALLADIX goes on after the end that it reports, and so do Westwood's songs.
MCOverrun == [f \in Chosen |-> IF f \in {"plx", "adl"} THEN 0 ELSE 2]
MCKept == [f \in Chosen |-> Leaves(f)]
MCSongs == [f \in Chosen |-> (AllSongs @@ StreamSongs @@ VoiceSongs @@ DriverSongs @@ MidiSongs @@ ComposerSongs @@ GamesSongs @@ [xmi |-> XmiSongs, a2m |-> A2mSongs])[f]]

\* A RAD tune whose tempo command the next play starts with.
SpeedSongs == [f \in Chosen |-> RadSpeed]
============================================================================
