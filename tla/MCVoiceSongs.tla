--------------------------- MODULE MCVoiceSongs ----------------------------
(***************************************************************************)
(* Small songs for the replayers of ReplayVoices and for those that        *)
(* interpret programs: ReplayAdl.  Loops that take no time are left out,   *)
(* and orders without a pattern that can be played.                        *)
(***************************************************************************)
EXTENDS MCStreamSongs

W(k, a) == [k |-> k, arg |-> a]

D00Word(k, c) == [k |-> k, cnt |-> c]
D00Track(o, s) == [order |-> o, speed |-> s]
D00Seqs == {<<D00Word("effect", 0), D00Word("note", 1)>>,
            <<D00Word("duration", 1), D00Word("cut", 1), D00Word("rest", 0)>>,
            <<D00Word("hold", 0), D00Word("tie", 1)>>}
D00Orders == {<<W("seq", 1), W("end", 0)>>,
              <<W("transpose", 0), W("seq", 1), W("seq", 2), W("jump", 0)>>,
              <<W("seq", 2), W("speed", 2), W("seq", 9)>>,
              <<W("jump", 1), W("seq", 2), W("transpose", 0)>>}
D00Song(ver, s, a, o) ==
  [version |-> ver, sequences |-> <<a, <<D00Word("note", 0)>>>>,
   subsongs |-> <<<<D00Track(o, s), D00Track(<<W("seq", 2), W("end", 0)>>, s)>>,
                  <<D00Track(o, s), D00Track(<<>>, 0)>>>>]
D00Songs ==
  {D00Song(ver, 2 - ver, a, o) : ver \in {0, 2}, a \in D00Seqs, o \in D00Orders} \union
  {D00Song(4, 100, a, o) : a \in D00Seqs, o \in D00Orders}

LdsSong(a, b) == [tempo |-> 1, chandelay |-> <<0, 2>>,
                  positions |-> <<<<a, <<W("wait", 0), W("note", 1)>>>>,
                                  <<<<W("note", 0)>>, b>>>>]
LdsSongs ==
  {LdsSong(<<W("glide", 0), W("note", 2), x>>, <<y, z>>) :
     x \in {W("keyoff", 0), W("wait", 1), W("break", 0)},
     y \in {W("glide", 0), W("note", 1)}, z \in {W("jump", 0), W("stop", 0)}}

PlxWord(f, a, s) == [flags |-> f, arg |-> a, skip |-> s]
PlxSongs ==
  {[speed |-> 2, streams |-> <<<<x, y>>, <<PlxWord({"on"}, 0, 2)>>>>] :
     x \in {PlxWord({"on"}, 0, 1), PlxWord({}, 0, 0)},
     y \in {PlxWord({"off"}, 0, 2), PlxWord({"off", "on"}, 0, 3)}}

SopEv(k, a, t) == [k |-> k, arg |-> a, ticks |-> t]
SopSongs ==
  {[tempo |-> 120, tracks |-> <<<<x, y>>, <<SopEv("note", 1, 1)>>, c>>] :
     x \in {SopEv("note", 1, 0), SopEv("note", 0, 1)},
     y \in {SopEv("note", 3, 0), SopEv("other", 0, 2)},
     c \in {<<>>, <<SopEv("tempo", 0, 1)>>, <<SopEv("tempo", 90, 0), SopEv("note", 1, 1)>>}}

Mcs(r, k, v) == [row |-> r, note |-> k, voice |-> v]
McsSongs ==
  {[patterns |-> [i \in {0, 1} |-> IF i = 0 THEN <<a, b, c>> ELSE <<Mcs(0, "key", 2)>>], orders |-> o] :
     a \in {Mcs(0, "break", 1), Mcs(0, "key", 1)}, b \in {Mcs(0, "key", 2), Mcs(1, "break", 1)},
     c \in {Mcs(1, "off", 1), Mcs(0, "none", 1)}, o \in {<<0, 1>>, <<1, 7, 0, 99, 1>>}}

PisN(v) == [k |-> "note", voice |-> v, arg |-> 0]
PisX(k, a) == [k |-> k, voice |-> 1, arg |-> a]
PisLoops == <<PisX("loop", 2), PisN(2)>>
PisRows == {<<>>, <<PisN(1), PisX("loop", 0)>>, PisLoops, <<PisX("jump", 1), PisX("break", 1)>>,
            <<PisX("break", 1)>>, <<PisX("speed", 2)>>, <<PisX("speed", 0)>>, <<PisX("jump", 0)>>}
PisSongs == {[positions |-> <<<<a, b>>, <<<<PisN(1)>>, c>>>>] :
               a \in PisRows, b \in PisRows \ {PisLoops}, c \in {<<>>, <<PisX("loop", 1)>>}}

WmW(k, a, t) == [k |-> k, arg |-> a, to |-> t]
WmN(k, d) == [k |-> k, note |-> d, dur |-> d]
WmA == {<<WmN("note", 2), WmW("tie", 0, 0), WmN("note", 2), WmN("rest", 1)>>,
        <<WmW("push", 2, 0), WmN("note", 1), WmW("leave", 0, 6), WmW("loop", 0, 2), WmW("inst", 0, 0),
          WmN("slide", 3)>>,
        <<WmN("note", 3), WmW("repeat", 3, 1), WmW("ties", 0, 0), WmW("tie", 0, 0), WmN("note", 0)>>}
WmSongs == {[streams |-> <<a \o <<z>>, b>>] : a \in WmA, z \in {WmW("end", 0, 0), WmW("jump", 0, 1)},
              b \in {<<WmN("note", 2)>>, <<WmN("rest", 2), WmW("jump", 0, 1)>>}}

VoiceSongs ==
  [d00 |-> D00Songs, lds |-> LdsSongs, plx |-> PlxSongs, sop |-> SopSongs,
   cmfmcsop |-> McsSongs, pis |-> PisSongs, wm |-> WmSongs]

-----------------------------------------------------------------------------
(* Programs of the Westwood driver: ReplayAdl.                             *)
A(k, a) == [k |-> k, arg |-> a]
To(k, t) == [k |-> k, to |-> t, back |-> TRUE]
Lev(k, v, a) == [k |-> k, voice |-> v, arg |-> a]
AdlProg(c, code) == [chan |-> c, priority |-> 1, code |-> code]

\* Programs of channel 9: starting and waiting, then an end or a loop.
AdlControl ==
  {<<A("tempo", 3), A("program", 2), A("waitForEnd", 2), x>> : x \in {A("stop", 0), To("jump", <<1, 2>>)}} \union
  {<<A("tempo", 3), A("beat", 2), A("program", 2), A("waitForBeat", 1), A("stopOther", 0), A("program", 9)>>,
   <<A("tempo", 2), A("rhythm", 5) @@ [keys |-> {6}], [k |-> "drums", arg |-> {"BD"}],
     [k |-> "drumLevel1", arg |-> 9, drums |-> {"HH"}], [k |-> "changeDrum1", arg |-> 60, drums |-> {"HH", "SD"}],
     A("program", 2), A("pause", 2), [k |-> "drumLevel2", arg |-> 1, drums |-> {"BD"}], A("noRhythm", 0),
     Lev("level2", 0, 200), Lev("changeLevel2", 0, 100), A("clear", 0)>>,
   <<A("tempo", 3), A("program", 3), A("program", 2), A("priority", 0), A("pause", 1), A("waitForEnd", 7), To("jump", Unset)>>}
\* Programs of channel 0.
AdlVoice ==
  {<<A("repeat", 2), A("spacing", 1), A("note", 2), To("again", <<2, 3>>), A("rest", 1)>>,
   <<A("fractional", 1), A("random", 2), To("sub", <<2, 6>>), A("note", 0), A("return", 0),
     A("note", 1), A("return", 0)>>,
   <<A("channelTempo", 2), A("tempoReset", 1), A("note", 1), A("changeTempo", 1), A("resetTempo", 0),
     A("tremolo", 1), A("tremolo", 0), A("pause", 1), To("jump", <<2, 3>>)>>}
AdlSong(v, c, d) == [version |-> v, tracks |-> <<1, 3>>,
                     programs |-> <<AdlProg(9, c), AdlProg(0, d), AdlProg(6, <<A("note", 2), A("stop", 0)>>)>>]
AdlPlain == <<A("note", 1)>>
AdlSongs == {AdlSong(3, c, AdlPlain) : c \in AdlControl} \union
            {AdlSong(1, <<A("tempo", 3), A("program", 2), A("waitForEnd", 2), A("stop", 0)>>, AdlPlain)} \union
            {AdlSong(3, <<A("tempo", 3), A("program", 2), A("waitForEnd", 2), A("stop", 0)>>, d) : d \in AdlVoice}


R(c, k, i, f, a) == [chan |-> c, note |-> k, inst |-> i, fx |-> f, arg |-> a]
L(i, notes) == [at |-> i, notes |-> notes]

\* Instrument 1 brings a riff that names instrument 2 and starts riff 11.
RadInsts(other) == 1 :> [midi |-> FALSE, riff |-> <<L(0, <<R(0, "key", 2, "riff", 11)>>), L(1, <<R(0, "none", other, "speed", 1)>>)>>, speed |-> 1]
               @@ 2 :> [midi |-> FALSE, riff |-> <<>>, speed |-> 0]
               @@ 3 :> [midi |-> TRUE, riff |-> <<>>, speed |-> 0]
RadJump == <<L(0, <<R(0, "key", -1, "none", 0), R(1, "off", 3, "tone", 0)>>), L(1, <<R(1, "key", 2, "jump", 1)>>)>>
RadTracks == {<<L(0, <<R(0, "key", 1, "transpose", 12)>>), L(1, <<R(1, "none", 0, "jump", 0)>>)>>, RadJump,
              <<L(1, <<R(1, "key", 9, "riff", 11), R(0, "off", 2, "riff", 99)>>)>>}
RadSongsOf(r, fast) ==
  {[version |-> 2, speed |-> 2, orders |-> o, insts |-> RadInsts(i), patterns |-> 0 :> a @@ 1 :> b,
    riffs |-> 11 :> <<L(0, <<R(0, "key", 2, "none", 0)>>), L(1, <<R(0, "none", 0, "jump", 0)>>)>>
              @@ 12 :> r] :
     o \in {<<0, 1>>, <<0, 1, 128>>, <<0, 129, 1>>, <<7, 0>>}, i \in {0, 1}, a \in RadTracks, b \in RadTracks \union fast}
RadRiffTracks == {<<L(0, <<R(0, "off", 1, "none", 0)>>)>>, <<L(0, <<R(0, "key", 1, "transpose", 12)>>)>>,
                  <<L(0, <<R(0, "none", 0, "riff", 11)>>), L(1, <<R(0, "none", 0, "jump", 9)>>)>>}
\* A jump into a pattern that is missing has no line to go to.
RadSongs == {t \in UNION {RadSongsOf(r, {}) : r \in RadRiffTracks} : t.orders[1] = 7 => t.patterns[0] # RadJump} \union
            {[version |-> 1, speed |-> 1, orders |-> <<50>>, insts |-> <<>>, patterns |-> <<>>, riffs |-> <<>>]}
\* A speed that is not set again at the start of the song.
RadSpeed == RadSongsOf(<<L(0, <<R(0, "off", 1, "none", 0)>>)>>, {<<L(0, <<R(0, "key", 2, "speed", 1)>>)>>})

DriverSongs == [adl |-> AdlSongs, rad |-> RadSongs]
============================================================================
