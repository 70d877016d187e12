---------------------------- MODULE MCMidiSongs ----------------------------
(***************************************************************************)
(* Small songs for the replayers of MIDI data and its relatives:           *)
(* ReplayMidi, ReplayXmi, ReplayComposer and ReplayGames.                  *)
(***************************************************************************)
EXTENDS MCVoiceSongs

\* An event of channel c that is followed by a delay.
M(k, c, a, d) == [k |-> k, chan |-> c, note |-> a, vel |-> 1, arg |-> a, delay |-> d, wait |-> d]
Mute(e) == [e EXCEPT !.vel = 0]

CmfEvents ==
  {<<M("on", 0, 60, 0), M("on", 1, 60, 1)>>, <<M("on", 0, 62, 1), M("on", 0, 62, 1), Mute(M("on", 0, 62, 1))>>,
   <<M("patch", 0, 3, 0), M("release", 0, 60, 0), M("on", 0, 64, 1)>>, <<M("bend", 0, 32, 1), M("on", 1, 61, 1)>>}
CmfDrums ==
  {<<M("rhythm", 0, 1, 0), M("on", 11, 36, 1), M("on", 11, 36, 0), M("on", 15, 42, 0), M("patch", 15, 2, 1)>>,
   <<M("on", 9, 35, 1), M("on", 9, 42, 1), Mute(M("on", 9, 35, 0)), M("release", 9, 36, 1)>>,
   <<M("on", 0, 50, 1), M("on", 1, 51, 1), M("rhythm", 0, 0, 1), M("depth", 0, 1, 0), M("transpose", 0, 4, 1)>>}
CmfEnds == {<<M("stop", 0, 0, 0)>>, <<M("other", 0, 0, 2)>>}
CmfSong(e) == [first |-> 2, insts |-> 2, events |-> e]
CmfSongs == {CmfSong(x \o y \o z) : x \in CmfEvents, y \in CmfEvents \union CmfDrums, z \in CmfEnds}
            \union {CmfSong(x \o y \o z) : x \in CmfDrums, y \in CmfEvents, z \in CmfEnds}

MidTracksA ==
  {<<M("on", 0, 60, 0), M("on", 1, 61, 0), M("on", 0, 20, 1), M("on", 1, 62, 1), Mute(M("on", 1, 70, 1)), M("off", 0, 60, 0)>>,
   <<M("patch", 0, 4, 0), M("mode", 0, "rhythm", 0), M("on", 11, 40, 1), M("on", 0, 50, 0), M("on", 12, 41, 1), Mute(M("on", 11, 40, 1))>>,
   <<M("lucas", 0, 0, 1), M("mode", 0, "rhythm", 0), M("on", 12, 60, 1), M("end", 0, 0, 1), M("volume", 0, 90, 2), M("on", 3, 60, 0)>>}
MidTracksB == {<<M("tempo", 0, 3, 1), M("on", 2, 66, 0)>>, <<M("on", 9, 60, 2), M("end", 0, 0, 0), M("on", 9, 50, 1)>>}
MidTrackOf(f, e) == [first |-> f, events |-> e]
MidSong(type, sections) == [type |-> type, msqtr |-> 5, insts |-> 0 :> 2 @@ 1 :> 3 @@ 12 :> 1, sections |-> sections]
MidSongs ==
  {MidSong(k, <<<<MidTrackOf(f, a), MidTrackOf(0, b)>>>>) :
     k \in {"midi", "lucas"}, f \in {0, 1}, a \in MidTracksA, b \in MidTracksB}
  \union {MidSong(k, <<<<MidTrackOf(1, a)>>>>) : k \in {"cmf", "oldlucas", "sierra"}, a \in MidTracksA}
  \union {MidSong("advsierra", <<<<MidTrackOf(1, a), MidTrackOf(0, b)>>>> \o r) :
             a \in MidTracksA, b \in MidTracksB, r \in {<<>>, <<<<MidTrackOf(0, <<M("on", 1, 60, 3), M("end", 0, 0, 0)>>)>>>>}}

HeradInsts == <<[mode |-> "plain", slide |-> 0, range |-> 0, map |-> <<>>],
                [mode |-> "plain", slide |-> 2, range |-> 3, map |-> <<>>],
                [mode |-> "keymap", slide |-> 0, range |-> 0, map |-> 60 :> 1 @@ 61 :> 2]>>
HeradA == {<<M("program", 0, 1, 1), M("on", 0, 60, 0), M("bend", 0, 70, 2), M("off", 0, 60, 1)>>,
           <<M("program", 0, 2, 0), M("on", 0, 60, 0), M("on", 0, 61, 1), M("on", 0, 62, 1), M("bend", 0, 30, 1)>>,
           <<M("program", 0, 9, 0), M("on", 0, 128, 1), M("off", 0, 61, 1), M("end", 0, 0, 0), M("on", 0, 61, 0)>>,
           <<M("program", 0, 1, 0), M("on", 0, 128, 1), M("other", 0, 0, 2), M("end", 0, 0, 40000)>>}
HeradSongs == {[AGD |-> g, v2 |-> TRUE, wSpeed |-> s, insts |-> HeradInsts, tracks |-> <<a, b, a>>] :
                 g \in {FALSE, TRUE}, s \in {200, 600}, a \in HeradA, b \in HeradA}

MidiSongs == [cmf |-> CmfSongs, mid |-> MidSongs, herad |-> HeradSongs]

-----------------------------------------------------------------------------
(* Miles XMI: ReplayXmi.                                                   *)
Timbre(b, i, f) == [bank |-> b, patch |-> i, four |-> f]
XmiTimbs == <<Timbre(0, 68, FALSE), Timbre(0, 48, TRUE), Timbre(127, 40, FALSE), Timbre(2, 5, TRUE)>>
XmiA == {<<M("on", 0, 60, 3), M("on", 0, 60, 1), M("volume", 0, 90, 0), M("wait", 0, 2, 0), M("on", 1, 62, 2)>>,
         <<M("sustain", 0, 127, 0), M("on", 0, 60, 1), M("wait", 0, 1, 0), M("bend", 0, 9000, 0), M("wait", 0, 1, 0), M("sustain", 0, 0, 0)>>,
         <<M("for", 0, 2, 0), M("on", 9, 40, 4), M("wait", 0, 1, 0), M("mod", 9, 70, 0), M("next", 0, 127, 0), M("wait", 0, 0, 0)>>}
XmiB == {<<M("bank", 0, 2, 0), M("program", 0, 5, 0), M("vprot", 0, 127, 0), M("on", 0, 64, 2), M("wait", 0, 1, 0), M("pan", 0, 10, 0), M("off", 0, 64, 0)>>,
         <<M("on", 1, 50, 5), M("on", 0, 60, 5), M("on", 1, 52, 1), M("wait", 0, 1, 0), Mute(M("on", 0, 60, 1)), M("expression", 1, 64, 0), M("alloff", 1, 0, 0)>>,
         <<M("sustain", 1, 64, 0), M("on", 1, 55, 1), M("wait", 0, 3, 0), M("reset", 1, 0, 0), M("program", 1, 9, 0), M("on", 1, 55, 1), M("other", 0, 0, 0), M("next", 0, 127, 0)>>}
XmiEnds == {<<M("end", 0, 0, 0)>>, <<M("wait", 0, 2, 0)>>}
XmiSongs == {[tracks |-> <<[timbres |-> XmiTimbs, events |-> a \o b \o e]>> \o r] :
               a \in XmiA, b \in XmiB, e \in XmiEnds, r \in {<<>>, <<[timbres |-> <<Timbre(0, 68, TRUE)>>, events |-> CHOOSE a \in XmiA : TRUE]>>}}

-----------------------------------------------------------------------------
(* The Visual Composer backend: ReplayComposer.                            *)
V(k, v, a, d) == [k |-> k, voice |-> v, arg |-> a, vol |-> 1, delay |-> d]
Vol(e, x) == [e EXCEPT !.vol = x]
At(t, x) == [time |-> t, value |-> x]
RolNotes == {<<>>, <<[number |-> 60, duration |-> 2], [number |-> 0, duration |-> 1]>>,
             <<[number |-> 0, duration |-> 1], [number |-> 48, duration |-> 3]>>}
RolVoiceOf(notes, pitches) ==
  [notes |-> notes, inst |-> <<At(0, 1), At(2, 2)>>, volume |-> <<At(1, 90), At(1, 80)>>, pitch |-> pitches]
RolSong(melodic, V0, x, y) ==
  [melodic |-> melodic, tempos |-> <<At(1, 2), At(3, 1)>>, last |-> 4,
   voices |-> [v \in V0 |-> IF v = 0 THEN x ELSE y]]
RolSongs ==
  {RolSong(m, IF m THEN {0, 8} ELSE {0, 6, 8, 9}, RolVoiceOf(x, <<At(1, 10000)>>), RolVoiceOf(y, <<At(0, 8192), At(2, 4000)>>)) :
     m \in BOOLEAN, x \in RolNotes, y \in RolNotes}

MusA == {<<V("on", 0, 60, 1), V("bend", 0, 10000, 0), V("touch", 0, 0, 0), Vol(V("on", 0, 60, 1), 0)>>,
         <<V("program", 0, 1, 0), V("program", 9, 7, 0), V("on", 6, 40, 2), V("on", 8, 50, 0)>>,
         <<V("bend", 0, 4000, 1), V("on", 0, 12, 0), V("bend", 0, 4000, 1), V("tempo", 0, 2, 1)>>}
MusB == {<<V("on", 9, 30, 1), Vol(V("off", 6, 40, 1), 2)>>, <<Vol(V("off", 0, 60, 1), 0), V("on", 8, 33, 0)>>}
MusEnds == {<<V("stop", 0, 0, 1)>>, <<V("other", 0, 0, 1)>>}
MusSongs == {[rhythm |-> r, range |-> 2, IMS |-> i, timbres |-> 2, events |-> a \o b \o c] :
               r \in BOOLEAN, i \in BOOLEAN, a \in MusA, b \in MusB, c \in MusEnds}
MdiC == {<<V("rhythm", 0, 0, 0), V("on", 8, 60, 1), Vol(V("on", 8, 60, 1), 0)>>, <<V("range", 0, 4, 1), V("bend", 0, 9000, 0)>>}
MdiSongs == {[timbres |-> 2, events |-> a \o c \o b \o d] : a \in MusA, c \in MdiC, b \in MusB, d \in MusEnds}

CoktelA == {<<V("on", 0, 60, 2), V("timbre", 0, 1, 0), V("modify", 0, 3, 0), V("program", 0, 1, 1), V("modify", 0, 5, 0)>>,
            <<V("program", 9, 1, 0), V("onvol", 8, 40, 1), V("bend", 0, 12000, 0), V("touch", 6, 0, 1)>>,
            <<V("modify", 0, 4, 0), V("timbre", 0, 9, 1), V("modify", 0, 3, 0), V("program", 0, 8, 0), V("off", 0, 0, 1)>>}
CoktelSongs == {[rhythm |-> r, timbres |-> 2, events |-> a \o b \o c] :
                  r \in BOOLEAN, a \in CoktelA, b \in CoktelA, c \in {<<>>, <<V("stop", 0, 0, 2), V("on", 0, 1, 1)>>}}

ComposerSongs == [rol |-> RolSongs, mus |-> MusSongs, mdi |-> MdiSongs, coktel |-> CoktelSongs]

-----------------------------------------------------------------------------
(* The game drivers: ReplayGames.  From the loop point of an Ultima song   *)
(* on, and in what is called, there is a wait.                             *)
G(k, v, a) == [k |-> k, voice |-> v, arg |-> a, times |-> 2]
U6mA == {<<G("define", 0, 1), G("inst", 0, 1), G("strike", 0, 37), G("vibrato", 0, 34), G("wait", 0, 3)>>,
         <<G("inst", 0, 1), G("on", 0, 225), G("slide", 0, 100), G("wait", 0, 2), G("slide", 0, -100)>>,
         <<G("carrier", 0, 62), G("fade", 0, 1), G("on", 1, 30), G("wait", 0, 4), G("off", 1, 24)>>}
U6mCall(target) == <<G("call", 0, target), G("loop", 0, 0)>>
U6mB == {<<G("on", 0, 34), G("fade", 0, -1), G("wait", 0, 1), G("return", 0, 0)>>, <<G("strike", 12, 0), G("wait", 0, 1), G("define", 0, 1)>>}

\* The song; then the subsong it calls.
U6mSongs ==
  {[commands |-> a \o U6mCall(Len(a) + Len(b) + 4) \o b \o <<G("wait", 0, 1), G("return", 0, 0)>> \o c] :
     a \in U6mA, b \in U6mA, c \in U6mB}
  \union {[commands |-> a \o <<G("loop", 0, 0)>> \o b] : a \in U6mA, b \in U6mB}

RixA == {<<G("inst", 0, 0), G("inst", 6, 5), G("note", 0, 40), G("wait", 0, 14)>>,
         <<G("bend", 0, 20000), G("note", 8, 30), G("note", 6, 24), G("wait", 0, 5), G("level", 8, 200), G("wait", 0, 20)>>,
         <<G("note", 7, 4), G("inst", 7, 1), G("bend", 7, 100), G("wait", 0, 30), G("note", 7, 0)>>}
RixTuneOf(r, e) == [rhythm |-> r, events |-> e]
RixSongs ==
  {[insts |-> 2, table |-> t, tunes |-> <<RixTuneOf(r, a \o b), RixTuneOf(~r, b)>>] :
     t \in {<<1>>, <<1, 1, 2>>}, r \in BOOLEAN, a \in RixA, b \in RixA}

GamesSongs == [u6m |-> U6mSongs, rix |-> RixSongs]
============================================================================
