----------------------------- MODULE ReplayMidi -----------------------------
(***************************************************************************)
(* Replayers of MIDI data: channels whose notes have to share the voices   *)
(* of the chip.  An event stands for its bytes, running status included;   *)
(* frequencies and levels are left out.                                    *)
(***************************************************************************)
EXTENDS ReplayRad

CONSTANTS MidiVoices,   \* the voices of the chip: 0..8 in the code
          HeradVoices   \* tracks that one chip can play: 9 in the code

Nobody == -1
MidiChannels == 0..15

\* The first of the voices S that f does not give less than to another.
FirstMax(S, f) ==
  Min({v \in S : \A w \in S : f[w] <= f[v]})

----------------------------------------------------------------------------
(* Creative Music Files (cmf.cpp).  With rhythm mode on (percussive) the   *)
(* channels 11 to 15 play the drums, on the voices from 6.                 *)

CmfPercVoice(c) == CASE c = 11 -> 6 [] c \in {12, 15} -> 7 [] c \in {13, 14} -> 8

\* The drum of a General MIDI key on channel 9.
CmfDrumChannel(key) ==
  CASE key \in {35, 36} -> 11
    [] key \in 37..40 -> 12
    [] key \in {42, 44, 46} -> 15
    [] key \in {49, 51, 52, 53, 55, 57, 59, 80, 81} -> 14
    [] OTHER -> 13

\* load() looks for General MIDI drums: notes of drums on channel 9, which is
\* never given an instrument.
CmfMidiDrums(events) ==
  LET mine == {i \in DOMAIN events : events[i].chan = 9 /\
                 \A j \in 1..(i - 1) : events[j].k # "stop"}
      struck == {i \in mine : events[i].k = "on" /\ events[i].vel > 0}
  IN  /\ struck # {}
      /\ \A i \in struck : events[i].note \in 35..81
      /\ \A i \in mine : events[i].k # "patch"

CmfFree(q) ==
  [q EXCEPT !.start = Each(MidiVoices, 0), !.held = Each(MidiVoices, Nobody),
            !.owner = Each(MidiVoices, Nobody), !.timbre = Each(MidiVoices, Nobody)]

\* rhythmModeReset(): the voices are free and their notes go on sounding.
CmfRhythmMode(q, percussive) ==
  LET drums == CmfMidiDrums(song.events) /\ percussive
  IN  [CmfFree(q) EXCEPT !.percussive = percussive,
         !.patch = [c \in MidiChannels |-> IF drums /\ c >= 11 THEN 128 + c - 11 ELSE 0],
         !.bd = [rhythm |-> percussive, depth |-> 3, drums |-> {}]]

\* rewind() does not reset bPercussive, but for a song of General MIDI drums.
CmfConstructed == [percussive : {FALSE}]

CmfFresh(q) ==
  LET f == [percussive |-> q.percussive, at |-> 1, songend |-> FALSE, delay |-> song.first,
            count |-> 0, start |-> Each(MidiVoices, 0), held |-> Each(MidiVoices, Nobody),
            owner |-> Each(MidiVoices, Nobody), timbre |-> Each(MidiVoices, Nobody),
            patch |-> Each(MidiChannels, 0), bend |-> Each(MidiChannels, 64),
            transpose |-> Each(MidiChannels, 0),
            bd |-> [rhythm |-> FALSE, depth |-> 0, drums |-> {}],
            now |-> Each(MidiChannels, 255), fix |-> {}, on |-> {}]
  IN  IF CmfMidiDrums(song.events) THEN CmfRhythmMode(f, TRUE) ELSE f

CmfRewind == MayRewind("cmf", 0) /\ Rewound(0, CmfFresh(p))

CmfVoices(q) == IF q.percussive THEN {v \in MidiVoices : v < 6} ELSE MidiVoices
CmfIsDrum(q, c) == c > 10 /\ q.percussive
CmfChannel(c, key) == IF CmfMidiDrums(song.events) /\ c = 9 THEN CmfDrumChannel(key) ELSE c

\* A drum that is on is struck again.
CmfStrike(q, c, key) ==
  LET v == CmfPercVoice(c)
  IN  [q EXCEPT !.timbre[v] = q.patch[c], !.bd.drums = @ \union {c}, !.count = @ + 1,
                !.start[v] = q.count + 1, !.owner[v] = c, !.held[v] = key,
                !.on = @ \ {v}]

\* A voice this channel has released, one nobody has used, one anybody has
\* released, or the one whose note is the oldest.
CmfVoice(q, c) ==
  LET V == CmfVoices(q)
      mine == {v \in V : q.start[v] = 0 /\ q.owner[v] = c}
      unused == {v \in V : q.owner[v] = Nobody}
      released == {v \in V : q.start[v] = 0}
      S == IF mine # {} THEN mine ELSE IF unused # {} THEN unused ELSE released
  IN  IF S # {} THEN Min(S) ELSE CHOOSE v \in V : \A w \in V : q.start[v] <= q.start[w]

CmfPlay(q, c, key) ==
  LET v == CmfVoice(q, c)
  IN  [q EXCEPT !.timbre[v] = IF q.owner[v] = c THEN @ ELSE q.patch[c],
                !.count = @ + 1, !.start[v] = q.count + 1, !.owner[v] = c, !.held[v] = key,
                !.on = @ \union {v}]

CmfNoteOn(q, chan, key) ==
  LET c == CmfChannel(chan, key)
  IN  IF CmfIsDrum(q, c) THEN CmfStrike(q, c, key) ELSE CmfPlay(q, c, key)

CmfNoteOff(q, chan, key) ==
  LET c == CmfChannel(chan, key)
      S == {v \in CmfVoices(q) : q.owner[v] = c /\ q.held[v] = key /\ q.start[v] # 0}
  IN  IF ~CmfIsDrum(q, c)
      THEN [q EXCEPT !.start = [v \in MidiVoices |-> IF v \in S THEN 0 ELSE @[v]], !.on = @ \ S]
      ELSE IF q.held[CmfPercVoice(c)] # key THEN q
      ELSE [q EXCEPT !.bd.drums = @ \ {c}, !.start[CmfPercVoice(c)] = 0]

\* A note on for the note its channel is playing turns that note off, and the
\* next one without a velocity turns it on.
CmfKey(q, e) ==
  LET again == e.vel > 0 /\ q.now[e.chan] = e.note
      back == e.vel = 0 /\ e.chan \in q.fix
      sounds == (e.vel > 0 /\ ~again) \/ back
      f == [q EXCEPT !.fix = IF again THEN @ \union {e.chan} ELSE IF back THEN @ \ {e.chan} ELSE @,
                     !.now[e.chan] = IF sounds THEN e.note ELSE 255]
  IN  IF sounds THEN CmfNoteOn(f, e.chan, e.note) ELSE CmfNoteOff(f, e.chan, e.note)

\* The notes that sound change their instrument; the voices the channel has
\* released are free again.
CmfPatch(q, e) ==
  LET c == e.chan
      i == e.arg % song.insts
      f == [q EXCEPT !.patch[c] = i]
      released == {v \in CmfVoices(q) : q.owner[v] = c /\ q.start[v] = 0}
      sounding == {v \in CmfVoices(q) : q.owner[v] = c /\ q.start[v] > 0}
  IN  IF CmfIsDrum(q, c) THEN [f EXCEPT !.timbre[CmfPercVoice(c)] = i]
      ELSE [f EXCEPT !.owner = [v \in MidiVoices |-> IF v \in released THEN Nobody ELSE @[v]],
                     !.timbre = [v \in MidiVoices |-> IF v \in sounding THEN i ELSE @[v]]]

\* The notes that sound are written again.
CmfTuned(q, c) ==
  [q EXCEPT !.on = IF CmfIsDrum(q, c) THEN @ \ {CmfPercVoice(c)}
                   ELSE @ \union {v \in CmfVoices(q) : q.owner[v] = c /\ q.start[v] > 0}]

CmfEvent(q, e) ==
  CASE e.k = "on" -> CmfKey(q, e)
    [] e.k = "release" -> CmfNoteOff(q, e.chan, e.note)
    [] e.k = "patch" -> CmfPatch(q, e)
    [] e.k = "bend" -> CmfTuned([q EXCEPT !.bend[e.chan] = e.arg], e.chan)
    [] e.k = "transpose" -> CmfTuned([q EXCEPT !.transpose[e.chan] = e.arg], e.chan)
    [] e.k = "depth" -> [q EXCEPT !.bd.depth = e.arg]
    [] e.k = "rhythm" -> CmfRhythmMode(q, e.arg # 0)
    [] e.k \in {"stop", "other"} -> q

CmfBegin == Begin("cmf")

\* At its end the song starts again, and stays ended.
CmfStep ==
  /\ In("cmf")
  /\ LET e == song.events[p.at]
         q == CmfEvent(p, e)
         over == e.k = "stop" \/ p.at = Len(song.events)
         f == IF over THEN [q EXCEPT !.at = 1, !.songend = TRUE, !.delay = song.first]
              ELSE [q EXCEPT !.at = @ + 1, !.delay = e.delay]
     IN  IF f.delay = 0 THEN Within(f, pc) ELSE Updated(f, {}, ~f.songend)

CmfUpdate == CmfBegin \/ CmfStep

----------------------------------------------------------------------------
(* Standard MIDI, and the MIDI of LucasArts, Sierra and Creative (mid.cpp). *)
(* A track of an advanced Sierra song belongs to one of its sections, the   *)
(* subsongs.  The first of two waits of a track is skipped by all of them.  *)

MidPercVoice(c) == CASE c = 11 -> 6 [] c \in {12, 15} -> 7 [] c \in {13, 14} -> 8

MidSierra == song.type \in {"sierra", "advsierra"}
MidSection(s) == IF song.type = "advsierra" /\ s < Len(song.sections) THEN s + 1 ELSE 1

MidStyle ==
  CASE song.type = "midi" -> {"midi", "cmf"}
    [] song.type \in {"lucas", "oldlucas"} -> {"lucas", "midi"}
    [] song.type = "cmf" -> {"cmf"}
    [] MidSierra -> {"sierra", "midi"}

MidShift == IF song.type \in {"midi", "cmf", "sierra"} THEN -13 ELSE -25

\* The instruments the channels start with; a Sierra song turns channels off.
MidInst(c) == IF song.type \in {"oldlucas", "sierra"} /\ c \in DOMAIN song.insts THEN song.insts[c] ELSE 0
MidOn == IF song.type = "sierra" THEN DOMAIN song.insts ELSE MidiChannels

MidFresh(s) ==
  LET tracks == song.sections[MidSection(s)]
  IN  [style |-> MidStyle, mode |-> "melodic", doing |-> TRUE, msqtr |-> song.msqtr,
       place |-> [t \in DOMAIN tracks |-> 1], tend |-> [t \in DOMAIN tracks |-> Len(tracks[t].events)],
       iwait |-> [t \in DOMAIN tracks |-> 0],
       inum |-> [c \in MidiChannels |-> MidInst(c)], vol |-> Each(MidiChannels, 127),
       chan |-> Each(MidiVoices, Nobody), tone |-> Each(MidiVoices, Nobody),
       age |-> Each(MidiVoices, 0), drumBits |-> {}, on |-> {}]

MidRewind == \E s \in Subsongs : MayRewind("mid", s) /\ Rewound(s, MidFresh(s))

MidTracks == song.sections[MidSection(sub)]
MidVoices(q) == IF q.mode = "rhythm" THEN {v \in MidiVoices : v < 6} ELSE MidiVoices

MidEndNote(q, c, note) ==
  LET S == {v \in MidiVoices : q.chan[v] = c /\ q.tone[v] = note}
  IN  [q EXCEPT !.on = @ \ S,
                !.chan = [v \in MidiVoices |-> IF v \in S THEN Nobody ELSE @[v]],
                !.tone = [v \in MidiVoices |-> IF v \in S THEN Nobody ELSE @[v]]]

\* A voice for a note, found whatever its velocity: the one that is free for
\* the longest, or else the one whose note is the oldest, which is cut.
MidVoice(q, c) ==
  LET free == {v \in MidVoices(q) : q.chan[v] = Nobody}
  IN  IF c >= 11 /\ q.mode = "rhythm" THEN MidPercVoice(c)
      ELSE FirstMax(IF free # {} THEN free ELSE MidVoices(q), q.age)

MidCuts(q, c) ==
  /\ ~(c >= 11 /\ q.mode = "rhythm")
  /\ {v \in MidVoices(q) : q.chan[v] = Nobody} = {}

\* A note too low for the chip takes its voice and is not heard.
MidPlay(q, c, note, v) ==
  LET drum == c >= 11 /\ q.mode = "rhythm"
      keyed == ~drum /\ (q.mode = "melodic" \/ v < 6)
      heard == note + MidShift >= 0
  IN  [q EXCEPT !.chan[v] = c, !.tone[v] = note, !.age[v] = 0,
                !.on = IF ~heard THEN @ ELSE IF keyed THEN @ \union {v} ELSE @ \ {v},
                !.drumBits = IF drum THEN @ \union {c} ELSE @]

MidNoteOn(q, e) ==
  LET a == [q EXCEPT !.age = [v \in MidiVoices |-> @[v] + 1]]
      v == MidVoice(a, e.chan)
      b == IF MidCuts(a, e.chan) THEN [a EXCEPT !.on = @ \ {v}] ELSE a
  IN  IF e.chan \notin MidOn THEN q
      ELSE IF e.vel > 0 THEN MidPlay(b, e.chan, e.note, v)
      ELSE IF e.chan >= 11 /\ q.mode = "rhythm"
      THEN [b EXCEPT !.drumBits = @ \ {e.chan}, !.chan[v] = Nobody, !.tone[v] = Nobody]
      ELSE MidEndNote(b, e.chan, e.note)

\* A LucasArts instrument makes the song one of LucasArts, which has no
\* rhythm mode to switch.
MidEvent(q, e) ==
  CASE e.k = "on" -> MidNoteOn(q, e)
    [] e.k = "off" -> MidEndNote(q, e.chan, e.note)
    [] e.k = "volume" -> [q EXCEPT !.vol[e.chan] = e.arg]
    [] e.k = "mode" -> IF "cmf" \in q.style THEN [q EXCEPT !.mode = e.arg] ELSE q
    [] e.k = "patch" -> [q EXCEPT !.inum[e.chan] = e.arg]
    [] e.k = "lucas" -> [q EXCEPT !.style = {"lucas", "midi"}]
    [] e.k = "tempo" -> [q EXCEPT !.msqtr = e.arg]
    [] e.k \in {"end", "other"} -> q

MidAlive(q, t) == q.place[t] <= q.tend[t]

\* The event of track t that is due; an end mark only ends Sierra's tracks.
MidTrack(q, t) ==
  LET e == MidTracks[t].events[q.place[t]]
      f == MidEvent([q EXCEPT !.place[t] = @ + 1], e)
      g == IF e.k = "end" /\ MidSierra THEN [f EXCEPT !.tend[t] = q.place[t]] ELSE f
  IN  IF ~MidAlive(q, t) \/ q.iwait[t] # 0 THEN q
      ELSE [g EXCEPT !.iwait[t] = IF MidAlive(g, t) THEN e.wait ELSE 0]

MidBegin ==
  /\ MayUpdate("mid")
  /\ Within(IF ~p.doing THEN p
            ELSE [p EXCEPT !.doing = FALSE, !.iwait = [t \in DOMAIN @ |-> @[t] + MidTracks[t].first]], 1)

\* All the tracks, until they all wait; then all of them wait as long.
MidPass ==
  /\ In("mid")
  /\ LET f == FoldLeft(MidTrack, p, [t \in DOMAIN MidTracks |-> t])
         alive == {t \in DOMAIN MidTracks : MidAlive(f, t)}
         soonest == Min({f.iwait[t] : t \in alive})
     IN  IF alive = {} THEN Updated(f, {}, FALSE)
         ELSE IF soonest = 0 THEN Within(f, pc)
         ELSE Updated([f EXCEPT !.iwait = [t \in DOMAIN @ |-> IF t \in alive THEN @[t] - soonest ELSE 0]], {}, TRUE)

MidUpdate == MidBegin \/ MidPass

----------------------------------------------------------------------------
(* HERAD (herad.cpp): a voice for each track.  The loop of a song is left  *)
(* out of the build (HERAD_USE_LOOPING), so a song ends with its tracks.   *)

HeradTracks == DOMAIN song.tracks
HeradInst(i) == song.insts[i + 1]
HeradKeymap(i) == song.v2 /\ HeradInst(i).mode = "keymap"
HeradCenter == 64

HeradFresh ==
  [wTime |-> 0, songend |-> FALSE,
   place |-> Each(HeradTracks, 1), counter |-> Each(HeradTracks, 0), ticks |-> Each(HeradTracks, 0),
   program |-> Each(HeradTracks, 0), playprog |-> Each(HeradTracks, 0),
   note |-> Each(HeradTracks, 0), keyon |-> {}, bend |-> Each(HeradTracks, HeradCenter),
   slide_dur |-> Each(HeradTracks, 0), on |-> {}]

HeradRewind == MayRewind("herad", 0) /\ Rewound(0, HeradFresh)

\* playNote(): an instrument with a slide starts one or stops it.
HeradPlay(q, t, state) ==
  LET slide == HeradInst(q.playprog[t]).slide
  IN  [q EXCEPT !.slide_dur[t] = IF state = "update" \/ slide = 0 THEN @
                                 ELSE IF state = "on" THEN slide ELSE 0,
                !.on = IF state = "off" THEN @ \ {t} ELSE @ \union {t}]

\* A keymap gives each note an instrument, and some notes none.
HeradNoteOn(q, t, key) ==
  LET off == IF t \in q.keyon THEN HeradPlay([q EXCEPT !.keyon = @ \ {t}], t, "off") ELSE q
      map == HeradInst(q.program[t]).map
      mapped == HeradKeymap(q.program[t])
      f == [off EXCEPT !.playprog[t] = IF mapped THEN map[key] ELSE @, !.note[t] = key,
                       !.keyon = @ \union {t}, !.bend[t] = HeradCenter]
  IN  IF mapped /\ key \notin DOMAIN map THEN off
      ELSE IF HeradKeymap(f.playprog[t]) THEN f
      ELSE HeradPlay(f, t, "on")

HeradNoteOff(q, t, key) ==
  IF key # q.note[t] \/ t \notin q.keyon THEN q
  ELSE HeradPlay([q EXCEPT !.keyon = @ \ {t}], t, "off")

HeradProgram(q, t, i) ==
  IF i >= Len(song.insts) THEN q ELSE [q EXCEPT !.program[t] = i, !.playprog[t] = i]

HeradBend(q, t, bend) ==
  LET f == [q EXCEPT !.bend[t] = bend]
  IN  IF t \in q.keyon THEN HeradPlay(f, t, "update") ELSE f

HeradCommand(q, t) ==
  LET e == song.tracks[t][q.place[t]]
      f == [q EXCEPT !.place[t] = @ + 1]
      over == [q EXCEPT !.place[t] = Len(song.tracks[t]) + 1]
  IN  CASE t > (IF song.AGD THEN 2 * HeradVoices ELSE HeradVoices) -> over
        [] e.k = "off" -> HeradNoteOff(f, t, e.arg)
        [] e.k = "on" -> HeradNoteOn(f, t, e.arg)
        [] e.k = "program" -> HeradProgram(f, t, e.arg)
        [] e.k = "bend" -> HeradBend(f, t, e.arg)
        [] e.k = "other" -> f
        [] e.k = "end" -> over

\* macroSlide(): a note with no number goes on sliding unheard.
HeradSlide(q, t) ==
  LET f == [q EXCEPT !.slide_dur[t] = @ - 1, !.bend[t] = Byte(@ + HeradInst(q.playprog[t]).range)]
  IN  IF q.slide_dur[t] = 0 \/ t \notin q.keyon THEN q
      ELSE IF f.note[t] % 128 = 0 THEN f ELSE HeradPlay(f, t, "update")

HeradOver(q, t) == q.place[t] > Len(song.tracks[t])

\* The events of a track that are due at once: the next one follows if its
\* delay is 0.
HeradWaits(q, t) == HeradOver(q, t) \/ song.tracks[t][q.place[t]].delay # 0
HeradDue(q, t) ==
  FoldLeft(LAMBDA f, e : IF HeradWaits(f, t) THEN f ELSE HeradCommand(f, t),
           HeradCommand(q, t), song.tracks[t])

\* One tick of a track.  The first delay is longer by one.
HeradTick(q, t) ==
  LET a == HeradSlide(q, t)
      delay == song.tracks[t][a.place[t]].delay
      b == IF a.counter[t] # 0 THEN a
           ELSE [a EXCEPT !.ticks[t] = IF a.place[t] = 1 /\ delay > 0 THEN delay + 1 ELSE delay]
      c == [b EXCEPT !.counter[t] = @ + 1]
  IN  IF HeradOver(a, t) THEN a
      ELSE IF c.counter[t] >= c.ticks[t] THEN HeradDue([c EXCEPT !.counter[t] = 0], t)
      ELSE IF c.ticks[t] >= 32768
      THEN [c EXCEPT !.place[t] = Len(song.tracks[t]) + 1, !.counter[t] = c.ticks[t]]
      ELSE c

HeradTime == p.wTime - 256

HeradWait ==
  /\ MayUpdate("herad") /\ HeradTime >= 0
  /\ Updated([p EXCEPT !.wTime = HeradTime], {}, ~p.songend)

\* The song is over when no track had anything left to play.
HeradEvents ==
  /\ MayUpdate("herad") /\ HeradTime < 0
  /\ LET over == \A t \in HeradTracks : HeradOver(p, t)
         f == FoldLeft(HeradTick, p, [t \in HeradTracks |-> t])
     IN  Updated([f EXCEPT !.wTime = HeradTime + song.wSpeed, !.songend = over], {}, ~over)

HeradUpdate == HeradWait \/ HeradEvents

----------------------------------------------------------------------------
MidiRewind == CmfRewind \/ MidRewind \/ HeradRewind
MidiUpdate == CmfUpdate \/ MidUpdate \/ HeradUpdate
=============================================================================
