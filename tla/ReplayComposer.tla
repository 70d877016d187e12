--------------------------- MODULE ReplayComposer ---------------------------
(***************************************************************************)
(* The AdLib Visual Composer backend (composer.cpp) and the four replayers *)
(* that drive it.  Instruments stand for what send_operator() writes; the  *)
(* block and number of a frequency follow from noteCache, halfTone and     *)
(* fnumPtr and are left out.                                               *)
(***************************************************************************)
EXTENDS ReplayMidi

CONSTANT ComposerVoices   \* 0..10 in the code

SilenceNote == -12
PitchSteps == 25
MidPitch == 8192
MaxVolume == 127
NumMelodic == 9
BassDrum == 6
Snare == 7
Tomtom == 8
DefaultTimbre == -1   \* the electric piano, or the drum of a voice

\* The constructor leaves a bend of no voice that was ever heard.
ComposerConstructed ==
  {[fnumPtr |-> Each(ComposerVoices, 0), oldFNumPtr |-> Unset, oldBend |-> Unset,
    oldHalfTone |-> 0, pitchStep |-> PitchSteps, struck |-> {}, rhythmMode |-> FALSE]}

\* The backend's fields and those of a player that derives from it (as @@, of
\* which the proof system knows nothing).
Derived(backend, player) ==
  [k \in DOMAIN backend \union DOMAIN player |->
     IF k \in DOMAIN backend THEN backend[k] ELSE player[k]]

\* CcomposerBackend::rewind() leaves the drums that were struck, and the
\* fractions of the bends, as they are.
ComposerReset(q) ==
  [fnumPtr |-> q.fnumPtr, oldFNumPtr |-> q.oldFNumPtr, oldBend |-> q.oldBend,
   oldHalfTone |-> q.oldHalfTone, pitchStep |-> q.pitchStep, struck |-> q.struck,
   rhythmMode |-> q.rhythmMode, halfTone |-> Each(ComposerVoices, 0),
   volumeCache |-> Each(ComposerVoices, MaxVolume), timbres |-> Each(ComposerVoices, Unset),
   noteCache |-> Each(ComposerVoices, 0), keyOn |-> {}, on |-> {}]

\* Only voices 0..8 have a key of their own.
CmpFreq(q, v, key, keyed) ==
  [q EXCEPT !.noteCache[v] = key,
            !.keyOn = IF keyed THEN @ \union {v} ELSE @ \ {v},
            !.on = IF keyed THEN @ \union {v} ELSE @ \ {v}]

CmpRhythm(q, mode) ==
  LET f == [q EXCEPT !.rhythmMode = mode]
  IN  IF mode THEN CmpFreq(CmpFreq(f, Tomtom, 24, FALSE), Snare, 24 + 7, FALSE) ELSE f

CmpMelodic(q, v, key) ==
  LET off == [q EXCEPT !.keyOn = @ \ {v}, !.on = @ \ {v}]
  IN  IF v >= NumMelodic THEN q
      ELSE IF key = SilenceNote THEN off ELSE CmpFreq(off, v, key, TRUE)

\* A drum is always stopped before it is struck; a tomtom tunes the snare.
CmpPercussive(q, v, key) ==
  LET off == [q EXCEPT !.struck = @ \ {v}, !.keyOn = @ \ {v}]
      f == CASE v = Tomtom -> CmpFreq(CmpFreq(off, Tomtom, key, FALSE), Snare, key + 7, FALSE)
             [] v = BassDrum -> CmpFreq(off, v, key, FALSE)
             [] OTHER -> off
  IN  IF key = SilenceNote THEN off
      ELSE [f EXCEPT !.keyOn = @ \union {v}, !.struck = @ \union {v}]

CmpNote(q, v, key) ==
  IF v < BassDrum \/ ~q.rhythmMode THEN CmpMelodic(q, v, key) ELSE CmpPercussive(q, v, key)
CmpNoteOn(q, v, note) == CmpNote(q, v, note + SilenceNote)
CmpNoteOff(q, v) == CmpNote(q, v, SilenceNote)

CmpPitchRange(q, r) == [q EXCEPT !.pitchStep = PitchSteps * Max({1, Min({12, r})})]

\* The half tones of a bend, and the rest of it in steps of 1/25.
CmpDown(dir) == (PitchSteps - 1 - dir)
CmpHalfTone(dir) == IF dir < 0 THEN -(CmpDown(dir) \div PitchSteps) ELSE dir \div PitchSteps
CmpDelta(dir) ==
  LET rest == (CmpDown(dir) - PitchSteps + 1) % PitchSteps
  IN  IF dir >= 0 THEN dir % PitchSteps ELSE IF rest = 0 THEN 0 ELSE PitchSteps - rest

\* Two bends of the same length are only worked out once, whatever voice they
\* are for.
CmpBend(q, v, bend) ==
  LET length == (bend - MidPitch) * q.pitchStep
      dir == IF length < 0 THEN -((-length) \div MidPitch) ELSE length \div MidPitch
      f == IF q.oldBend = length THEN [q EXCEPT !.fnumPtr[v] = q.oldFNumPtr, !.halfTone[v] = q.oldHalfTone]
           ELSE [q EXCEPT !.fnumPtr[v] = CmpDelta(dir), !.halfTone[v] = CmpHalfTone(dir), !.oldBend = length,
                          !.oldFNumPtr = CmpDelta(dir), !.oldHalfTone = CmpHalfTone(dir)]
  IN  IF v >= BassDrum /\ q.rhythmMode THEN q
      ELSE CmpFreq(f, v, f.noteCache[v], v \in f.keyOn)

CmpHas(q, v) == v < NumMelodic \/ q.rhythmMode
CmpVolume(q, v, volume) == IF CmpHas(q, v) THEN [q EXCEPT !.volumeCache[v] = volume] ELSE q
CmpInstrument(q, v, timbre) == IF CmpHas(q, v) THEN [q EXCEPT !.timbres[v] = timbre] ELSE q
CmpDefaults(q) == [q EXCEPT !.timbres = [v \in ComposerVoices |-> IF CmpHas(q, v) THEN DefaultTimbre ELSE @[v]]]

----------------------------------------------------------------------------
(* AdLib Visual Composer (rol.cpp): for each voice a list of notes, and    *)
(* lists of what else happens at which tick.                               *)

RolVoices == DOMAIN song.voices

RolFresh(q) ==
  Derived(CmpRhythm(ComposerReset(q), ~song.melodic),
    [nextTempo |-> 1, tick |-> 0, refresh |-> 1, ends |-> {}, force |-> RolVoices,
     note |-> Each(RolVoices, 1), played |-> Each(RolVoices, 0), duration |-> Each(RolVoices, 0),
     next |-> [v \in RolVoices |-> [k \in {"inst", "volume", "pitch"} |-> 1]]])

RolRewind == MayRewind("rol", 0) /\ Rewound(0, RolFresh(p))

\* The next event of a list, when it is the tick it is for: an event whose
\* tick has passed holds up the list.
RolDue(q, v, k) ==
  /\ q.next[v][k] <= Len(song.voices[v][k])
  /\ song.voices[v][k][q.next[v][k]].time = q.tick

RolEvent(q, v, k) ==
  LET value == song.voices[v][k][q.next[v][k]].value
      f == [q EXCEPT !.next[v][k] = @ + 1]
  IN  IF ~RolDue(q, v, k) THEN q
      ELSE CASE k = "inst" -> CmpInstrument(f, v, value)
             [] k = "volume" -> CmpVolume(f, v, value)
             [] k = "pitch" -> CmpBend(f, v, value)

\* The next note once the last one is over, or the end of the voice.
RolNote(q, v) ==
  LET at == IF q.tick = 0 THEN q.note[v] ELSE q.note[v] + 1
      notes == song.voices[v].notes
      f == [q EXCEPT !.note[v] = at]
  IN  IF ~(v \in q.force \/ q.played[v] > q.duration[v] - 1) THEN q
      ELSE IF at > Len(notes) THEN [CmpNoteOff(f, v) EXCEPT !.ends = @ \union {v}]
      ELSE [CmpNoteOn(f, v, notes[at].number) EXCEPT
              !.played[v] = 0, !.duration[v] = notes[at].duration, !.force = @ \ {v}]

RolVoice(q, v) ==
  LET a == RolNote(RolEvent(RolEvent(q, v, "inst"), v, "volume"), v)
  IN  IF song.voices[v].notes = <<>> \/ v \in q.ends THEN q
      ELSE IF v \in a.ends THEN a
      ELSE [RolEvent(a, v, "pitch") EXCEPT !.played[v] = @ + 1]

RolUpdate ==
  /\ MayUpdate("rol")
  /\ LET due == p.nextTempo <= Len(song.tempos) /\ song.tempos[p.nextTempo].time = p.tick
         a == IF due THEN [p EXCEPT !.refresh = song.tempos[p.nextTempo].value, !.nextTempo = @ + 1] ELSE p
         f == FoldLeft(RolVoice, a, SetToSortSeq(RolVoices, LAMBDA v, w : v < w))
     IN  Updated([f EXCEPT !.tick = @ + 1], {}, f.tick + 1 <= song.last)

----------------------------------------------------------------------------
(* The events of AdLib MIDI (mus.cpp) and MIDIPlay (mdi.cpp): an event and *)
(* the delay before it.  The song starts again at its end.                 *)

MusReset == [at |-> 1, songend |-> FALSE, counter |-> 0, ticks |-> 0, volume |-> Each(ComposerVoices, 0)]

MusFresh(q) ==
  Derived(CmpDefaults(CmpPitchRange(CmpRhythm(ComposerReset(q), song.rhythm), song.range)),
          MusReset @@ [tempo |-> 1])

MusRewind == MayRewind("mus", 0) /\ Rewound(0, MusFresh(p))

\* The range of the bends stays as the last song event has set it.
MdiFresh(q) ==
  Derived(CmpDefaults(CmpRhythm(ComposerReset(q), TRUE)), MusReset @@ [tempo |-> 1])

MdiRewind == MayRewind("mdi", 0) /\ Rewound(0, MdiFresh(p))

MusVolume(q, v, volume) ==
  IF volume = q.volume[v] THEN q ELSE CmpVolume([q EXCEPT !.volume[v] = volume], v, volume)

\* A note off of IMS with a velocity is a note on.
MusEvent(q, e) ==
  CASE e.k = "on" -> IF e.vol = 0 THEN CmpNoteOff(q, e.voice)
                     ELSE CmpNoteOn(MusVolume(q, e.voice, e.vol), e.voice, e.arg)
    [] e.k = "off" -> LET off == CmpNoteOff(q, e.voice)
                      IN  IF song.IMS /\ e.vol > 0
                          THEN CmpNoteOn(MusVolume(off, e.voice, e.vol), e.voice, e.arg) ELSE off
    [] e.k = "touch" -> MusVolume(q, e.voice, e.vol)
    [] e.k = "program" -> CmpInstrument(q, e.voice, IF e.arg < song.timbres THEN e.arg ELSE DefaultTimbre)
    [] e.k = "bend" -> CmpBend(q, e.voice, e.arg)
    [] e.k = "tempo" -> [q EXCEPT !.tempo = e.arg]
    [] e.k \in {"stop", "other"} -> q

\* A note on of volume 0 is a note off, after which any volume is written.
MdiEvent(q, e) ==
  CASE e.k = "on" -> IF e.vol = 0 THEN [CmpNoteOff(q, e.voice) EXCEPT !.volume[e.voice] = 0]
                     ELSE CmpNoteOn(MusVolume(q, e.voice, e.vol), e.voice, e.arg)
    [] e.k = "off" -> CmpNoteOff(q, e.voice)
    [] e.k = "touch" -> MusVolume(q, e.voice, e.vol)
    [] e.k = "program" -> CmpInstrument(q, e.voice, e.arg)
    [] e.k = "bend" -> CmpBend(q, e.voice, e.arg)
    [] e.k = "tempo" -> [q EXCEPT !.tempo = e.arg]
    [] e.k = "rhythm" -> CmpRhythm(q, e.arg # 0)
    [] e.k = "range" -> CmpPitchRange(q, e.arg)
    [] e.k \in {"stop", "other"} -> q

\* A tick of the player: the delay is read when the last one is over.
MusWaits(q) ==
  [q EXCEPT !.ticks = IF q.counter = 0 THEN song.events[q.at].delay ELSE @, !.counter = @ + 1]

MusTick(format) ==
  /\ MayUpdate(format)
  /\ LET f == MusWaits(p)
     IN  IF f.counter < f.ticks THEN Updated(f, {}, ~f.songend)
         ELSE Within([f EXCEPT !.counter = 0], 1)

\* The events that follow each other without a delay are played at once.
MusStep(format, Event(_, _)) ==
  /\ In(format)
  /\ LET e == song.events[p.at]
         f == Event([p EXCEPT !.at = @ + 1], e)
         over == e.k = "stop" \/ p.at = Len(song.events)
     IN  IF over THEN Updated([f EXCEPT !.at = 1, !.songend = TRUE], {}, FALSE)
         ELSE IF song.events[f.at].delay = 0 THEN Within(f, pc)
         ELSE Updated(f, {}, ~f.songend)

MusUpdate == MusTick("mus") \/ MusStep("mus", MusEvent)
MdiUpdate == MusTick("mdi") \/ MusStep("mdi", MdiEvent)

----------------------------------------------------------------------------
(* Coktel Vision (coktel.cpp): events that may change an instrument while  *)
(* voices play it.  An update() after the end starts the song again.       *)

CoktelVoices == IF song.rhythm THEN ComposerVoices ELSE {v \in ComposerVoices : v < NumMelodic}

\* All that a rewind does; a parameter of an instrument that has been
\* modified is one of modified.
CoktelFresh(q) ==
  LET f == CmpRhythm(ComposerReset(q), song.rhythm)
  IN  Derived([f EXCEPT !.timbres =
                 [v \in ComposerVoices |-> IF v \in CoktelVoices THEN <<0, {}>> ELSE @[v]]],
              [at |-> 1, songend |-> FALSE, firstTick |-> FALSE, timbre |-> Each(ComposerVoices, 0),
               counter |-> 0, ticks |-> 0, modify |-> 255, modified |-> Each(0..(song.timbres - 1), {})])

CoktelRewind == MayRewind("coktel", 0) /\ Rewound(0, CoktelFresh(p))

CoktelModify(q, a) ==
  LET i == q.modify
      f == [q EXCEPT !.modified[i] = @ \union {a}]
      users == {v \in CoktelVoices : q.timbre[v] = i}
  IN  IF i = 255 \/ i >= song.timbres THEN q
      ELSE [f EXCEPT !.timbres = [v \in ComposerVoices |-> IF v \in users THEN <<i, f.modified[i]>> ELSE @[v]]]

CoktelTimbre(q, v, i) ==
  IF i >= song.timbres THEN q
  ELSE CmpInstrument([q EXCEPT !.timbre[v] = i], v, <<i, q.modified[i]>>)

CoktelEvent(q, e) ==
  CASE e.k = "timbre" -> [q EXCEPT !.modify = e.arg]
    [] e.k = "modify" -> CoktelModify(q, e.arg)
    [] e.k = "onvol" -> CmpNoteOn(CmpVolume(q, e.voice, e.vol), e.voice, e.arg)
    [] e.k = "on" -> CmpNoteOn(q, e.voice, e.arg)
    [] e.k = "off" -> CmpNoteOff(q, e.voice)
    [] e.k = "bend" -> CmpBend(q, e.voice, e.arg)
    [] e.k = "touch" -> CmpVolume(q, e.voice, e.vol)
    [] e.k = "program" -> CoktelTimbre(q, e.voice, e.arg)
    [] e.k = "stop" -> q

CoktelSize == Len(song.events) + 1
CoktelFirst == IF p.at < CoktelSize THEN p ELSE [CoktelFresh(p) EXCEPT !.songend = TRUE]

\* The first delay of the song is skipped.
CoktelTick ==
  /\ MayUpdate("coktel")
  /\ LET q == CoktelFirst
         delay == song.events[q.at].delay
         skip == delay > 0 /\ ~q.firstTick
         f == IF q.counter # 0 THEN q
              ELSE [q EXCEPT !.ticks = IF skip THEN 0 ELSE delay, !.firstTick = @ \/ skip]
         g == [f EXCEPT !.counter = @ + 1]
     IN  IF g.counter < g.ticks THEN Updated(g, {}, ~g.songend)
         ELSE Within([g EXCEPT !.counter = 0], 1)

CoktelStep ==
  /\ In("coktel")
  /\ LET e == song.events[p.at]
         q == CoktelEvent(p, e)
         f == [q EXCEPT !.at = IF e.k = "stop" THEN CoktelSize ELSE @ + 1]
     IN  IF f.at = CoktelSize THEN Updated(f, {}, FALSE)
         ELSE IF song.events[f.at].delay = 0 THEN Within(f, pc)
         ELSE Updated(f, {}, ~f.songend)

CoktelUpdate == CoktelTick \/ CoktelStep

----------------------------------------------------------------------------
ComposerRewind == RolRewind \/ MusRewind \/ MdiRewind \/ CoktelRewind
ComposerUpdate == RolUpdate \/ MusUpdate \/ MdiUpdate \/ CoktelUpdate
=============================================================================
