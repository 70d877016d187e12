----------------------------- MODULE ReplayXmi -----------------------------
(***************************************************************************)
(* Miles XMI (xmi.cpp): notes of MIDI channels get a slot each, and a      *)
(* voice of the chip or a pair of voices for a timbre of four operators.   *)
(* The timbres of a song fit the cache, so that none is ever evicted, and  *)
(* the beat count, which nothing reads, is left out.                       *)
(***************************************************************************)
EXTENDS ReplayGames

CONSTANTS XmiVoices,   \* 0..17 in the code
          XmiSlots,    \* 20 in the code
          XmiNotes     \* 1..32 in the code, the places of the note queue

XmiNest == 4

\* Pairs of voices start at the voices of op4_voice[].
XmiTwos == SetToSortSeq(XmiVoices, LAMBDA v, w : v < w)
XmiFours == SelectSeq(XmiTwos, LAMBDA v : v \in {0, 1, 2, 9, 10, 11} /\ v + 3 \in XmiVoices)

XmiTimbres == song.tracks[p.track].timbres

\* find_seq(): there is no track past the last, and rewind() takes the first.
XmiTrack(s) == IF s < Len(song.tracks) THEN s + 1 ELSE 1

\* install_sequence_timbres() installs what a track asks for, in that order; a
\* timbre that no bank has is the dummy, of two operators.
XmiIndex(timbres, bank, patch) ==
  LET S == {i \in DOMAIN timbres : timbres[i].bank = bank /\ timbres[i].patch = patch}
  IN  IF S = {} THEN Nobody ELSE Min(S)

XmiDefault == <<68, 48, 95, 78, 41, 3, 110, 122, Nobody, 0, 0, 0, 0, 0, 0, Nobody>>
XmiChannel(timbres, c) ==
  [bank |-> 0, program |-> XmiDefault[c + 1], timbre |-> XmiIndex(timbres, 0, XmiDefault[c + 1]),
   volume |-> 127, mod |-> 0, pan |-> 64, expression |-> 127, sustain |-> 0, bend |-> 8192]

\* Voice protection is neither set by the constructor nor by rewind().
XmiConstructed == {[vprot |-> Each(MidiChannels, Unset)]}

XmiFresh(s, q) ==
  LET timbres == song.tracks[XmiTrack(s)].timbres
  IN  [vprot |-> q.vprot, track |-> XmiTrack(s), pos |-> 1, interval |-> 0, done |-> FALSE,
       loops |-> <<>>, queue |-> Each(XmiNotes, Unset), slots |-> Each(XmiSlots, Unset),
       rover |-> [two |-> Len(XmiTwos), four |-> Len(XmiFours)], joined |-> {},
       chans |-> [c \in MidiChannels |-> XmiChannel(timbres, c)],
       chip |-> Each(XmiVoices, Unset)]

XmiRewind == \E s \in Subsongs : MayRewind("xmi", s) /\ Rewound(s, XmiFresh(s, p))

XmiPlaying(q, c) == {s \in XmiSlots : q.slots[s] # Unset /\ q.slots[s].chan = c}
XmiFour(x) == XmiTimbres[x.timbre].four
XmiPair(x) == IF x.voice = Nobody THEN {} ELSE IF XmiFour(x) THEN {x.voice, x.voice + 3} ELSE {x.voice}
XmiBusy(q) == UNION {XmiPair(q.slots[s]) : s \in {s \in XmiSlots : q.slots[s] # Unset}}

XmiVelocity(vel) == 82 + 3 * (vel \div 8)
XmiScale(a, b) == LET t == (a * b) \div 128 IN IF t = 0 THEN 0 ELSE t + 1

\* update_voice(): the registers of a slot's voices, those in what, and whether
\* the two of a pair are joined.
XmiRegisters == {"inst", "level", "pan", "vibrato", "freq", "on"}
XmiWrite(q, s, what) ==
  LET x == q.slots[s]
      c == q.chans[x.chan]
      now == [inst |-> x.timbre, level |-> XmiScale(XmiScale(c.volume, c.expression), x.velocity),
              pan |-> c.pan, vibrato |-> c.mod >= 64, freq |-> <<x.key, c.bend>>, on |-> TRUE]
  IN  IF x.voice = Nobody THEN q
      ELSE [q EXCEPT !.joined = IF XmiFour(x) THEN @ \union {x.voice} ELSE @ \ {x.voice, x.voice - 3},
                     !.chip = [v \in XmiVoices |->
                        IF v \in XmiPair(x) THEN [k \in XmiRegisters |-> IF k \in what THEN now[k] ELSE @[v][k]]
                        ELSE @[v]]]
XmiWriteAll(q, S, what) == FoldLeft(LAMBDA f, s : XmiWrite(f, s, what), q, SetToSeq(S))

\* assign_voice(): the next free one after the last that was given.  When there
\* is none the note stays unheard: update_priority() never finds it.
XmiAssign(q, s) ==
  LET kind == IF XmiFour(q.slots[s]) THEN "four" ELSE "two"
      order == IF kind = "four" THEN XmiFours ELSE XmiTwos
      at(i) == ((q.rover[kind] - 1 + i) % Len(order)) + 1
      needs(v) == IF kind = "four" THEN {v, v + 3} ELSE {v}
      free == {i \in DOMAIN order : needs(order[at(i)]) \intersect XmiBusy(q) = {}}
      next == at(Min(free))
  IN  IF free = {} THEN q
      ELSE XmiWrite([q EXCEPT !.rover[kind] = next, !.slots[s].voice = order[next]], s, XmiRegisters)

\* release_voice() and the end of the slot.
XmiFree(q, s) ==
  [q EXCEPT !.slots[s] = Unset,
            !.chip = [v \in XmiVoices |-> IF v \in XmiPair(q.slots[s]) THEN [@[v] EXCEPT !.on = FALSE] ELSE @[v]]]

\* yamaha_note_off(): every note of that key, or the pedal holds it.
XmiNoteOff(q, c, key) ==
  LET S == {s \in XmiPlaying(q, c) : q.slots[s].key = key}
  IN  IF q.chans[c].sustain < 64 THEN FoldLeft(XmiFree, q, SetToSeq(S))
      ELSE [q EXCEPT !.slots = [s \in XmiSlots |-> IF s \in S THEN [@[s] EXCEPT !.held = TRUE] ELSE @[s]]]

XmiNoteOn(q, c, key, vel) ==
  LET timbre == IF c = 9 THEN XmiIndex(XmiTimbres, 127, key) ELSE q.chans[c].timbre
      free == {s \in XmiSlots : q.slots[s] = Unset}
      s == Min(free)
      x == [chan |-> c, key |-> key, velocity |-> XmiVelocity(vel), timbre |-> timbre, held |-> FALSE, voice |-> Nobody]
  IN  IF timbre = Nobody \/ free = {} THEN q ELSE XmiAssign([q EXCEPT !.slots[s] = x], s)

\* The pedal is released: so are the notes it held.
XmiPedal(q, c) ==
  FoldLeft(LAMBDA f, key : XmiNoteOff(f, c, key), q,
           SetToSeq({q.slots[s].key : s \in {s \in XmiPlaying(q, c) : q.slots[s].held}}))

XmiControl(q, c, k, value) ==
  LET f == IF k \in DOMAIN q.chans[c] THEN [q EXCEPT !.chans[c][k] = value] ELSE q
      g == [q EXCEPT !.chans[c].mod = 0, !.chans[c].expression = 127, !.chans[c].sustain = 0, !.chans[c].bend = 8192]
      keys == {q.slots[s].key : s \in XmiPlaying(q, c)}
  IN  CASE k = "mod" -> XmiWriteAll(f, XmiPlaying(q, c), {"vibrato"})
        [] k = "pan" -> XmiWriteAll(f, XmiPlaying(q, c), {"pan"})
        [] k \in {"volume", "expression"} -> XmiWriteAll(f, XmiPlaying(q, c), {"level"})
        [] k = "bend" -> XmiWriteAll(f, XmiPlaying(q, c), {"freq"})
        [] k = "sustain" -> IF value < 64 THEN XmiPedal(f, c) ELSE f
        [] k = "vprot" -> [q EXCEPT !.vprot[c] = value]
        [] k = "reset" -> LET h == XmiPedal(g, c) IN XmiWriteAll(h, XmiPlaying(h, c), XmiRegisters)
        [] k = "alloff" -> FoldLeft(LAMBDA h, key : XmiNoteOff(h, c, key), q, SetToSeq(keys))
        [] k = "program" -> [f EXCEPT !.chans[c].timbre = XmiIndex(XmiTimbres, q.chans[c].bank, value)]
        [] OTHER -> f

\* A note and its length go to the first free place of the queue, or to the
\* first of all: the end of the note that was there is lost.
XmiQueue(q, e) ==
  LET free == {i \in XmiNotes : q.queue[i] = Unset}
      i == IF free = {} THEN Min(XmiNotes) ELSE Min(free)
  IN  XmiNoteOn([q EXCEPT !.queue[i] = [chan |-> e.chan, note |-> e.note, time |-> e.delay - 1]], e.chan, e.note, e.vel)

XmiEnd(q, i) == XmiNoteOff([q EXCEPT !.queue[i] = Unset], q.queue[i].chan, q.queue[i].note)

\* Only a note that is in the queue is ended by an event.
XmiUnqueue(q, e) ==
  LET S == {i \in XmiNotes : q.queue[i] # Unset /\ q.queue[i].chan = e.chan /\ q.queue[i].note = e.note}
  IN  IF S = {} THEN q ELSE XmiEnd(q, Min(S))

\* Loops nest XmiNest deep; a loop that is one too many is not seen, and its
\* end is taken for that of the loop around it.
XmiLoop(q, e) ==
  LET top == Head(q.loops)
  IN  CASE e.k = "for" -> IF Len(q.loops) = XmiNest THEN q
                          ELSE [q EXCEPT !.loops = <<[count |-> e.arg, start |-> q.pos]>> \o @]
        [] e.k = "next" -> IF e.arg < 64 \/ q.loops = <<>> THEN q
                           ELSE IF top.count <= 1 THEN [q EXCEPT !.loops = Tail(@)]
                           ELSE [q EXCEPT !.loops[1].count = @ - 1, !.pos = top.start]

\* The events up to the next wait, or to the end.
XmiEvents == song.tracks[p.track].events
XmiEvent(q, e) ==
  CASE e.k = "on" /\ e.vel > 0 -> XmiQueue(q, e)
    [] e.k = "off" \/ (e.k = "on" /\ e.vel = 0) -> XmiUnqueue(q, e)
    [] e.k \in {"for", "next"} -> XmiLoop(q, e)
    [] OTHER -> XmiControl(q, e.chan, e.k, e.arg)

XmiRun ==
  /\ In("xmi") /\ p.pos <= Len(XmiEvents)
  /\ LET e == XmiEvents[p.pos]
         f == [p EXCEPT !.pos = @ + 1]
     IN  CASE e.k = "wait" -> Updated([f EXCEPT !.interval = e.arg], {}, TRUE)
           [] e.k = "end" -> Updated([f EXCEPT !.done = TRUE], {}, FALSE)
           [] OTHER -> Within(XmiEvent(f, e), 1)

XmiOver ==
  /\ In("xmi") /\ p.pos > Len(XmiEvents)
  /\ Updated([p EXCEPT !.done = TRUE], {}, FALSE)

\* The notes of the queue get older, and end.
XmiAge(q) ==
  FoldLeft(LAMBDA f, i : IF f.queue[i] = Unset THEN f
                         ELSE IF f.queue[i].time <= 0 THEN XmiEnd(f, i)
                         ELSE [f EXCEPT !.queue[i].time = @ - 1], q, SetToSortSeq(XmiNotes, LAMBDA i, j : i < j))

\* A sequence that is done stays as it is.
XmiBegin ==
  /\ MayUpdate("xmi")
  /\ LET q == [XmiAge(p) EXCEPT !.interval = @ - 1]
     IN  CASE p.done -> Updated(p, {}, FALSE)
           [] ~p.done /\ q.interval > 0 -> Updated(q, {}, TRUE)
           [] OTHER -> Within(q, 1)

XmiUpdate == XmiBegin \/ XmiRun \/ XmiOver
============================================================================
