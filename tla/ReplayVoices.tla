---------------------------- MODULE ReplayVoices ----------------------------
(***************************************************************************)
(* Replayers whose voices go through a song each at its own pace: an order *)
(* list, a track or a stream of commands for each voice.  What the         *)
(* commands make of frequencies and levels is left out; on is the set of   *)
(* voices that are keyed on.                                               *)
(***************************************************************************)
EXTENDS ReplayStreams

CONSTANTS LdsPositions,  \* maxpos + 1
          LdsRows,       \* pattlen
          PatternRows,   \* rows of a pattern: 64 in the code
          WmTicks        \* ticks after which a song is over: 2000000 in the code

Each(S, value) == [v \in S |-> value]
InVoice(format, voices) == In(format) /\ pc \in voices
PastVoices(format, voices) == In(format) /\ pc \notin voices
Sounding(q, v) == [q EXCEPT !.on = @ \union {v}]
Silent(q, v) == [q EXCEPT !.on = @ \ {v}]

----------------------------------------------------------------------------
(* EdLib D00 (d00.cpp), versions 0 to 4.  The first effect of a channel's  *)
(* order list or pattern that is not complete is followed by the next one  *)
(* at once: reads is what the channel pc reads, an order or a sequence.    *)

D00Voices == DOMAIN song.subsongs[1]

\* A subsong the file does not have has all its tracks disabled.
D00Speed(s, v) == IF s < Len(song.subsongs) THEN song.subsongs[s + 1][v].speed ELSE 0

D00Fresh(s) ==
  [speed |-> [v \in D00Voices |-> D00Speed(s, v)],
   del |-> Each(D00Voices, 0), rhcnt |-> Each(D00Voices, 0),
   irhcnt |-> Each(D00Voices, 0), ordpos |-> Each(D00Voices, 0),
   pattpos |-> Each(D00Voices, 0), seqend |-> {}, songend |-> FALSE,
   on |-> {}, reads |-> "none", patt |-> 0]

D00Rewind ==
  \E s \in Subsongs : MayRewind("d00", s) /\ Rewound(s, D00Fresh(s))

D00Skip(q) == Within([q EXCEPT !.reads = "none"], pc + 1)
D00Over(q) == D00Skip([q EXCEPT !.seqend = @ \union {pc}])

D00Begin == Begin("d00")
InD00(reads) == InVoice("d00", D00Voices) /\ p.reads = reads

\* The delay between two rows is counted down to 0, or up to beyond 127.
D00Delayed == IF song.version < 3 THEN p.del[pc] # 0 ELSE p.del[pc] <= 127

D00Delay ==
  /\ InD00("none") /\ D00Delayed
  /\ \/ song.version < 3 /\ D00Skip([p EXCEPT !.del[pc] = @ - 1])
     \/ /\ song.version >= 3 /\ p.speed[pc] # 0
        /\ D00Skip([p EXCEPT !.del[pc] = Byte(@ + p.speed[pc])])
     \/ song.version >= 3 /\ p.speed[pc] = 0 /\ D00Over(p)

\* A row is due: it may be one of a rest or a note that is held.
D00Row ==
  /\ InD00("none") /\ ~D00Delayed
  /\ LET del == IF song.version < 3 THEN p.speed[pc]
                ELSE Byte((p.del[pc] % 128) + p.speed[pc])
         q == [p EXCEPT !.del[pc] = del]
     IN  IF p.speed[pc] = 0 THEN D00Over(p)
         ELSE IF p.rhcnt[pc] > 0 THEN D00Skip([q EXCEPT !.rhcnt[pc] = @ - 1])
         ELSE Within([q EXCEPT !.reads = "order"], pc)

D00List == song.subsongs[sub + 1][pc].order
D00Sequence(q, word) ==
  IF word.k = "seq" /\ word.arg \in DOMAIN song.sequences
  THEN Within([q EXCEPT !.reads = "seq", !.patt = word.arg], pc)
  ELSE D00Over(q)

\* After a speed the pattern is the one of the word before it.
D00Order ==
  /\ InD00("order")
  /\ LET at == p.ordpos[pc] + 1
         word == D00List[at]
         faster == [p EXCEPT !.speed[pc] = word.arg, !.ordpos[pc] = @ + 1]
         before == IF at > 1 THEN D00List[at - 1] ELSE [k |-> "seq", arg |-> 0]
     IN  \/ at > Len(D00List) /\ D00Over(p)
         \/ at <= Len(D00List) /\ word.k = "end" /\ D00Over(p)
         \/ /\ at <= Len(D00List) /\ word.k = "jump"
            /\ Within([p EXCEPT !.seqend = @ \union {pc}, !.ordpos[pc] = word.arg], pc)
         \/ at <= Len(D00List) /\ word.k = "speed" /\ D00Sequence(faster, before)
         \/ /\ at < Len(D00List) /\ word.k = "transpose"
            /\ D00Sequence([p EXCEPT !.ordpos[pc] = @ + 1], D00List[at + 1])
         \/ at = Len(D00List) /\ word.k = "transpose" /\ D00Over(p)
         \/ at <= Len(D00List) /\ word.k = "seq" /\ D00Sequence(p, word)

\* Version 0 takes the length of an event from the last duration effect.
D00Length(q, cnt) ==
  [q EXCEPT !.rhcnt[pc] = IF song.version = 0 THEN q.irhcnt[pc] ELSE cnt]

D00Event ==
  /\ InD00("seq")
  /\ LET seq == song.sequences[p.patt]
         over == p.pattpos[pc] >= Len(seq)
         e == seq[p.pattpos[pc] + 1]
         q == D00Length([p EXCEPT !.pattpos[pc] = @ + 1], e.cnt)
         more == D00Length(p, p.rhcnt[pc])
     IN  \/ /\ over
            /\ Within([more EXCEPT !.pattpos[pc] = 0, !.ordpos[pc] = @ + 1,
                                  !.reads = "order"], pc)
         \/ ~over /\ e.k = "rest" /\ D00Skip(Silent(q, pc))
         \/ ~over /\ e.k \in {"hold", "tie"} /\ D00Skip(q)
         \/ ~over /\ e.k = "note" /\ D00Skip(Sounding(q, pc))
         \/ ~over /\ e.k = "cut" /\ D00Skip(Sounding([q EXCEPT !.rhcnt[pc] = e.cnt], pc))
         \/ /\ ~over /\ e.k = "duration"
            /\ Within([more EXCEPT !.pattpos[pc] = @ + 1,
                                  !.irhcnt[pc] = IF song.version = 0 THEN e.cnt ELSE @], pc)
         \/ ~over /\ e.k = "effect" /\ Within([more EXCEPT !.pattpos[pc] = @ + 1], pc)

\* The song is over when all its channels are.
D00End ==
  /\ PastVoices("d00", D00Voices)
  /\ LET over == p.songend \/ p.seqend = D00Voices
     IN  Updated([p EXCEPT !.songend = over], {}, ~over)

D00Update ==
  \/ D00Begin \/ D00Delay \/ D00Row \/ D00Order \/ D00Event \/ D00End

----------------------------------------------------------------------------
(* LOUDNESS (lds.cpp): positions that give each channel a pattern, packed  *)
(* rows, notes that may wait.  rewind() does not reset tempo; the fade     *)
(* never sets hardfade and changes the volume only.                        *)

LdsVoices == DOMAIN song.chandelay
LdsConstructed(tune) == [pace : {tune.tempo}]

LdsFresh(q) ==
  [pace |-> q.pace, tempo_now |-> 3, playing |-> TRUE, songlooped |-> FALSE,
   pattplay |-> 0, posplay |-> 0, jumppos |-> 0,
   packpos |-> Each(LdsVoices, 0), packwait |-> Each(LdsVoices, 0),
   keycount |-> Each(LdsVoices, 0), chandelay |-> Each(LdsVoices, 0),
   keyoff |-> Each(LdsVoices, 0), glide |-> {}, on |-> {}]

LdsRewind == MayRewind("lds", 0) /\ Rewound(0, LdsFresh(p))

\* After a song has stopped update() does nothing.
LdsStopped == MayUpdate("lds") /\ ~p.playing /\ Updated(p, {}, FALSE)

\* playsound(): a note that is glided to leaves the voice as it is.
LdsPlay(q, v, keyoff) ==
  IF v \in q.glide THEN [q EXCEPT !.glide = @ \ {v}]
  ELSE [q EXCEPT !.on = @ \union {v}, !.keycount[v] = keyoff]

LdsWaiting(q, v) ==
  CASE q.chandelay[v] = 0 -> q
    [] q.chandelay[v] = 1 -> LdsPlay([q EXCEPT !.chandelay[v] = 0], v, q.keyoff[v])
    [] q.chandelay[v] > 1 -> [q EXCEPT !.chandelay[v] = @ - 1]

\* q.break holds only within a row.
LdsCommand(q, v, e) ==
  CASE e.k = "wait"   -> [q EXCEPT !.packwait[v] = e.arg]
    [] e.k = "tempo"  -> [q EXCEPT !.pace = e.arg]
    [] e.k = "stop"   -> [q EXCEPT !.playing = FALSE]
    [] e.k = "keyoff" -> [q EXCEPT !.keycount[v] = 1]
    [] e.k = "glide"  -> [q EXCEPT !.glide = @ \union {v}]
    [] e.k = "break"  -> [q EXCEPT !.break = TRUE,
                                   !.jumppos = (q.posplay + 1) % LdsPositions]
    [] e.k = "jump"   -> [q EXCEPT !.break = TRUE, !.jumppos = e.arg % LdsPositions,
                                   !.songlooped = @ \/ e.arg % LdsPositions < q.posplay]
    [] e.k = "note" /\ song.chandelay[v] = 0 -> LdsPlay(q, v, e.arg)
    [] e.k = "note" /\ song.chandelay[v] > 0 ->
         [q EXCEPT !.chandelay[v] = song.chandelay[v], !.keyoff[v] = e.arg]
    [] OTHER -> q

LdsWord(q, v) ==
  LET pattern == song.positions[q.posplay + 1][v]
      at == q.packpos[v] + 1
      word == IF at <= Len(pattern) THEN pattern[at] ELSE [k |-> "wait", arg |-> 1]
  IN  IF q.packwait[v] > 0 THEN [q EXCEPT !.packwait[v] = @ - 1]
      ELSE [LdsCommand(q, v, word) EXCEPT !.packpos[v] = @ + 1]

\* The position after a row.
LdsNext(q) ==
  LET turned == q.break \/ q.pattplay + 1 >= LdsRows
  IN  [q EXCEPT !.tempo_now = q.pace,
                !.pattplay = IF turned THEN 0 ELSE @ + 1,
                !.packpos  = IF turned THEN Each(LdsVoices, 0) ELSE @,
                !.packwait = IF turned THEN Each(LdsVoices, 0) ELSE @,
                !.posplay  = IF q.break THEN q.jumppos
                             ELSE IF turned THEN (@ + 1) % LdsPositions ELSE @]

LdsKeys(q, v) ==
  IF q.keycount[v] = 0 THEN q
  ELSE [q EXCEPT !.keycount[v] = @ - 1, !.on = IF q.keycount[v] = 1 THEN @ \ {v} ELSE @]

LdsOver(Op(_, _), q) == FoldLeft(Op, q, [v \in LdsVoices |-> v])

LdsTick ==
  /\ MayUpdate("lds")
  /\ p.playing
  /\ LET q == LdsOver(LdsWaiting, p)
         row == LdsNext(LdsOver(LdsWord, q @@ [break |-> FALSE]))
         r == IF q.tempo_now = 0 THEN [f \in DOMAIN p |-> row[f]]
              ELSE [q EXCEPT !.tempo_now = @ - 1]
         s == LdsOver(LdsKeys, r)
     IN  Updated(s, IF q.tempo_now = 0 THEN {<<q.posplay, q.pattplay>>} ELSE {},
                 s.playing /\ ~s.songlooped)

LdsUpdate == LdsStopped \/ LdsTick

----------------------------------------------------------------------------
(* PALLADIX (plx.cpp): a stream for each channel that starts again at its  *)
(* end.  update() returns FALSE on the ticks on which one does.            *)

PlxVoices == DOMAIN song.streams
PlxConstructed(tune) == [rate : {tune.speed}]

PlxFresh(q) ==
  [offset |-> Each(PlxVoices, 1), pos |-> Each(PlxVoices, 0),
   songpos |-> 0, rate |-> q.rate, on |-> {}]

PlxRewind == MayRewind("plx", 0) /\ Rewound(0, PlxFresh(p))

\* A command sets what its flags say and ends with the time to the next one.
PlxCommand(q, v, e) ==
  LET keyed == IF "off" \in e.flags THEN Silent(q, v) ELSE q
      r == IF "on" \in e.flags THEN Sounding(keyed, v) ELSE keyed
  IN  [r EXCEPT !.rate = IF "speed" \in e.flags THEN e.arg ELSE @,
                !.pos[v] = @ + e.skip, !.offset[v] = @ + 1]

PlxVoice(a, v) ==
  LET stream == song.streams[v]
      q == a.q
  IN  CASE q.songpos < q.pos[v] -> a
        [] q.songpos >= q.pos[v] /\ q.offset[v] > Len(stream) ->
             [q |-> Silent([q EXCEPT !.offset[v] = 1], v), over |-> TRUE]
        [] q.songpos >= q.pos[v] /\ q.offset[v] <= Len(stream) ->
             [a EXCEPT !.q = PlxCommand(q, v, stream[q.offset[v]])]

PlxUpdate ==
  /\ MayUpdate("plx")
  /\ LET a == FoldLeft(PlxVoice, [q |-> p, over |-> FALSE], [v \in PlxVoices |-> v])
     IN  Updated([a.q EXCEPT !.songpos = @ + 1], {}, ~a.over)

----------------------------------------------------------------------------
(* Note Sequencer SOP (sop.cpp): timed events of a track for each voice,   *)
(* and of a control track, the last one.  It does not start again.         *)

SopTracks == DOMAIN song.tracks
SopControl == Len(song.tracks)

SopFresh ==
  [at |-> Each(SopTracks, 1), counter |-> Each(SopTracks, 0),
   ticks |-> Each(SopTracks, 0), dur |-> Each(SopTracks, 0),
   tempo |-> song.tempo, songend |-> FALSE, over |-> TRUE, on |-> {},
   reads |-> FALSE]

SopRewind == MayRewind("sop", 0) /\ Rewound(0, SopFresh)

SopBegin == MayUpdate("sop") /\ Within([p EXCEPT !.over = TRUE], 1)

\* A note that ends, and the wait for the track's next event; the first one
\* is due a tick late.
SopCount ==
  /\ InVoice("sop", SopTracks) /\ ~p.reads
  /\ LET t == pc
         ended == p.dur[t] = 1
         q == [p EXCEPT !.dur[t] = IF @ > 0 THEN @ - 1 ELSE 0,
                        !.on = IF ended THEN @ \ {t} ELSE @,
                        !.over = @ /\ p.dur[t] = 0 /\ p.at[t] > Len(song.tracks[t])]
         delay == song.tracks[t][p.at[t]].ticks
         ticks == IF p.counter[t] > 0 THEN p.ticks[t]
                  ELSE IF p.at[t] = 1 /\ delay > 0 THEN delay + 1 ELSE delay
         r == [q EXCEPT !.ticks[t] = ticks, !.counter[t] = @ + 1]
     IN  IF p.at[t] > Len(song.tracks[t]) THEN Within(q, t + 1)
         ELSE IF p.counter[t] + 1 < ticks THEN Within(r, t + 1)
         ELSE Within([r EXCEPT !.counter[t] = 0, !.reads = TRUE], t)

SopCommand(t, e) ==
  CASE e.k = "note" ->
         [p EXCEPT !.dur[t] = e.arg,
                   !.on = IF t # SopControl /\ e.arg > 0 THEN @ \union {t} ELSE @]
    [] e.k = "tempo" /\ t = SopControl ->
         [p EXCEPT !.tempo = IF e.arg = 0 THEN song.tempo ELSE e.arg]
    [] OTHER -> p

\* The events of a track up to one that is not due at once.
SopEvent ==
  /\ InVoice("sop", SopTracks) /\ p.reads
  /\ LET t == pc
         track == song.tracks[t]
         at == p.at[t] + 1
         q == [SopCommand(t, track[p.at[t]]) EXCEPT !.at[t] = at]
     IN  IF at <= Len(track) /\ track[at].ticks = 0 THEN Within(q, t)
         ELSE Within([q EXCEPT !.reads = FALSE], t + 1)

SopEnd ==
  /\ PastVoices("sop", SopTracks)
  /\ Updated([p EXCEPT !.songend = p.over], {}, ~p.over)

SopUpdate == SopBegin \/ SopCount \/ SopEvent \/ SopEnd

----------------------------------------------------------------------------
(* SoundFX Macs Opera (cmfmcsop.cpp): events of a pattern in the order of  *)
(* their rows, note 1 breaks the pattern and note 4 is a key off.  At its  *)
(* end the song starts again, and songDone stays TRUE until rewind().      *)

\* The row after q's; the song is over when its orders are.
McsAdvance(q) ==
  LET row == q.row + 1
      Events(o) == song.patterns[song.orders[o]]
      later == {o \in q.order + 1 .. Len(song.orders) :
                  song.orders[o] \in DOMAIN song.patterns \union {99}}
      order == IF row < PatternRows THEN q.order ELSE Min(later \union {Len(song.orders) + 1})
      starts == [q EXCEPT !.order = order, !.row = 0, !.index = 1]
      next == IF row < PatternRows THEN [q EXCEPT !.row = row] ELSE starts
      over == order > Len(song.orders) \/ song.orders[order] = 99
      events == Events(order)
      broken == /\ next.index <= Len(events)
                /\ events[next.index].row = next.row /\ events[next.index].note = "break"
  IN  CASE over -> [q |-> starts, more |-> FALSE]
        [] ~over /\ broken -> [q |-> [next EXCEPT !.row = PatternRows], more |-> TRUE]
        [] ~over /\ ~broken -> [q |-> [next EXCEPT !.reads = TRUE], more |-> TRUE]

McsReset(q) == [q EXCEPT !.row = PatternRows, !.order = 0, !.reads = FALSE]
McsStart == [row |-> PatternRows, order |-> 0, index |-> 1, songDone |-> FALSE,
             reads |-> FALSE, on |-> {}]

\* advanceRow() again and again, past the patterns that break at once.
McsRow[q \in [row : 0..PatternRows, order : Nat, index : Nat, songDone : BOOLEAN,
              reads : BOOLEAN, on : SUBSET Nat]] ==
  LET a == McsAdvance(q)
  IN  IF ~a.more \/ a.q.reads THEN [a EXCEPT !.q.reads = FALSE] ELSE McsRow[a.q]

McsFresh == McsRow[McsStart].q

McsRewind == MayRewind("cmfmcsop", 0) /\ Rewound(0, McsFresh)

McsNote(q, e) ==
  IF e.note = "key" THEN Sounding(q, e.voice) ELSE Silent(q, e.voice)

McsUpdate ==
  /\ MayUpdate("cmfmcsop")
  /\ LET events == song.patterns[song.orders[p.order]]
         stop == Min({Len(events) + 1} \union
                     {i \in p.index .. Len(events) : events[i].row # p.row})
         q == [FoldLeft(McsNote, p, SubSeq(events, p.index, stop - 1)) EXCEPT !.index = stop]
         a == McsRow[q]
         r == IF a.more THEN a.q ELSE [McsRow[McsReset(a.q)].q EXCEPT !.songDone = TRUE]
     IN  Updated(r, {<<p.order, p.row>>}, ~r.songDone)

----------------------------------------------------------------------------
(* Beni Tracker PIS (pis.cpp): a pattern for each voice at every position. *)

PisFresh ==
  [is_playing |-> TRUE, speed |-> 6, count |-> 5, position |-> 0, row |-> 0,
   position_jump |-> -1, pattern_break |-> -1, loop_start_row |-> 0,
   loop_count |-> 0, loop_flag |-> FALSE, on |-> {}]

PisRewind == MayRewind("pis", 0) /\ Rewound(0, PisFresh)

\* A loop sets the row before the one that advance_row() goes on to.
PisLoop(q, times) ==
  LET first == ~q.loop_flag
      count == (IF first THEN times ELSE q.loop_count) - 1
  IN  CASE times = 0 /\ first -> [q EXCEPT !.loop_start_row = q.row]
        [] times = 0 /\ ~first -> q
        [] times > 0 /\ count >= 0 ->
             [q EXCEPT !.loop_flag = TRUE, !.loop_count = count, !.row = q.loop_start_row - 1]
        [] times > 0 /\ count < 0 -> [q EXCEPT !.loop_flag = FALSE, !.loop_count = count]

\* A note sounds until the voice's next one.
PisEvent(q, e) ==
  CASE e.k = "note"  -> Sounding(q, e.voice)
    [] e.k = "jump"  -> [q EXCEPT !.position_jump = e.arg]
    [] e.k = "break" -> [q EXCEPT !.pattern_break = e.arg]
    [] e.k = "loop"  -> PisLoop(q, e.arg)
    [] e.k = "speed" -> IF e.arg > 0 THEN [q EXCEPT !.speed = e.arg]
                        ELSE [q EXCEPT !.is_playing = FALSE]

\* The position after q's, the first one after the last: the song is over.
PisNext(q, row) ==
  LET over == q.position + 1 = Len(song.positions)
  IN  [q EXCEPT !.position = IF over THEN 0 ELSE @ + 1, !.row = row,
                !.pattern_break = -1, !.is_playing = @ /\ ~over]

\* A position jump is taken as the end of the song.
PisAdvance(q) ==
  CASE q.position_jump >= 0 ->
         [q EXCEPT !.position = q.position_jump, !.is_playing = FALSE, !.position_jump = -1,
                   !.row = IF q.pattern_break = -1 THEN 0 ELSE q.pattern_break,
                   !.pattern_break = -1]
    [] q.position_jump < 0 /\ q.pattern_break >= 0 -> PisNext(q, q.pattern_break)
    [] q.position_jump < 0 /\ q.pattern_break < 0 /\ q.row + 1 = PatternRows -> PisNext(q, 0)
    [] q.position_jump < 0 /\ q.pattern_break < 0 /\ q.row + 1 # PatternRows ->
         [q EXCEPT !.row = @ + 1]

PisStopped == MayUpdate("pis") /\ ~p.is_playing /\ Updated(p, {}, FALSE)

PisWait ==
  /\ MayUpdate("pis")
  /\ p.is_playing /\ p.count + 1 < p.speed
  /\ Updated([p EXCEPT !.count = @ + 1], {}, TRUE)

PisRow ==
  /\ MayUpdate("pis")
  /\ p.is_playing /\ p.count + 1 >= p.speed
  /\ LET events == song.positions[p.position + 1][p.row + 1]
         q == [PisAdvance(FoldLeft(PisEvent, p, events)) EXCEPT !.count = 0]
     IN  Updated(q, {<<p.position, p.row, p.loop_flag, p.loop_count>>}, q.is_playing)

PisUpdate == PisStopped \/ PisWait \/ PisRow

----------------------------------------------------------------------------
(* Wacky Wheels WM (wm.cpp): a stream for each voice, with loops counted   *)
(* in the stream itself, which rewind() copies, and on a stack.  The song  *)
(* is over when each voice has ended or jumped back.  A stack operation on *)
(* an empty stack, which leaves its operands in the stream, and a byte     *)
(* jump out of it, which nothing checks, are left out.                     *)

WmVoices == DOMAIN song.streams

WmFresh ==
  [work |-> song.streams, at |-> Each(WmVoices, 1), note |-> Each(WmVoices, 0),
   flags |-> Each(WmVoices, {"active"}), wait |-> Each(WmVoices, 1),
   ties |-> Each(WmVoices, 0), factor |-> Each(WmVoices, 4),
   stack |-> Each(WmVoices, <<>>), looped |-> {}, tickCount |-> 0,
   songEnded |-> FALSE, any |-> FALSE, reads |-> FALSE]

WmRewind == MayRewind("wm", 0) /\ Rewound(0, WmFresh)

WmEnded == MayUpdate("wm") /\ p.songEnded /\ Updated(p, {}, FALSE)
WmBegin == MayUpdate("wm") /\ ~p.songEnded /\ Within([p EXCEPT !.any = FALSE], 1)

\* channelNoteOff(): a voice that is keyed on is keyed off.
WmOff(q, v) ==
  [q EXCEPT !.flags[v] = IF "key" \in @ THEN @ \ {"key", "start", "tie"} ELSE @]

\* frequencyUpdate() ends a voice's tick.
WmDone(q, playing) ==
  Within([q EXCEPT !.flags[pc] = IF {"active", "start"} \subseteq @
                                 THEN (@ \ {"start"}) \union {"key"} ELSE @,
                   !.any = @ \/ playing, !.reads = FALSE], pc + 1)

WmInactive ==
  /\ InVoice("wm", WmVoices) /\ "active" \notin p.flags[pc] /\ Within(p, pc + 1)

\* A note is keyed off its ties before its end, unless it is tied.
WmWait ==
  /\ InVoice("wm", WmVoices) /\ "active" \in p.flags[pc] /\ ~p.reads
  /\ LET f == p.flags[pc]
         w == p.wait[pc]
         off == "key" \in f /\ "tie" \notin f /\ w = p.ties[pc]
         q == [(IF off THEN WmOff(p, pc) ELSE p) EXCEPT !.wait[pc] = IF w > 0 THEN w - 1 ELSE 0]
         tied == [q EXCEPT !.flags[pc] = (@ \ {"tie"}) \union {"hold"}]
         untied == WmOff([q EXCEPT !.flags[pc] = @ \ {"hold"}], pc)
     IN  IF w > 1 THEN WmDone(q, TRUE)
         ELSE Within([(IF "tie" \in q.flags[pc] THEN tied ELSE untied) EXCEPT !.reads = TRUE], pc)

WmNote(q, e) ==
  LET f == IF e.note = q.note[pc] THEN q.flags[pc] ELSE q.flags[pc] \ {"hold"}
      ties == IF q.factor[pc] = 0 THEN 1
              ELSE Max({1, e.dur - ((e.dur * q.factor[pc]) \div 8)})
  IN  [q EXCEPT !.note[pc] = e.note, !.wait[pc] = e.dur,
                !.ties[pc] = IF "tie" \in f THEN @ ELSE ties,
                !.flags[pc] = IF "hold" \in f THEN f ELSE f \union {"start", "key"}]

\* Jumps: at once; counted in the stream; on the top of the stack.
WmJump(q, e) ==
  LET v == pc
      st == q.stack[v]
      top == Last(st)
      Go(r) == [r EXCEPT !.at[v] = e.to]
      Pop(r) == [r EXCEPT !.stack[v] = Front(st)]
      Put(r, value) == [r EXCEPT !.stack[v] = Append(Front(st), value)]
  IN  CASE e.k = "jump" ->
             Go([q EXCEPT !.looped = IF e.to <= p.at[v] THEN @ \union {v} ELSE @])
        [] e.k = "repeat" /\ e.arg = 0 -> q
        [] e.k = "repeat" /\ e.arg > 0 ->
             LET r == [q EXCEPT !.work[v][p.at[v]].arg = @ - 1]
             IN  IF e.arg > 1 THEN Go(r) ELSE r
        [] e.k = "push" -> IF Len(st) < 15 THEN [q EXCEPT !.stack[v] = Append(st, e.arg)] ELSE q
        [] e.k = "leave" -> IF top = 1 THEN Pop(Go(q)) ELSE q
        [] e.k = "loop" ->
             LET value == (top + 255) % 256
             IN  IF value = 0 THEN Pop(q) ELSE Go(Put(q, value))

WmEvent ==
  /\ InVoice("wm", WmVoices) /\ "active" \in p.flags[pc] /\ p.reads
  /\ LET stream == p.work[pc]
         over == p.at[pc] > Len(stream)
         e == stream[p.at[pc]]
         q == [p EXCEPT !.at[pc] = @ + 1]
         ends == [q EXCEPT !.flags[pc] = @ \ {"active"}]
     IN  CASE over -> WmDone([p EXCEPT !.flags[pc] = @ \ {"active"}], FALSE)
           [] ~over /\ e.k = "end" -> WmDone(WmOff(ends, pc), FALSE)
           [] ~over /\ e.k = "note" -> WmDone(WmNote(q, e), TRUE)
           [] ~over /\ e.k = "slide" ->
                WmDone([q EXCEPT !.wait[pc] = e.dur, !.ties[pc] = 0,
                                 !.flags[pc] = (@ \ {"key"}) \union {"start"}], TRUE)
           [] ~over /\ e.k = "rest" ->
                WmDone([q EXCEPT !.wait[pc] = e.dur, !.flags[pc] = @ \ {"key", "start", "tie"}], TRUE)
           [] ~over /\ e.k = "tie" -> Within([q EXCEPT !.flags[pc] = @ \union {"tie"}], pc)
           [] ~over /\ e.k = "inst" -> Within([q EXCEPT !.flags[pc] = @ \ {"hold"}], pc)
           [] ~over /\ e.k = "ties" -> Within([q EXCEPT !.factor[pc] = e.arg % 8], pc)
           [] OTHER -> Within(WmJump(q, e), pc)

WmEnd ==
  /\ PastVoices("wm", WmVoices)
  /\ LET looped == \A v \in WmVoices : "active" \in p.flags[v] => v \in p.looped
         ticks == IF p.any /\ ~looped THEN p.tickCount + 1 ELSE p.tickCount
         over == ~p.any \/ looped \/ ticks > WmTicks
     IN  Updated([p EXCEPT !.songEnded = over, !.tickCount = ticks], {}, ~over)

WmUpdate == WmEnded \/ WmBegin \/ WmInactive \/ WmWait \/ WmEvent \/ WmEnd

----------------------------------------------------------------------------
VoiceRewind ==
  D00Rewind \/ LdsRewind \/ PlxRewind \/ SopRewind \/ McsRewind \/ PisRewind \/ WmRewind
VoiceUpdate ==
  D00Update \/ LdsUpdate \/ PlxUpdate \/ SopUpdate \/ McsUpdate \/ PisUpdate \/ WmUpdate
=============================================================================
