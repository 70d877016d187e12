------------------------------ MODULE ReplayRad ------------------------------
(***************************************************************************)
(* Reality ADlib Tracker, versions 1 and 2.1 (rad2.cpp).  Beside the lines *)
(* of the song's patterns a channel plays two riffs, small tracks of their *)
(* own: one that an effect starts and one that its instrument brings       *)
(* along.  Their notes may start riffs again.  A track is the sequence of  *)
(* the lines that are left of it; a line has its number, at, and its       *)
(* notes.  Volumes, slides, transposition and levels are left out.         *)
(***************************************************************************)
EXTENDS ReplayAdl

RadChannels == 0..1    \* 0..8 in the code
RadRiffs == RadChannels \X {"riff", "iriff"}

Between(i, low, high) == low <= i /\ i <= high

\* RADCheckPattern(): the channels of the lines of a pattern, numbers of
\* instruments, and parameters.
RadPatternValid(track, riff) ==
  \A i \in DOMAIN track :
    /\ track[i].at < PatternRows
    /\ \A j \in DOMAIN track[i].notes :
         LET e == track[i].notes[j]
         IN  /\ riff \/ e.chan \in RadChannels
             /\ e.inst = 0 \/ Between(e.inst, -1, 127)
             /\ e.arg <= 99

\* RADValidate(): load() refuses anything else.  It does not look for what
\* the numbers name.
RadValid(tune) ==
  /\ \A i \in DOMAIN tune.orders :
       tune.orders[i] < (IF tune.orders[i] >= 128 THEN 128 + Len(tune.orders)
                         ELSE IF tune.version >= 2 THEN 100 ELSE 32)
  /\ \A i \in DOMAIN tune.insts : RadPatternValid(tune.insts[i].riff, FALSE)
  /\ \A i \in DOMAIN tune.patterns : RadPatternValid(tune.patterns[i], FALSE)
  /\ \A i \in DOMAIN tune.riffs : RadPatternValid(tune.riffs[i], TRUE)

\* Init(): Speed is the only field of these that Stop() keeps, for the riffs
\* it only stops.
RadConstructed(tune) ==
  IF RadValid(tune)
  THEN [Speed : {tune.speed}, riffs : {[k \in RadRiffs |-> Unset]}]
  ELSE {}

\* GetTrack(): a marker leads to the order it names, once.
RadTrack(q) ==
  LET first == IF q.order >= Len(song.orders) THEN 0 ELSE q.order
      entry == song.orders[first + 1]
      order == IF entry >= 128 THEN entry - 128 ELSE first
      number == song.orders[order + 1] % 128
  IN  [q EXCEPT !.order = order,
                !.repeating = @ \/ order \in q.orderMap,
                !.orderMap = @ \union {order},
                !.track = IF number \in DOMAIN song.patterns THEN song.patterns[number] ELSE <<>>]

\* SkipToLine(): from the first line with that number or a higher one.
SkipToLine(track, line) ==
  LET later == {i \in DOMAIN track : track[i].at >= line}
  IN  IF later = {} THEN <<>> ELSE SubSeq(track, Min(later), Len(track))

\* Stop()
RadFresh(q) ==
  RadTrack([order |-> 0, line |-> 0, track |-> <<>>, Speed |-> q.Speed,
            speedCnt |-> 1, orderMap |-> {}, repeating |-> FALSE,
            jump |-> Unset, entrances |-> 0, last |-> Each(RadChannels, 0),
            inst |-> Each(RadChannels, 0), flags |-> Each(RadChannels, {}),
            riffCnt |-> Each(RadRiffs, 0), riffs |-> q.riffs, busy |-> {}])

RadRewind == MayRewind("rad", 0) /\ Rewound(0, RadFresh(p))

NoRiff == <<>>
RadInst(number) ==
  IF number \in DOMAIN song.insts THEN song.insts[number]
  ELSE [midi |-> FALSE, riff |-> NoRiff, speed |-> 0]

\* Whether the instrument of a note starts its riff; one that its own riff
\* names does not start it again.
StartsRiff(q, c, e, src) ==
  /\ e.inst # 0 /\ ~RadInst(e.inst).midi
  /\ RadInst(e.inst).riff # NoRiff /\ RadInst(e.inst).speed > 0
  /\ src = "iriff" => q.inst[c] # e.inst
ChannelRiff(e) ==
  IF e.fx \in {"riff", "transpose"} /\ e.arg \in DOMAIN song.riffs THEN song.riffs[e.arg]
  ELSE NoRiff

\* PlayNoteOPL3()
RadKeys(flags, note) ==
  LET off == IF note = "off" THEN flags \union {"off"} ELSE flags
      cut == IF "off" \in off THEN off \ {"off", "keyedOn"} ELSE off
  IN  IF note = "key" /\ "on" \in cut THEN (cut \ {"on"}) \union {"keyedOn"} ELSE cut

\* The effects a note ends with, of the line or of the riff it is read from.
RadEffect(q, c, e, src) ==
  CASE e.fx = "speed" /\ src = "line" -> [q EXCEPT !.Speed = e.arg, !.speedCnt = e.arg]
    [] e.fx = "speed" /\ src # "line" ->
         [q EXCEPT !.riffs[<<c, src>>].speed = e.arg, !.riffCnt[<<c, src>>] = e.arg]
    [] e.fx = "jump" /\ src = "line" /\ e.arg < PatternRows -> [q EXCEPT !.jump = e.arg]
    [] OTHER -> q

\* A riff that starts does its first tick at once: tick is TickRiff(), which
\* calls all of these.
RadStart(tick, q, k, track, speed) ==
  tick[<<[q EXCEPT !.riffCnt[k] = 1,
                   !.riffs[k] = [track |-> track, start |-> track, line |-> 0,
                                 speed |-> speed, last |-> 0]], k>>]

RadInstrument(tick, q, c, e, src) ==
  LET inst == RadInst(e.inst)
      k == <<c, "iriff">>
      loaded == [q EXCEPT !.inst[c] = e.inst, !.flags[c] = @ \union {"on", "off"}]
  IN  CASE e.inst = 0 -> q
        [] e.inst # 0 /\ inst.midi -> [q EXCEPT !.inst[c] = 0]
        [] StartsRiff(q, c, e, src) -> RadStart(tick, loaded, k, inst.riff, inst.speed)
        [] e.inst # 0 /\ ~inst.midi /\ src = "iriff" /\ q.inst[c] = e.inst -> loaded
        [] OTHER -> [loaded EXCEPT !.riffCnt[k] = 0]

RadRiff(tick, q, c, e) ==
  LET k == <<c, "riff">>
  IN  CASE e.fx \notin {"riff", "transpose"} -> q
        [] ChannelRiff(e) # NoRiff -> RadStart(tick, q, k, ChannelRiff(e), q.Speed)
        [] OTHER -> [q EXCEPT !.riffCnt[k] = 0]

\* PlayNote(), not more than eight at a time: a note that is a slide's
\* target, or a riff's transposition, is not played.
RadPlay(tick, q, c, e, src) ==
  LET transposing == /\ e.note = "key"
                     /\ \/ StartsRiff(q, c, e, src)
                        \/ e.fx = "transpose" /\ ChannelRiff(e) # NoRiff
      entered == [q EXCEPT !.entrances = @ + 1]
      started == RadRiff(tick, RadInstrument(tick, entered, c, e, src), c, e)
      played == IF transposing \/ e.note = "none" THEN started
                ELSE [started EXCEPT !.flags[c] = RadKeys(@, e.note)]
  IN  IF q.entrances >= 8 \/ e.fx = "tone" THEN q
      ELSE [RadEffect(played, c, e, src) EXCEPT !.entrances = @ - 1]

\* UnpackNote(): -1 stands for the instrument before.
RadNote(tick, q, c, e, src) ==
  LET last == IF src = "line" THEN q.last[c] ELSE q.riffs[<<c, src>>].last
      inst == IF e.inst = -1 THEN last ELSE e.inst
      kept == IF e.inst > 0 THEN e.inst ELSE last
      r == IF src = "line" THEN [q EXCEPT !.last[c] = kept]
           ELSE [q EXCEPT !.riffs[<<c, src>>].last = kept]
  IN  RadPlay(tick, r, c, [e EXCEPT !.inst = inst], src)

\* The line of a riff that is due.  busy are the riffs that nothing has ticked
\* since; one that has been is another riff now, and goes its own way.
RadRiffLine(tick, q, k) ==
  LET c == k[1]
      notes == Head(q.riffs[k].track).notes
      heard == IF k[2] = "riff" THEN <<notes[1]>> ELSE notes
      played[i \in 0..Len(heard)] ==
        IF i = 0 THEN [q EXCEPT !.busy = @ \union {k}]
        ELSE RadNote(tick, played[i - 1], c, heard[i], k[2])
  IN  played[Len(heard)]

\* A jump in the first note of the next line is run ahead of it.
RadAhead(q, k) ==
  LET riff == q.riffs[k]
      e == Head(riff.track).notes[1]
  IN  IF /\ riff.track # <<>> /\ Head(riff.track).at = riff.line
         /\ e.fx = "jump" /\ e.arg < PatternRows
      THEN [q EXCEPT !.riffs[k].line = e.arg,
                     !.riffs[k].track = SkipToLine(riff.start, e.arg)]
      ELSE q

\* What TickRiff() may be called with.
RadNotes == [chan : Nat, note : {"none", "off", "key"}, inst : Int, fx : STRING, arg : Nat]
RadLines == Seq([at : Nat, notes : Seq(RadNotes)])
RadPlaying == [track : RadLines, start : RadLines, line : Nat, speed : Nat, last : Nat]
RadStates ==
  [order : Nat, line : Nat, track : RadLines, Speed : Nat, speedCnt : Nat, orderMap : SUBSET Nat,
   repeating : BOOLEAN, jump : Nat \union {Unset}, entrances : 0..8, last : [RadChannels -> Nat],
   inst : [RadChannels -> Nat], flags : [RadChannels -> SUBSET {"on", "off", "keyedOn"}],
   riffCnt : [RadRiffs -> Nat], riffs : [RadRiffs -> RadPlaying \union {Unset}], busy : SUBSET RadRiffs]

\* TickRiff()
RadTick[x \in RadStates \X RadRiffs] ==
  LET q == x[1]
      k == x[2]
      riff == q.riffs[k]
      line == riff.line + 1
      due == [q EXCEPT !.riffCnt[k] = IF line >= PatternRows THEN 0 ELSE riff.speed,
                       !.riffs[k].line = line, !.busy = @ \ {k}]
      played == RadRiffLine(RadTick, due, k)
      after == [played EXCEPT !.busy = @ \ {k}, !.riffs[k].track = Tail(riff.track)]
  IN  CASE q.riffCnt[k] = 0 -> [q EXCEPT !.busy = @ \ {k}]
        [] q.riffCnt[k] > 1 -> [q EXCEPT !.busy = @ \ {k}, !.riffCnt[k] = @ - 1]
        [] q.riffCnt[k] = 1 ->
             IF riff.track = <<>> \/ Head(riff.track).at # riff.line THEN RadAhead(due, k)
             ELSE IF k \notin played.busy THEN played
             ELSE RadAhead(after, k)

RadTicked(q, k) == RadTick[<<q, k>>]

\* PlayLine(), when its line is due: the line's notes,
RadRead(q) ==
  LET due == [q EXCEPT !.speedCnt = q.Speed, !.jump = Unset]
  IN  IF q.track # <<>> /\ Head(q.track).at <= q.line
      THEN [FoldLeft(LAMBDA s, e : RadNote(RadTick, s, e.chan, e, "line"), due, Head(q.track).notes)
              EXCEPT !.track = Tail(@)]
      ELSE due

\* and its successor.  The line after the next order's first one is looked for
\* only in a pattern that the song has.
RadToLine(q) == IF q.line > 0 THEN [q EXCEPT !.track = SkipToLine(@, q.line)] ELSE q
RadNext(q) ==
  IF q.jump = Unset /\ q.line + 1 < PatternRows THEN [q EXCEPT !.line = @ + 1]
  ELSE RadToLine(RadTrack([q EXCEPT !.order = @ + 1, !.line = IF q.jump # Unset THEN q.jump ELSE 0]))

RadDue(q) == Byte(q.speedCnt - 1) = 0
RadLine(q) ==
  IF ~RadDue(q) THEN [q EXCEPT !.speedCnt = Byte(@ - 1)] ELSE RadNext(RadRead(q))

\* The riffs of each channel, its instrument's first, then the line.
RadOrder == SetToSortSeq(RadRiffs, LAMBDA a, b : a[1] < b[1] \/ (a[1] = b[1] /\ a[2] = "iriff" /\ b[2] = "riff"))

RadEnd(q, rows) == Updated(q, rows, ~q.repeating)

RadUpdate ==
  /\ MayUpdate("rad")
  /\ LET q == FoldLeft(RadTicked, p, RadOrder)
     IN  RadEnd(RadLine(q), IF RadDue(q) THEN {<<q.order, q.line>>} ELSE {})
=============================================================================
