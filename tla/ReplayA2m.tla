----------------------------- MODULE ReplayA2m -----------------------------
(***************************************************************************)
(* AdLib Tracker 2 (a2m-v2.cpp).  A row has a cell for each track: a note, *)
(* an instrument and two effects.  Notes are numbers, with KeyOffFlag for  *)
(* a note that has been released; Null is the byte for no value.  Beside   *)
(* the rows every track runs the macro of its instrument.  Volumes,        *)
(* frequencies and the effects and tables that only change them are left   *)
(* out; keyed is the key bit of a track's entry in freq_table.             *)
(***************************************************************************)
EXTENDS ReplayXmi

CONSTANT A2mOrders     \* entries of an order list: 128 in the code

Null == 255
KeyOffFlag == 128
LoopFlag == 224        \* next_line leads back to a track's loop,
BreakFlag == 240       \* or to the order that its jump names
A2mIdle == 4095
A2mFinished == 65535

NoEffect == [k |-> "none", arg |-> 0]
A2mLines == 0 .. song.lines - 1

\* What memset() and init_player() leave of a track; a stopped player has no
\* voices.
A2mTrack(voice) ==
  [note |-> 0, ins |-> 0, eff |-> <<NoEffect, NoEffect>>, voice |-> voice,
   reset |-> FALSE, keyed |-> FALSE, effect |-> <<NoEffect, NoEffect>>,
   last |-> <<NoEffect, NoEffect>>, retrig |-> <<0, 0>>, notedel |-> Null,
   notecut |-> Null, portaFK |-> FALSE, keyoffLoop |-> FALSE, loopbck |-> Null,
   loop |-> Each(A2mLines, Null), macro |-> [ins |-> 0, pos |-> 0, duration |-> 0]]

\* A pair of tracks makes one voice of four operators.
PairFirst(c) == c \in song.fourOp
PairSecond(c) == c - 1 \in song.fourOp
InPair(c) == PairFirst(c) \/ PairSecond(c)
PairOf(c) == IF PairFirst(c) THEN {c, c + 1} ELSE IF PairSecond(c) THEN {c - 1, c} ELSE {c}

Each2(q, S, Change(_)) == [q EXCEPT !.ch = [c \in song.tracks |-> IF c \in S THEN Change(@[c]) ELSE @[c]]]
Keyed(q, c, on) == Each2(q, PairOf(c), LAMBDA t : [t EXCEPT !.keyed = on])

\* key_off()
A2mKeyOff(q, c) ==
  LET off == Keyed(q, c, FALSE)
  IN  [off EXCEPT !.ch[c].note = IF @ < KeyOffFlag THEN @ + KeyOffFlag ELSE @]

\* release_sustaining_sound()
A2mRelease(q, c) == [A2mKeyOff(q, c) EXCEPT !.ch[c].ins = 0, !.ch[c].reset = TRUE]

A2mInst(number) ==
  IF number \in DOMAIN song.insts THEN song.insts[number]
  ELSE [empty |-> TRUE, quiet |-> TRUE, macro |-> Unset]

\* init_macro_table()
A2mMacroStart(q, c, ins) == [q EXCEPT !.ch[c].macro = [ins |-> ins, pos |-> 0, duration |-> 0]]

\* set_ins_data(): an instrument without data releases the voice.
A2mInstrument(q, c, ins) ==
  LET r == IF A2mInst(ins).empty THEN A2mRelease(q, c) ELSE q
      changed == r.ch[c].ins # ins \/ r.ch[c].reset
      s == [r EXCEPT !.ch[c].keyoffLoop = IF r.ch[c].reset THEN @ ELSE FALSE,
                     !.ch[c].reset = FALSE]
      t == IF changed THEN A2mMacroStart(s, c, ins) ELSE r
  IN  IF ins = 0 THEN q ELSE [t EXCEPT !.ch[c].voice = ins, !.ch[c].ins = ins]

\* output_note(): the track before a paired one takes the note as well, also
\* when it belongs to another pair.
A2mOutput(q, c, note, ins, restart) ==
  LET r == IF note < KeyOffFlag THEN Keyed(q, c, TRUE) ELSE q
      S == {c} \union (IF InPair(c) THEN {c - 1} ELSE {})
      s == Each2(r, S, LAMBDA t : [t EXCEPT !.note = note])
      forced == \E slot \in 1..2 : q.ch[c].eff[slot].k = "noRestart"
  IN  IF note = 0 THEN q ELSE IF restart /\ ~forced THEN A2mMacroStart(s, c, ins) ELSE s

----------------------------------------------------------------------------
\* The orders.  The entries after those of the song lead back to the first.
A2mOrder(i) == IF i < Len(song.orders) THEN song.orders[i + 1] ELSE 128

\* a2t_stop(): the locks of the song are not set again.
A2mStop(q) ==
  [q EXCEPT !.irq = FALSE, !.break = FALSE, !.order = 0, !.pattern = 0, !.line = 0,
            !.locks = FALSE, !.speed = 4, !.tempo = 50, !.ch = Each(song.tracks, A2mTrack(0))]

\* Markers are followed, as many as there are orders; back says that one led
\* to an order before it.
A2mMarker(order) == A2mOrder(order) >= 128
A2mFollow(order) ==
  LET chase[i \in 0..A2mOrders] ==
        IF i = 0 THEN [found |-> order, back |-> FALSE]
        ELSE LET f == chase[i - 1]
                 target == A2mOrder(f.found) - 128
             IN  IF A2mMarker(f.found)
                 THEN [found |-> target, back |-> f.back \/ target <= f.found] ELSE f
      last == chase[A2mOrders]
  IN  IF A2mMarker(last.found) THEN [found |-> -1, back |-> TRUE] ELSE last

\* set_current_order(): markers that lead around stop the player.
A2mSetOrder(q, order) ==
  LET f == A2mFollow(IF order < 128 THEN order ELSE 0)
      r == [q EXCEPT !.songend = @ \/ f.back]
  IN  IF f.found = -1 THEN A2mStop(r) ELSE [r EXCEPT !.order = f.found]

\* calc_following_order(0)
A2mFirst == A2mFollow(0).found

\* What the import sets and a2t_stop() clears.
A2mConstructed(tune) == {[locks |-> tune.locks]}

\* Tracks 16 and 17 are keyed off.
A2mFresh(q) ==
  LET tracks == [c \in song.tracks |->
                   [A2mTrack(c + 1) EXCEPT !.note = IF c \in {16, 17} THEN KeyOffFlag ELSE 0]]
      f == [locks |-> q.locks, songend |-> FALSE, order |-> 0, pattern |-> 0, line |-> 0,
            next |-> 0, break |-> FALSE, delay |-> FALSE, tickD |-> 0, ticks |-> 0,
            irq |-> TRUE, looper |-> 0, macroLooper |-> 0, speed |-> song.speed,
            tempo |-> song.tempo, ch |-> tracks]
      r == A2mSetOrder(f, 0)
  IN  IF r.irq THEN [r EXCEPT !.pattern = A2mOrder(r.order)] ELSE r

A2mRewind == MayRewind("a2m", 0) /\ Rewound(0, A2mFresh(p))

----------------------------------------------------------------------------
\* The row.  A cell of a pattern that the song does not have is empty.
A2mCell(q, c) ==
  LET cell == IF q.pattern \in DOMAIN song.patterns THEN song.patterns[q.pattern][q.line][c]
              ELSE [note |-> 0, ins |-> 0, eff |-> <<NoEffect, NoEffect>>]
      stored == q.ch[c].note
  IN  [cell EXCEPT !.note = IF @ # Null THEN @
                            ELSE IF stored < KeyOffFlag THEN stored + KeyOffFlag ELSE stored]

\* The first pass of play_line() over a track.
A2mBegin(q, c) ==
  LET t == q.ch[c]
      cell == A2mCell(q, c)
      used == cell.note # 0 \/ cell.ins # 0 \/ cell.eff # <<NoEffect, NoEffect>>
      saved == [t EXCEPT !.last = [s \in 1..2 |-> IF t.effect[s] # NoEffect THEN t.effect[s] ELSE @[s]],
                         !.effect = [s \in 1..2 |-> [@[s] EXCEPT !.k = "none"]],
                         !.eff = IF used THEN cell.eff ELSE @]
      r == A2mInstrument([q EXCEPT !.ch[c] = saved], c, cell.ins)
  IN  [r EXCEPT !.ch[c].retrig = [s \in 1..2 |-> IF cell.eff[s].k = "retrig" THEN @[s] ELSE 0]]

\* no_loop(): a loop of a track before this one goes first.
A2mNoLoop(q, c) == \A d \in song.tracks : d < c => q.ch[d].loop[q.line] \in {0, Null}

\* A loop is taken while its count lasts; that of a nested one starts anew.
A2mLoopEffect(q, c, e) ==
  LET count == IF q.ch[c].loop[q.line] = Null THEN e.arg ELSE q.ch[c].loop[q.line]
      r == [q EXCEPT !.ch[c].loop[q.line] = count]
  IN  IF e.arg = 0 THEN [q EXCEPT !.ch[c].loopbck = q.line]
      ELSE IF q.ch[c].loopbck = Null THEN q
      ELSE IF count # 0 THEN [r EXCEPT !.break = TRUE, !.next = Byte(LoopFlag + c)]
      ELSE IF e.k = "loopRec" THEN [r EXCEPT !.ch[c].loop[q.line] = Null]
      ELSE r

\* process_effects(): those of the song and of its speed,
A2mSongEffect(q, c, e) ==
  CASE e.k = "jump" -> IF A2mNoLoop(q, c) THEN [q EXCEPT !.break = TRUE, !.next = Byte(BreakFlag + c)] ELSE q
    [] e.k = "break" -> IF A2mNoLoop(q, c) THEN [q EXCEPT !.break = TRUE, !.next = Min({e.arg, song.lines - 1})] ELSE q
    [] e.k = "speed" -> [q EXCEPT !.speed = e.arg]
    [] e.k = "tempo" -> [q EXCEPT !.tempo = IF e.arg = 0 THEN @ ELSE e.arg]

\* those that a track goes on with at every tick,
A2mTrackEffect(q, c, slot, e) ==
  LET t == q.ch[c]
      set == [q EXCEPT !.ch[c].effect[slot] = e]
  IN  CASE e.k = "retrig" /\ e.arg = 0 -> q
        [] e.k = "retrig" /\ e.arg # 0 ->
             [set EXCEPT !.ch[c].retrig[slot] = IF t.last[slot].k # "retrig" THEN 1 ELSE @]
        [] e.k = "porta" ->
             IF A2mCell(q, c).note \in 1..97 \/ t.last[slot].k = "porta"
             THEN [set EXCEPT !.ch[c].effect[slot].arg =
                     IF e.arg = 0 /\ t.last[slot].k = "porta" THEN t.last[slot].arg ELSE e.arg]
             ELSE q
        [] e.k = "noteDelay" -> [set EXCEPT !.ch[c].notedel = e.arg]
        [] e.k = "noteCut" -> [set EXCEPT !.ch[c].notecut = e.arg]

\* and the extended ones.
A2mExtended(q, c, e) ==
  CASE e.k = "delayFrames" -> [q EXCEPT !.delay = TRUE, !.tickD = e.arg]
    [] e.k = "delayRows"   -> [q EXCEPT !.delay = TRUE, !.tickD = q.speed * e.arg]
    [] e.k = "keyoffLoop"  -> [q EXCEPT !.ch[c].keyoffLoop = e.arg = 1]
    [] e.k = "portaFK"     -> [q EXCEPT !.ch[c].portaFK = e.arg = 1]
    [] e.k = "release"     -> A2mRelease(q, c)
    [] OTHER -> q

A2mEffect(q, c, slot) ==
  LET e == A2mCell(q, c).eff[slot]
  IN  CASE e.k \in {"jump", "break", "speed", "tempo"} -> A2mSongEffect(q, c, e)
        [] e.k \in {"loop", "loopRec"} -> A2mLoopEffect(q, c, e)
        [] e.k \in {"retrig", "porta", "noteDelay", "noteCut"} -> A2mTrackEffect(q, c, slot, e)
        [] OTHER -> A2mExtended(q, c, e)

\* new_process_note(): a note that slides or waits is only remembered.
A2mNote(q, c, cell) ==
  LET t == q.ch[c]
      porta == \E s \in 1..2 : cell.eff[s].k = "porta"
      waits == \E s \in 1..2 : cell.eff[s].k = "noteDelay"
  IN  CASE cell.note = 0 -> q
        [] cell.note >= KeyOffFlag -> A2mKeyOff(q, c)
        [] cell.note \in 1..127 /\ ~porta /\ ~waits -> A2mOutput(q, c, cell.note, t.voice, TRUE)
        [] cell.note \in 1..127 /\ porta /\ t.note >= KeyOffFlag ->
             A2mOutput(q, c, t.note - KeyOffFlag, t.voice, FALSE)
        [] cell.note \in 1..127 /\ porta /\ t.note < KeyOffFlag /\ t.portaFK ->
             A2mOutput(q, c, cell.note, cell.ins, FALSE)
        [] OTHER -> [q EXCEPT !.ch[c].note = cell.note]

\* After the effects, a track without one has none; the others are kept for
\* the jump.
A2mSettle(q, c, cell) ==
  [q EXCEPT !.ch[c].effect = [s \in 1..2 |-> IF cell.eff[s] = NoEffect THEN NoEffect ELSE @[s]],
            !.ch[c].eff = [s \in 1..2 |-> IF cell.eff[s] = NoEffect THEN @[s] ELSE cell.eff[s]]]

\* play_line(): each pass goes over all the tracks, with the cells as they
\* were read in the first one.
A2mPlayLine(q) ==
  LET tracks == SetToSortSeq(song.tracks, LAMBDA c, d : c < d)
      cells == [c \in song.tracks |-> A2mCell(q, c)]
      Pass(Op(_, _), r) == FoldLeft(Op, r, tracks)
      begun == Pass(A2mBegin, q)
      first == Pass(LAMBDA r, c : A2mEffect(r, c, 1), begun)
      second == Pass(LAMBDA r, c : A2mEffect(r, c, 2), first)
      settled == Pass(LAMBDA r, c : A2mSettle(r, c, cells[c]), second)
  IN  Pass(LAMBDA r, c : A2mNote(r, c, cells[c]), settled)

----------------------------------------------------------------------------
\* update_effects_slot(): what a tick adds.
A2mTickSlot(q, c, slot) ==
  LET t == q.ch[c]
      e == t.effect[slot]
      again(r) == A2mOutput(r, c, t.note, t.ins, TRUE)
  IN  CASE e.k = "retrig" /\ t.retrig[slot] >= e.arg -> again([q EXCEPT !.ch[c].retrig[slot] = 0])
        [] e.k = "retrig" /\ t.retrig[slot] < e.arg -> [q EXCEPT !.ch[c].retrig[slot] = @ + 1]
        [] e.k = "noteDelay" /\ t.notedel = 0 -> again([q EXCEPT !.ch[c].notedel = Null])
        [] e.k = "noteDelay" /\ t.notedel \notin {0, Null} -> [q EXCEPT !.ch[c].notedel = @ - 1]
        [] e.k = "noteCut" /\ t.notecut = 0 -> A2mKeyOff([q EXCEPT !.ch[c].notecut = Null], c)
        [] e.k = "noteCut" /\ t.notecut \notin {0, Null} -> [q EXCEPT !.ch[c].notecut = @ - 1]
        [] OTHER -> q

A2mEffects(q) ==
  FoldLeft(LAMBDA r, c : A2mTickSlot(A2mTickSlot(r, c, 1), c, 2), q,
           SetToSortSeq(song.tracks, LAMBDA c, d : c < d))

\* Where a break leads: back in the pattern, to the order a track's jump names,
\* or to a line of the next order.  A loop of track 16 is taken for a jump of
\* track 0, and a jump of track 16 for a break to the first line.
A2mLoopBack(q) ==
  LET c == q.next - LoopFlag
  IN  [q EXCEPT !.next = q.ch[c].loopbck, !.ch[c].loop[q.line] = IF @ # 0 THEN @ - 1 ELSE @]
A2mForgetLoops(q) ==
  Each2(q, song.tracks, LAMBDA t : [t EXCEPT !.loopbck = Null, !.loop = Each(A2mLines, Null)])
A2mJump(q) ==
  LET c == q.next - BreakFlag
      slot == IF q.ch[c].eff[1].k = "jump" THEN 1 ELSE 2
      r == A2mSetOrder(A2mForgetLoops(q), q.ch[c].eff[slot].arg)
  IN  [r EXCEPT !.songend = @ \/ r.order <= q.order, !.break = FALSE]
A2mNextOrder(q) ==
  A2mSetOrder(A2mForgetLoops(q), IF q.order < A2mOrders - 1 THEN q.order + 1 ELSE 0)

\* The speed and the tempo of the song are set again when it starts again.
A2mRestored(q) ==
  IF song.speedUpdate /\ q.line = 0 /\ q.order = A2mFirst
  THEN [q EXCEPT !.tempo = song.tempo, !.speed = song.speed] ELSE q

\* update_song_position()
A2mPosition(q) ==
  LET r == CASE q.break /\ q.next \in LoopFlag .. LoopFlag + 15 -> A2mLoopBack(q)
             [] q.break /\ q.next \in BreakFlag .. BreakFlag + 15 -> A2mJump(q)
             [] OTHER -> A2mNextOrder(q)
      turned == [r EXCEPT !.pattern = A2mOrder(r.order), !.break = FALSE,
                          !.line = IF r.break THEN r.next ELSE 0]
  IN  IF q.line < song.lines - 1 /\ ~q.break THEN A2mRestored([q EXCEPT !.line = @ + 1])
      ELSE IF A2mOrder(r.order) >= 128 THEN r
      ELSE A2mRestored(turned)

\* The row that was played; a delay keeps the position.
A2mPlayed(q) == [IF q.delay THEN q ELSE A2mPosition(q) EXCEPT !.ticks = 0]

\* poll_proc(); ticks counts from tick0.
A2mPoll(q) ==
  CASE q.delay /\ q.tickD > 1 -> [A2mEffects(q) EXCEPT !.ticks = @ + 1, !.tickD = @ - 1]
    [] q.delay /\ q.tickD <= 1 -> [A2mPosition(A2mEffects(q)) EXCEPT !.ticks = 0, !.delay = FALSE]
    [] ~q.delay /\ q.ticks + 1 < q.speed -> [A2mEffects(q) EXCEPT !.ticks = @ + 1]
    [] ~q.delay /\ q.ticks + 1 >= q.speed -> A2mPlayed(A2mEffects(A2mPlayLine(q)))

----------------------------------------------------------------------------
\* The macro of a track's instrument: its next place, where the key leaves it,
\* and what the cell there does.
A2mPlace(macro, pos, finished) ==
  IF pos > macro.length THEN finished
  ELSE IF macro.loop # 0 /\ macro.count # 0 /\ pos = macro.loop + macro.count - 1 THEN macro.loop
  ELSE IF pos < macro.length THEN pos + 1
  ELSE finished
A2mHeld(macro, pos, keyed) ==
  IF keyed /\ macro.keyoff # 0 /\ pos >= macro.keyoff THEN A2mIdle
  ELSE IF ~keyed /\ pos # 0 /\ macro.keyoff # 0 /\ (pos < macro.keyoff \/ pos = A2mIdle) THEN macro.keyoff
  ELSE pos
A2mMacroCell(q, c, pos) ==
  LET t == q.ch[c]
      cell == A2mInst(t.macro.ins).macro.cells[pos]
      r == [q EXCEPT !.ch[c].macro.duration = cell.duration]
      strikes == cell.duration # 0 /\ (cell.retrig \/ (pos = 1 /\ A2mInst(t.voice).quiet)) /\ ~PairFirst(c)
      struck == A2mOutput(r, c, t.note, t.ins, FALSE)
  IN  IF ~strikes THEN r
      ELSE IF PairSecond(c) THEN A2mMacroStart(struck, c - 1, q.ch[c - 1].voice)
      ELSE struck

A2mMacro(q, c) ==
  LET t == q.ch[c]
      macro == A2mInst(t.macro.ins).macro
      finished == IF t.keyoffLoop THEN A2mIdle ELSE A2mFinished
      pos == A2mHeld(macro, A2mPlace(macro, t.macro.pos, finished), t.keyed)
      r == [q EXCEPT !.ch[c].macro.pos = pos]
  IN  IF t.macro.ins = 0 THEN q
      ELSE IF macro = Unset THEN [q EXCEPT !.ch[c].macro.pos = finished]
      ELSE IF q.speed = 0 THEN q
      ELSE IF t.macro.duration > 1 THEN [q EXCEPT !.ch[c].macro.duration = @ - 1]
      ELSE IF pos \in {0, A2mIdle, finished} THEN r
      ELSE A2mMacroCell(r, c, pos)

A2mMacros(q) == FoldLeft(A2mMacro, q, SetToSortSeq(song.tracks, LAMBDA c, d : c < d))

\* newtimer(): the rows come at the tempo, the macros several times as often;
\* below 18 both are late.  Nothing is played once the player has stopped.
A2mTimed(q) == IF q.irq /\ p.macroLooper = 0 THEN A2mMacros(q) ELSE q
A2mCount(ticks, period) == IF ticks + 1 >= period THEN 0 ELSE ticks + 1
A2mCounted(q) ==
  LET period == Max({18, q.tempo}) * song.speedup
  IN  IF q.irq
      THEN [q EXCEPT !.looper = A2mCount(@, period \div q.tempo),
                     !.macroLooper = A2mCount(@, period \div (q.tempo * song.speedup))]
      ELSE q

A2mEnd(q, rows) == Updated(q, rows, ~q.songend)

A2mUpdate ==
  /\ MayUpdate("a2m")
  /\ LET polls == p.irq /\ p.looper = 0
         reads == polls /\ ~p.delay /\ p.ticks + 1 >= p.speed
     IN  A2mEnd(A2mCounted(A2mTimed(IF polls THEN A2mPoll(p) ELSE p)),
                IF reads THEN {<<p.order, p.line, [c \in song.tracks |-> p.ch[c].loop]>>} ELSE {})
============================================================================
