---------------------------- MODULE ReplayGames ----------------------------
(***************************************************************************)
(* Byte codes of game drivers: Ultima 6 (u6m.cpp) and Softstar RIX         *)
(* (rix.cpp).  A command stands for its bytes.                             *)
(***************************************************************************)
EXTENDS ReplayComposer

CONSTANTS U6mVoices,   \* 0..8 in the code
          RixVoices    \* 0..10 in the code

----------------------------------------------------------------------------
(* Ultima 6: subsongs are called and repeated, and from the loop point on  *)
(* the song is played again when it has ended.                             *)

\* The constructor leaves instrument_offsets[], and so does rewind().
U6mConstructed == {[instOffsets |-> Each(0..8, Unset)]}

U6mFresh(q) ==
  [instOffsets |-> q.instOffsets, songend |-> FALSE, pos |-> 1, loopPos |-> 1,
   delay |-> 0, stack |-> <<>>,
   freq |-> Each(U6mVoices, 0), slide |-> Each(U6mVoices, 0),
   vb |-> Each(U6mVoices, [value |-> 0, amplitude |-> 0, times |-> 0, down |-> FALSE]),
   mf |-> Each(U6mVoices, [level |-> 0, delta |-> 0, delay |-> 0, backup |-> 0]),
   timbre |-> Each(U6mVoices, Unset)]

U6mRewind == MayRewind("u6m", 0) /\ Rewound(0, U6mFresh(p))

\* expand_freq_byte(): the numbers of a scale, and the octave above.
U6mScale ==
  <<0, 344, 386, 432, 460, 515, 577, 646, 0, 362, 406, 455,
    484, 542, 607, 680, 0, 327, 366, 410, 437, 489, 548, 614>>
U6mFreq(byte) ==
  (IF byte % 32 < 24 THEN U6mScale[(byte % 32) + 1] ELSE 0) + 1024 * (byte \div 32)
KeyBit == 8192
U6mKeyed(word) == (word \div KeyBit) % 2 = 1

\* The bit is set, unless octave 8 has set it already.
U6mKey(word) == IF U6mKeyed(word) THEN word ELSE word + KeyBit

\* command_F(): the end of a subsong, which is repeated, or of the song.
U6mReturn(q) ==
  LET top == Head(q.stack)
  IN  IF q.stack = <<>> THEN [q EXCEPT !.pos = q.loopPos, !.songend = TRUE]
      ELSE IF top.repetitions = 1 THEN [q EXCEPT !.pos = top.continue, !.stack = Tail(@)]
      ELSE [q EXCEPT !.pos = top.start, !.stack[1].repetitions = @ - 1]

U6mCommand(q, e) ==
  LET v == e.voice
      word == U6mFreq(e.arg)
      f == [q EXCEPT !.pos = @ + 1]
  IN  IF v \notin U6mVoices THEN f
      ELSE CASE e.k = "off" -> [f EXCEPT !.freq[v] = word]
             [] e.k = "strike" -> [f EXCEPT !.freq[v] = U6mKey(word), !.vb[v].value = 0, !.vb[v].down = FALSE]
             [] e.k = "on" -> [f EXCEPT !.freq[v] = U6mKey(word)]
             [] e.k = "carrier" -> [f EXCEPT !.mf[v].level = e.arg, !.mf[v].delta = 0]
             [] e.k = "slide" -> [f EXCEPT !.slide[v] = e.arg]
             [] e.k = "vibrato" -> [f EXCEPT !.vb[v].amplitude = e.arg \div 16, !.vb[v].times = e.arg % 16]
             [] e.k = "inst" -> IF e.arg < 9 THEN [f EXCEPT !.timbre[v] = q.instOffsets[e.arg]] ELSE f
             [] e.k = "call" -> [f EXCEPT !.pos = e.arg,
                   !.stack = <<[start |-> e.arg, repetitions |-> e.times, continue |-> q.pos + 1]>> \o @]
             [] e.k = "wait" -> [f EXCEPT !.delay = e.arg]
             [] e.k = "define" -> IF e.arg < 9 THEN [f EXCEPT !.instOffsets[e.arg] = q.pos] ELSE f
             [] e.k = "fade" -> [f EXCEPT !.mf[v].delta = e.arg, !.mf[v].delay = e.times, !.mf[v].backup = e.times]
             [] e.k = "loop" -> [f EXCEPT !.loopPos = q.pos + 1]
             [] e.k = "return" -> U6mReturn(q)
             [] OTHER -> f

\* A slide moves the key with the frequency when it goes that far.
U6mBend(q, v) ==
  LET vb == q.vb[v]
      down == IF vb.value >= vb.amplitude THEN TRUE ELSE IF vb.value <= 0 THEN FALSE ELSE vb.down
  IN  IF q.slide[v] # 0 THEN [q EXCEPT !.freq[v] = (@ + q.slide[v]) % 65536]
      ELSE IF vb.times = 0 \/ ~U6mKeyed(q.freq[v]) THEN q
      ELSE [q EXCEPT !.vb[v].down = down, !.vb[v].value = IF down THEN @ - 1 ELSE @ + 1]

U6mFade(q, v) ==
  LET level == q.mf[v].level + q.mf[v].delta
  IN  IF q.mf[v].delta = 0 THEN q
      ELSE IF q.mf[v].delay # 1 THEN [q EXCEPT !.mf[v].delay = @ - 1]
      ELSE [q EXCEPT !.mf[v].delay = q.mf[v].backup, !.mf[v].level = Max({0, Min({63, level})}),
                     !.mf[v].delta = IF level \in 0..63 THEN @ ELSE 0]

U6mTick(q) ==
  FoldLeft(LAMBDA f, v : U6mFade(U6mBend(f, v), v), q, SetToSortSeq(U6mVoices, LAMBDA v, w : v < w))

\* dec_clip(), and command_loop() when it has come to 0.
U6mDelay == [p EXCEPT !.delay = Max({0, @ - 1})]
U6mBegin == MayUpdate("u6m") /\ U6mDelay.delay = 0 /\ Within(U6mDelay, 1)
U6mWait ==
  /\ MayUpdate("u6m") /\ U6mDelay.delay # 0
  /\ Updated(U6mTick(U6mDelay), {}, ~p.songend)

\* Past the end of the data the song has ended for good.
U6mOver == p.pos > Len(song.commands)
U6mStop ==
  /\ In("u6m") /\ U6mOver
  /\ Updated(U6mTick([p EXCEPT !.songend = TRUE]), {}, FALSE)

U6mOne ==
  /\ In("u6m") /\ ~U6mOver
  /\ LET f == U6mCommand(p, song.commands[p.pos])
     IN  IF song.commands[p.pos].k = "wait" THEN Updated(U6mTick(f), {}, ~f.songend) ELSE Within(f, 1)

U6mUpdate == U6mBegin \/ U6mWait \/ U6mStop \/ U6mOne

----------------------------------------------------------------------------
(* Softstar RIX: a voice from 6 is a drum when the tune has a rhythm.      *)

RixDrum(v) == v >= 6 /\ song.tunes[p.tune].rhythm

\* The tune of a subsong is the next one the table of an .mkf file has: an
\* entry may be there twice, and the last tune stands for those there are not.
RixStarts(table) == SetToSortSeq({i \in DOMAIN table : i > 1 => table[i] # table[i - 1]}, <)
RixTune(s) == song.table[RixStarts(song.table)[Min({s + 1, Len(RixStarts(song.table))})]]

RixFresh(s) ==
  LET rhythm == song.tunes[RixTune(s)].rhythm
  IN  [tune |-> RixTune(s), at |-> 1, sustain |-> 0, ended |-> FALSE,
       insbuf |-> Unset, timbre |-> Each(RixVoices, Unset),
       level |-> Each(RixVoices, 127), bend |-> Each(RixVoices, Unset),
       note |-> [v \in RixVoices |-> IF ~rhythm THEN 0
                                     ELSE CASE v = 8 -> 24 [] v = 7 -> 31 [] OTHER -> 0],
       on |-> {}, drums |-> {}]

RixRewind == \E s \in Subsongs : MayRewind("rix", s) /\ Rewound(s, RixFresh(s))

RixOff(q, v) == IF RixDrum(v) THEN [q EXCEPT !.drums = @ \ {v}] ELSE [q EXCEPT !.on = @ \ {v}]

\* A tomtom tunes the snare.
RixOn(q, v, arg) ==
  LET i == Max({0, arg - 12})
      keyed == [q EXCEPT !.note[v] = i, !.on = @ \union {v}]
      tuned == CASE v = 6 -> [q EXCEPT !.note[6] = i]
                 [] v = 8 -> [q EXCEPT !.note[8] = i, !.note[7] = i + 7]
                 [] OTHER -> q
  IN  IF arg = 0 THEN q
      ELSE IF RixDrum(v) THEN [tuned EXCEPT !.drums = @ \union {v}] ELSE keyed

RixCommand(q, e) ==
  LET v == e.voice
      insbuf == IF e.arg < song.insts THEN e.arg ELSE q.insbuf
  IN  CASE e.k = "inst" -> [q EXCEPT !.insbuf = insbuf, !.timbre[v] = insbuf]
        [] e.k = "bend" -> IF RixDrum(v) /\ v # 6 THEN q ELSE [q EXCEPT !.bend[v] = Min({e.arg, 16383})]
        [] e.k = "level" -> [q EXCEPT !.level[v] = Min({e.arg, 127})]
        [] e.k = "note" -> RixOn(RixOff(q, v), v, e.arg)

\* music_ctrl() switches everything off, and the tune starts again.
RixOver(q) ==
  [FoldLeft(RixOff, q, SetToSeq(RixVoices)) EXCEPT !.at = 1, !.ended = TRUE]

\* int_08h_entry() and rix_proc(): the tune up to a wait that has not aged.
RixEvents(q) == song.tunes[q.tune].events
RixRead(q) ==
  LET e == RixEvents(q)[q.at]
      f == [q EXCEPT !.at = @ + 1]
  IN  CASE q.sustain > 0 \/ q.at > Len(RixEvents(q)) -> q
        [] e.k = "wait" -> [f EXCEPT !.sustain = @ + e.arg]
        [] OTHER -> RixCommand(f, e)

RixEntry(q) ==
  LET f == FoldLeft(LAMBDA r, e : RixRead(r), q, RixEvents(q))
  IN  IF f.sustain > 0 THEN [f EXCEPT !.sustain = @ - 14] ELSE RixOver(f)

RixUpdate ==
  /\ MayUpdate("rix")
  /\ LET f == RixEntry(p) IN Updated(f, {}, ~f.ended)

GamesRewind == U6mRewind \/ RixRewind
GamesUpdate == U6mUpdate \/ RixUpdate
============================================================================
