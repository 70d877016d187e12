----------------------------- MODULE ReplayXad -----------------------------
(***************************************************************************)
(* The replayers of the XAD family: CxadPlayer (xad.cpp), whose update()   *)
(* counts ticks, and the six formats that give it their rows.  Registers   *)
(* and instruments are left out; on is the set of voices with their key    *)
(* down in the chip.                                                       *)
(***************************************************************************)
EXTENDS Replay

CONSTANTS Rows,     \* rows in a pattern: 64 in the code
          Voices    \* 1..9 in the code

\* plr, the fields all six formats share; tempo is what their rewind() sets.
Plr(tempo) == [speed |-> tempo, counter |-> 1, looping |-> FALSE, on |-> {}]

\* --plr.speed_counter of an unsigned char
Counted(q) == [q EXCEPT !.counter = Byte(@ + 255)]

\* The ticks on which a format's own update() does not run.
XadWait(format) ==
  /\ MayUpdate(format)
  /\ Counted(p).counter # 0
  /\ Updated(Counted(p), {}, ~p.looping)

\* The other ticks, and what the format's update() finds.
XadTick(format) == MayUpdate(format) /\ Counted(p).counter = 0
Ticked == [p EXCEPT !.counter = p.speed]

XadRow(q, rows) == Updated(q, rows, ~q.looping)

KeyOff(q, v) == [q EXCEPT !.on = @ \ {v}]
KeyOn(q, v) == [q EXCEPT !.on = @ \union {v}]

\* The rows of a song by order and row: a sequence of events, one a voice.
Fold(Op(_, _), q, events) == FoldLeft(Op, q, events)

----------------------------------------------------------------------------
(* hypnosis (hyp.cpp): one long pattern. *)

HypFresh ==
  Plr(song.speed) @@ [row |-> 1]

HypRewind == MayRewind("hyp", 0) /\ Rewound(0, HypFresh)

\* An event keys the voice off, and on again unless bit 6 is set.
HypEvent(q, e) ==
  CASE e.kind = "none" -> q
    [] e.kind = "off"  -> KeyOff(q, e.voice)
    [] e.kind = "note" -> KeyOn(KeyOff(q, e.voice), e.voice)

\* Faulty variant: the pattern starts again and the song is not over.
HypUpdateEndless ==
  \/ XadWait("hyp")
  \/ /\ XadTick("hyp")
     /\ XadRow([Fold(HypEvent, Ticked, song.rows[p.row]) EXCEPT
                  !.row = IF @ = Len(song.rows) THEN 1 ELSE @ + 1], {p.row})

HypUpdate ==
  \/ XadWait("hyp")
  \/ /\ XadTick("hyp")
     /\ LET q == Fold(HypEvent, Ticked, song.rows[p.row])
            last == p.row = Len(song.rows)
        IN  XadRow([q EXCEPT !.row = IF last THEN 1 ELSE @ + 1,
                             !.looping = @ \/ last],
                   {p.row})

----------------------------------------------------------------------------
(* PSI (psi.cpp): a sequence of timed notes for each voice. *)

PsiFresh ==
  Plr(song.speed) @@
  [ptr    |-> [v \in DOMAIN song.seqs |-> 1],
   delay  |-> [v \in DOMAIN song.seqs |-> 1],
   cur    |-> [v \in DOMAIN song.seqs |-> 1],
   looped |-> {}]

PsiRewind == MayRewind("psi", 0) /\ Rewound(0, PsiFresh)

\* A voice whose note has run out takes the next event of its sequence, or at
\* the end of it the event at the loop position.
PsiVoice(q, v) ==
  LET seq   == song.seqs[v]
      atEnd == q.ptr[v] > Len(seq.events)
      at    == IF atEnd THEN seq.loop ELSE q.ptr[v]
      event == seq.events[at]
      delay == IF event.delay = Unset THEN q.delay[v] ELSE event.delay
      done  == IF atEnd THEN q.looped \union {v} ELSE q.looped
      r     == [q EXCEPT !.ptr[v] = at + 1, !.delay[v] = delay,
                         !.cur[v] = delay, !.looped = done,
                         !.looping = IF atEnd THEN done = DOMAIN song.seqs ELSE @]
      left  == Byte(q.cur[v] + 255)
  IN  IF left # 0 THEN [q EXCEPT !.cur[v] = left]
      ELSE IF event.rest THEN KeyOff(r, v) ELSE KeyOn(r, v)

PsiUpdate ==
  \/ XadWait("psi")
  \/ /\ XadTick("psi")
     /\ XadRow(Fold(PsiVoice, Ticked, [v \in DOMAIN song.seqs |-> v]), {})

----------------------------------------------------------------------------
(* Flash (flash.cpp): 52 orders of patterns of 64 rows. *)

\* Faulty variant: only the order goes back to the start.
FlashRewindOrder ==
  /\ MayRewind("flash", 0)
  /\ Rewound(0, Plr(song.speed) @@
                [order |-> 1, row |-> IF plays = 0 THEN 0 ELSE p.row])

FlashFresh ==
  Plr(song.speed) @@ [order |-> 1, row |-> 0]

FlashRewind == MayRewind("flash", 0) /\ Rewound(0, FlashFresh)

\* A slide writes the key bit back as it was, and any note byte but 0x7F
\* keys the voice anew.
FlashEvent(q, e) ==
  CASE e.kind \in {"none", "slide"} -> q
    [] e.kind = "break" -> [q EXCEPT !.row = Rows - 1]
    [] e.kind = "speed" -> [q EXCEPT !.speed = e.arg + 1]
    [] e.kind = "off"   -> KeyOff(q, e.voice)
    [] e.kind = "note"  -> KeyOn(KeyOff(q, e.voice), e.voice)

\* Faulty variant: the end is reported once.
FlashNextOnce(q) ==
  LET turned == q.row + 1 >= Rows
      ended  == turned /\ q.order + 1 > Len(song.orders)
  IN  [q EXCEPT !.row = IF turned THEN 0 ELSE @ + 1,
                !.order = IF ended THEN 1 ELSE IF turned THEN @ + 1 ELSE @,
                !.looping = ended]

\* The row after the one just played; the orders end at 0xFF or at the 52nd.
FlashNext(q) ==
  LET turned == q.row + 1 >= Rows
      ended  == turned /\ q.order + 1 > Len(song.orders)
  IN  [q EXCEPT !.row = IF turned THEN 0 ELSE @ + 1,
                !.order = IF ended THEN 1 ELSE IF turned THEN @ + 1 ELSE @,
                !.looping = @ \/ ended]

FlashUpdate ==
  \/ XadWait("flash")
  \/ /\ XadTick("flash")
     /\ XadRow(FlashNext(Fold(FlashEvent, Ticked,
                              song.patterns[song.orders[p.order]][p.row + 1])),
               {<<p.order, p.row>>})

----------------------------------------------------------------------------
(* RAT (rat.cpp). *)

\* Instrument and volume stay with the channel until the next event.
Touched(q, events) ==
  [q EXCEPT !.channel = @ \union {e.voice : e \in ToSet(events)}]

RatFresh ==
  Plr(song.speed) @@
  [order |-> song.start, row |-> 0, channel |-> {}]

RatRewind == MayRewind("rat", 0) /\ Rewound(0, RatFresh)

RatEvent(q, e) ==
  CASE e.kind = "note" -> KeyOn(KeyOff(q, e.voice), e.voice)
    [] e.kind = "off"  -> KeyOff(q, e.voice)
    [] OTHER -> q

\* The effects run after every note of the row, on the next row's position.
RatEffect(q, e) ==
  CASE e.kind = "speed" -> [q EXCEPT !.speed = e.arg]
    [] e.kind = "jump" /\ e.arg < song.end ->
         [q EXCEPT !.order = e.arg, !.row = 0,
                   !.looping = @ \/ e.arg <= q.order]
    [] e.kind = "jump" /\ e.arg >= song.end ->
         [q EXCEPT !.order = 0, !.row = 0, !.looping = TRUE]
    [] e.kind = "break" -> [q EXCEPT !.row = Rows]
    [] OTHER -> q

RatTurn(q) ==
  LET ended == Byte(q.order + 1) = song.end
  IN  [q EXCEPT !.row = 0,
                !.order = IF ended THEN song.loop ELSE Byte(@ + 1),
                !.looping = @ \/ ended]

RatUpdate ==
  \/ XadWait("rat")
  \/ /\ XadTick("rat")
     /\ song.orders[p.order + 1] \notin DOMAIN song.patterns
     /\ XadRow(RatTurn(Ticked), {})
  \/ /\ XadTick("rat")
     /\ song.orders[p.order + 1] \in DOMAIN song.patterns
     /\ LET events == song.patterns[song.orders[p.order + 1]][p.row + 1]
            q == Fold(RatEvent, Touched(Ticked, events), events)
            r == Fold(RatEffect, [q EXCEPT !.row = @ + 1], events)
        IN  XadRow(IF r.row >= Rows THEN RatTurn(r) ELSE r,
                   {<<p.order, p.row>>})

----------------------------------------------------------------------------
(* HYBRID (hybrid.cpp): an order gives each voice a track of 64 rows.  It *)
(* counts its own ticks, plr.speed being 1.                                *)

HybridFresh ==
  [Plr(1) EXCEPT !.on = song.voices] @@
  [order |-> 0, row |-> 0, tempo |-> 6, ticks |-> 1, slid |-> {}]

HybridRewind == MayRewind("hybrid", 0) /\ Rewound(0, HybridFresh)

HybridEvent(q, e, v) ==
  CASE e.kind = "none"  -> q
    [] e.kind = "note"  -> [KeyOn(q, v) EXCEPT !.slid = @ \ {v}]
    [] e.kind = "slide" -> [q EXCEPT !.slid = @ \union {v}]
    [] e.kind = "speed" -> [q EXCEPT !.tempo = e.arg]
    [] e.kind = "break" -> [q EXCEPT !.row = Rows - 1]
    [] e.kind = "jump"  -> [q EXCEPT !.order = e.arg, !.row = Rows - 1,
                                     !.looping = @ \/ e.arg <= p.order]

\* Each voice is read from the order the voices before it have left: a jump
\* takes the voices after it to the order it names at once, in this very row.
HybridVoice(q, v) ==
  HybridEvent(q, song.tracks[song.orders[q.order + 1][v]][p.row + 1], v)

HybridNext(q) ==
  IF q.row + 1 < Rows THEN [q EXCEPT !.row = @ + 1]
  ELSE [q EXCEPT !.row = 0, !.order = Byte(@ + 1)]

\* Fine slides write the frequency with the key bit set, on every tick.
HybridSlides(q) == [q EXCEPT !.on = @ \union q.slid]

HybridUpdate ==
  /\ XadTick("hybrid")
  /\ \/ /\ Byte(p.ticks + 255) # 0
        /\ XadRow(HybridSlides([Ticked EXCEPT !.ticks = Byte(@ + 255)]), {})
     \/ /\ Byte(p.ticks + 255) = 0
        /\ LET q == FoldLeft(HybridVoice, [Ticked EXCEPT !.ticks = p.tempo],
                             SetToSortSeq(song.voices, <))
           IN  XadRow(HybridSlides(HybridNext(q)), {<<p.order, p.row>>})

----------------------------------------------------------------------------
(* BMF (bmf.cpp): a stream of events for each voice, with counted loops.   *)
(* pc is the voice whose stream update() is reading.                       *)

Ended == 65535   \* stream_position of a stream at its end

BmfFresh ==
  Plr(song.speed) @@
  [at      |-> [v \in DOMAIN song.streams |-> 1],
   delay   |-> [v \in DOMAIN song.streams |-> 0],
   mark    |-> [v \in DOMAIN song.streams |-> 1],
   count   |-> [v \in DOMAIN song.streams |-> 0],
   active  |-> Cardinality(DOMAIN song.streams)]

BmfRewind == MayRewind("bmf", 0) /\ Rewound(0, BmfFresh)

BmfBegin == XadTick("bmf") /\ Within(Ticked, 1)

InBmf == fmt = "bmf" /\ pc \in DOMAIN song.streams
BmfEvent == song.streams[pc][p.at[pc]]

\* A voice with nothing to do on this tick.
BmfIdle ==
  /\ InBmf
  /\ \/ p.at[pc] = Ended /\ Within(p, pc + 1)
     \/ /\ p.at[pc] # Ended
        /\ p.delay[pc] > 0
        /\ Within([p EXCEPT !.delay[pc] = @ - 1], pc + 1)

BmfReads == InBmf /\ p.at[pc] # Ended /\ p.delay[pc] = 0

\* Faulty variant: a loop returns to its mark, which sets its count again.
BmfCrossAgain ==
  /\ BmfReads
  /\ \/ /\ BmfEvent.cmd = "end"
        /\ Within([p EXCEPT !.at[pc] = Ended, !.active = @ - 1], pc + 1)
     \/ /\ BmfEvent.cmd = "mark"
        /\ Within([p EXCEPT !.at[pc] = @ + 1, !.mark[pc] = p.at[pc],
                            !.count[pc] = BmfEvent.arg], pc)
     \/ /\ BmfEvent.cmd = "loop"
        /\ p.count[pc] > 0
        /\ Within([p EXCEPT !.at[pc] = p.mark[pc], !.count[pc] = @ - 1], pc)
     \/ /\ BmfEvent.cmd = "loop"
        /\ p.count[pc] = 0
        /\ Within([p EXCEPT !.at[pc] = @ + 1], pc)

\* The cross events: the end of the stream, the mark of a loop and its end.
BmfCross ==
  /\ BmfReads
  /\ \/ /\ BmfEvent.cmd = "end"
        /\ Within([p EXCEPT !.at[pc] = Ended, !.active = @ - 1], pc + 1)
     \/ /\ BmfEvent.cmd = "mark"
        /\ Within([p EXCEPT !.at[pc] = @ + 1, !.mark[pc] = p.at[pc] + 1,
                            !.count[pc] = BmfEvent.arg], pc)
     \/ /\ BmfEvent.cmd = "loop"
        /\ p.count[pc] > 0
        /\ Within([p EXCEPT !.at[pc] = p.mark[pc], !.count[pc] = @ - 1], pc)
     \/ /\ BmfEvent.cmd = "loop"
        /\ p.count[pc] = 0
        /\ Within([p EXCEPT !.at[pc] = @ + 1], pc)

\* A normal event: a note, a rest or a speed, and the delay that follows it.
BmfNormal ==
  /\ BmfReads
  /\ BmfEvent.cmd \in {"note", "off", "speed"}
  /\ LET q == [p EXCEPT !.at[pc] = @ + 1, !.delay[pc] = BmfEvent.delay]
     IN  Within(CASE BmfEvent.cmd = "note"  -> KeyOn(KeyOff(q, pc), pc)
                  [] BmfEvent.cmd = "off"   -> KeyOff(q, pc)
                  [] BmfEvent.cmd = "speed" -> [q EXCEPT !.speed = BmfEvent.arg,
                                                         !.counter = BmfEvent.arg],
                pc + 1)

\* After the last voice: when every stream has ended, all start again.
BmfEnd ==
  /\ fmt = "bmf"
  /\ pc = Cardinality(DOMAIN song.streams) + 1
  /\ XadRow(IF p.active > 0 THEN p
            ELSE [p EXCEPT !.at = [v \in DOMAIN @ |-> 1],
                           !.active = Cardinality(DOMAIN song.streams),
                           !.looping = TRUE], {})

BmfUpdate == XadWait("bmf") \/ BmfBegin \/ BmfIdle \/ BmfCross \/ BmfNormal \/ BmfEnd

----------------------------------------------------------------------------
XadRewind ==
  \/ HypRewind \/ PsiRewind \/ FlashRewind \/ RatRewind \/ HybridRewind
  \/ BmfRewind
XadUpdate ==
  \/ HypUpdate \/ PsiUpdate \/ FlashUpdate \/ RatUpdate \/ HybridUpdate
  \/ BmfUpdate
============================================================================
