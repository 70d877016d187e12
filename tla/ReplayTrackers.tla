--------------------------- MODULE ReplayTrackers ---------------------------
(***************************************************************************)
(* Replayers of patterns: an order list of patterns whose rows all voices  *)
(* share.  A song's pattern is a sequence of rows, a row the sequence of   *)
(* the events of its voices, in the order update() reads them.             *)
(***************************************************************************)
EXTENDS ReplayXad

CONSTANTS HscOrders,  \* orders songpos counts through: 50 in the code
          S3mOrders   \* values of an unsigned char order: 256 in the code

----------------------------------------------------------------------------
(* HSC-Tracker (hsc.cpp).  key is the set of voices whose entry of the     *)
(* shadow adl_freq has the key bit, freq those with a frequency to slide   *)
(* from: rewind() resets neither, nor does the constructor.                *)

HscGoto(b) == b >= 128 /\ b <= 177     \* order bytes that are not patterns
HscEnd(b) == b >= 178

HscConstructed(tune) ==
  [key : SUBSET tune.voices, freq : SUBSET tune.voices]

HscFresh(q) ==
  [row |-> 0, order |-> 0, break |-> FALSE, speed |-> 2, del |-> 1,
   ended |-> FALSE, mode6 |-> FALSE, drums |-> {}, fadein |-> 0,
   on |-> {}, key |-> q.key, freq |-> q.freq]

HscRewind == MayRewind("hsc", 0) /\ Rewound(0, HscFresh(p))

HscWait ==
  /\ MayUpdate("hsc")
  /\ p.del > 1
  /\ Updated([p EXCEPT !.del = @ - 1], {}, ~p.ended)

\* Where the order list leads: to its start from its end, or along a goto.
HscArranged(q) ==
  LET b == song.orders[q.order + 1]
  IN  IF HscEnd(b) THEN [q EXCEPT !.order = 0, !.ended = TRUE]
      ELSE IF HscGoto(b) THEN [q EXCEPT !.order = b - 128, !.row = 0, !.ended = TRUE]
      ELSE q

\* A note keys its voice, but for a drum; a slide without a note writes the
\* frequency with the shadow's key bit.
HscEvent(q, e) ==
  CASE e.kind = "inst"  -> KeyOff(q, e.voice)
    [] e.kind = "pause" -> [KeyOff(q, e.voice) EXCEPT !.key = @ \ {e.voice}]
    [] e.kind = "note" /\ ~(q.mode6 /\ e.voice \in song.drums) ->
         [KeyOn(q, e.voice) EXCEPT !.key = @ \union {e.voice},
                                   !.freq = @ \union {e.voice}]
    [] e.kind = "note" /\ q.mode6 /\ e.voice \in song.drums ->
         [KeyOff(q, e.voice) EXCEPT !.key = @ \ {e.voice},
                                    !.freq = @ \union {e.voice},
                                    !.drums = @ \union {e.voice}]
    [] e.kind = "slide" ->
         [(IF e.voice \in q.key THEN KeyOn(q, e.voice) ELSE KeyOff(q, e.voice))
            EXCEPT !.freq = @ \union {e.voice}]
    [] e.kind = "break"  -> [q EXCEPT !.break = TRUE]
    [] e.kind = "fadein" -> [q EXCEPT !.fadein = 31]
    [] e.kind = "mode6"  -> [q EXCEPT !.mode6 = e.arg = 1]
    [] e.kind = "jump"   -> [q EXCEPT !.break = TRUE, !.order = e.arg, !.ended = TRUE]
    [] e.kind = "speed"  -> [q EXCEPT !.speed = e.arg + 1]

HscNext(q) ==
  LET turned == q.break \/ q.row + 1 = Rows
      order  == (q.order + 1) % HscOrders
  IN  [q EXCEPT !.del = q.speed, !.break = FALSE,
                !.row = IF turned THEN 0 ELSE @ + 1,
                !.order = IF turned THEN order ELSE @,
                !.ended = @ \/ (turned /\ order = 0)]

\* An order that leads to no pattern takes the time of a row.
HscRow ==
  /\ MayUpdate("hsc")
  /\ p.del = 1
  /\ LET faded == [p EXCEPT !.fadein = IF @ > 0 THEN @ - 1 ELSE 0]
         q == HscArranged(faded)
         b == song.orders[q.order + 1]
         found == b \in DOMAIN song.patterns
         r == IF found THEN Fold(HscEvent, q, song.patterns[b][q.row + 1]) ELSE q
     IN  Updated(HscNext(r), IF found THEN {<<q.order, q.row>>} ELSE {},
                 ~HscNext(r).ended)

HscUpdate == HscWait \/ HscRow

----------------------------------------------------------------------------
(* Scream Tracker 3 (s3m.cpp), and DMO modules (dmo.cpp), which it plays.  *)

S3mFresh ==
  [order |-> 0, row |-> 0, speed |-> song.speed, del |-> 0,
   ended |-> FALSE, start |-> 0, count |-> 0, on |-> {},
   channel |-> {}]

S3mRewind == MayRewind("s3m", 0) /\ Rewound(0, S3mFresh)

S3mWait ==
  /\ MayUpdate("s3m")
  /\ p.del > 0
  /\ Updated([p EXCEPT !.del = @ - 1], {}, ~p.ended)

S3mOrder(q) ==
  IF q.order < Len(song.orders) THEN song.orders[q.order + 1] ELSE 255

\* The first order at or after q's that names a pattern: 254 and patterns
\* that do not exist are skipped, 255 and the end of the list lead back to
\* the start, which only a list without a pattern reaches twice.
S3mFound(q) ==
  LET Names(i) == song.orders[i + 1] \in DOMAIN song.patterns
      ends == {i \in q.order .. Len(song.orders) :
                 i >= Len(song.orders) - 1 \/ song.orders[i + 1] = 255}
      stop == IF ends = {} THEN q.order ELSE Min(ends)
      here == {i \in q.order .. stop : i < Len(song.orders) /\ Names(i)}
      again == {i \in 0 .. Len(song.orders) - 1 :
                  Names(i) /\ \A j \in 0 .. i : song.orders[j + 1] # 255}
  IN  IF here # {} THEN [q EXCEPT !.order = Min(here)]
      ELSE IF again # {} THEN [q EXCEPT !.order = Min(again), !.ended = TRUE]
      ELSE [q EXCEPT !.order = 0, !.ended = TRUE]

\* Faulty variant: a jump to its own order is taken for one that goes on.
S3mBackBeyond(q, arg) == arg < q.order

\* A jump that ends the song.
S3mBack(q, arg) == arg <= q.order

\* q.break holds only within a row; q.at is the row being read.  Slides and
\* vibrato change only the pitch that a voice's channel remembers.
S3mEvent(q, e) ==
  CASE e.kind = "note"  -> KeyOn(KeyOff(q, e.voice), e.voice)
    [] e.kind = "off"   -> KeyOff(q, e.voice)
    [] e.kind = "speed" -> [q EXCEPT !.speed = e.arg]
    [] e.kind = "jump"  -> [q EXCEPT !.order = e.arg, !.row = 0, !.break = TRUE,
                                     !.ended = @ \/ S3mBack(q, e.arg)]
    [] e.kind = "break" /\ ~q.break ->
         [q EXCEPT !.row = e.arg, !.break = TRUE,
                   !.order = (@ + 1) % S3mOrders,
                   !.ended = @ \/ (q.order + 1) % S3mOrders = 0]
    [] e.kind = "start" -> [q EXCEPT !.start = q.at]
    [] e.kind = "loop" /\ q.count = 0 ->
         [q EXCEPT !.count = e.arg, !.row = q.start, !.break = TRUE]
    [] e.kind = "loop" /\ q.count > 1 ->
         [q EXCEPT !.count = @ - 1, !.row = q.start, !.break = TRUE]
    [] e.kind = "loop" /\ q.count = 1 -> [q EXCEPT !.count = 0]
    [] e.kind = "delay" -> [q EXCEPT !.del = Byte(q.speed * e.arg + 255)]
    [] OTHER -> q

S3mNext(q) ==
  LET turned == ~q.break /\ q.row + 1 = Rows
      order  == (q.order + 1) % S3mOrders
  IN  [q EXCEPT !.del = IF @ = 0 THEN Byte(q.speed + 255) ELSE @,
                !.row = IF q.break THEN @ ELSE IF turned THEN 0 ELSE @ + 1,
                !.order = IF turned THEN order ELSE @,
                !.start = IF turned THEN 0 ELSE @,
                !.ended = @ \/ (turned /\ order = 0)]

\* The fields a row uses only while it is read.
RowBegun(q) == q @@ [break |-> FALSE, at |-> q.row]
RowDone(q) == [f \in DOMAIN p |-> q[f]]

S3mRow ==
  /\ MayUpdate("s3m")
  /\ p.del = 0
  /\ LET q == S3mFound(p)
         b == S3mOrder(q)
         events == song.patterns[b][q.row + 1]
         r == RowDone(S3mNext(Fold(S3mEvent, Touched(RowBegun(q), events), events)))
     IN  IF b \in DOMAIN song.patterns
         THEN Updated(r, {<<q.order, q.row, q.count>>}, ~r.ended)
         ELSE Updated(q, {}, ~q.ended)

S3mUpdate == S3mWait \/ S3mRow

----------------------------------------------------------------------------
(* FMKing (fmk.cpp).  A jump or a break plays the row it leads to from     *)
(* inside handle_row(), which calls itself: stack holds the next track of  *)
(* every call under way, cells the row m_cells was last loaded with.  rows *)
(* notes the rows this update() has come to: each is handled a second time *)
(* by the tick 0 that follows.                                             *)

FmkFresh ==
  [order |-> 0, row |-> 0, tick |-> 0, speed |-> song.speed,
   ended |-> FALSE, pattern |-> song.orders[1], on |-> {},
   channel |-> {}, stack |-> <<>>, cells |-> <<0, 0>>, rows |-> {}]

FmkRewind == MayRewind("fmk", 0) /\ Rewound(0, FmkFresh)

FmkCells(q) == [q EXCEPT !.cells = <<q.pattern, q.row>>, !.stack = <<1>> \o @]
FmkComes(q) == [FmkCells(q) EXCEPT !.rows = @ \union {<<q.order, q.row>>}]

\* Where in update() the outermost handle_row() was called.
OnTick == 1
OnNextRow == 2

\* After the end update() does nothing.
FmkOver == MayUpdate("fmk") /\ p.ended /\ Updated(p, {}, FALSE)

FmkBegin ==
  /\ MayUpdate("fmk")
  /\ ~p.ended
  /\ Within(CASE n = 0 -> FmkComes(p)
              [] n > 0 /\ p.tick = 0 -> FmkCells(p)
              [] OTHER -> p, OnTick)

\* The order list ends at its length or, for a row that runs into it, at 0.
FmkTo(q, order, row) ==
  [q EXCEPT !.order = order, !.row = row, !.tick = 0, !.pattern = song.orders[order + 1]]

FmkEvent(q, e) ==
  CASE e.kind = "cut"   -> KeyOff(q, e.voice)
    [] e.kind = "note"  -> IF e.voice \in song.rhythm THEN KeyOff(q, e.voice)
                           ELSE KeyOn(KeyOff(q, e.voice), e.voice)
    [] e.kind = "speed" -> [q EXCEPT !.speed = IF e.arg > 0 THEN e.arg ELSE @]
    [] e.kind = "jump" /\ e.arg < Len(song.orders) -> FmkComes(FmkTo(q, e.arg, 0))
    [] e.kind = "break" /\ q.order + 1 < Len(song.orders) ->
         FmkComes(FmkTo(q, q.order + 1, e.arg))
    [] e.kind = "break" /\ q.order + 1 >= Len(song.orders) ->
         [q EXCEPT !.order = @ + 1, !.row = e.arg, !.tick = 0, !.ended = TRUE]
    [] OTHER -> q

\* handle_row() reads the cell of its next track, or returns to its caller:
\* the calls further down the stack go on with the cells the others loaded.
FmkTrack ==
  /\ fmt = "fmk" /\ pc # Idle
  /\ p.stack # <<>>
  /\ LET t == Head(p.stack)
         events == song.patterns[p.cells[1]][p.cells[2] + 1]
         q == [p EXCEPT !.stack = <<t + 1>> \o Tail(p.stack)]
     IN  Within(IF t > Len(events) THEN [p EXCEPT !.stack = Tail(@)]
                ELSE FmkEvent(Touched(q, <<events[t]>>), events[t]), pc)

FmkEnd(q) == Updated([q EXCEPT !.rows = {}], q.rows, ~q.ended)

\* The rest of a tick: after the last of a row, next_row() plays the next one
\* at once, and so does the first tick of the next call.
FmkTick ==
  /\ fmt = "fmk" /\ pc = OnTick
  /\ p.stack = <<>>
  /\ LET q == [p EXCEPT !.tick = @ + 1]
         turned == p.row + 1 >= Rows
         order == IF turned THEN p.order + 1 ELSE p.order
         over == turned /\ (order >= Len(song.orders) \/ song.orders[order + 1] = 0)
         r == [q EXCEPT !.tick = 0, !.row = IF turned THEN 0 ELSE @ + 1,
                        !.order = order]
     IN  CASE q.tick < p.speed -> FmkEnd(q)
           [] q.tick >= p.speed /\ over -> FmkEnd([r EXCEPT !.ended = TRUE])
           [] OTHER ->
                Within(FmkComes(IF turned
                                THEN [r EXCEPT !.pattern = song.orders[order + 1]]
                                ELSE r), OnNextRow)

FmkReturn ==
  /\ fmt = "fmk" /\ pc = OnNextRow
  /\ p.stack = <<>>
  /\ FmkEnd(p)

FmkUpdate == FmkOver \/ FmkBegin \/ FmkTrack \/ FmkTick \/ FmkReturn

----------------------------------------------------------------------------
TrackerRewind == HscRewind \/ S3mRewind \/ FmkRewind
TrackerUpdate == HscUpdate \/ S3mUpdate \/ FmkUpdate
=============================================================================
