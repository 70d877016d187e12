---------------------------- MODULE MCSequencer ----------------------------
(***************************************************************************)
(* Songs for checking ModSequencer: two channels, two patterns of two rows *)
(* and order lists of up to four entries with and without jump markers.    *)
(* Every sequencing command occurs in every channel, alone and against any *)
(* other one in the same row.  The broken songs name positions or patterns *)
(* that do not exist.                                                      *)
(***************************************************************************)
EXTENDS ModSequencer

Plain == [note |-> 0, inst |-> 0, command |-> 0, param1 |-> 0, param2 |-> 0]
Fx(c, p1, p2) == [Plain EXCEPT !.command = c, !.param1 = p1, !.param2 = p2]

Jumps == {Fx(11, 0, 0), Fx(11, 0, 1), Fx(11, 0, 2), Fx(11, 0, 9),
          Fx(13, 0, 0), Fx(13, 0, 1), Fx(13, 1, 0)}
Timing == {Fx(7, 0, 0), Fx(14, 8, 1), Fx(29, 0, 2), Fx(15, 0, 0), Fx(15, 3, 2),
           Fx(18, 0, 0), Fx(18, 0, 1), Fx(19, 0, 0), Fx(19, 0, 2), Fx(14, 4, 1)}

OrderList(q) == [i \in 0 .. (Len(q) - 1) |-> q[i + 1]]

(* Pattern 0 plays a and b in its first row, pattern 1 plays c in its last. *)
(* The first len entries of q are the song's.                              *)
MakeSong(q, len, restart, a, b, c, speed0, fs) ==
  [length |-> len, norders |-> Len(q), restartpos |-> restart, order |-> OrderList(q),
   npats |-> 2, nrows |-> 2, nchans |-> 2, active |-> {0, 1},
   initspeed |-> speed0, bpm |-> 125, flags |-> fs,
   tracks |-> << [r \in 0 .. 1 |-> IF r = 0 THEN a ELSE Plain],
                 [r \in 0 .. 1 |-> IF r = 0 THEN b ELSE Plain],
                 [r \in 0 .. 1 |-> IF r = 1 THEN c ELSE Plain] >>,
   trackord |-> [p \in 0 .. 1 |-> [k \in 0 .. 1 |->
                   IF p = 0 THEN k + 1 ELSE IF k = 0 THEN 3 ELSE 0]]]

(* Order lists (128 + n jumps to position n) with their restart positions. *)
PlainOrders == { << <<0, 1>>, 0>>, << <<0, 1, 0>>, 1>> }
MarkerOrders == { << <<0, 128>>, 1>>,            \* wraps onto a marker
                  << <<129, 0, 1>>, 0>>,         \* begins with a jump
                  << <<0, 130, 1, 128>>, 2>>,    \* forward, then back
                  << <<0, 129, 1>>, 2>> }        \* jumps to itself
Orders == PlainOrders \cup MarkerOrders

MCShapes ==
  (Orders \X (Jumps \cup {Plain}) \X (Jumps \cup Timing)
          \X {Plain, Fx(11, 0, 0), Fx(13, 0, 1)} \X {1} \X {{}})
  \cup (PlainOrders \X Timing \X Timing \X {Plain} \X {0, 2} \X {{}, {"Decimal"}})

ClosedSongs ==
  { MakeSong(x[1][1], Len(x[1][1]), x[1][2], x[2], x[3], x[4], x[5], x[6]) : x \in MCShapes }

(* Order array, length and restart position as some files have them.       *)
BrokenOrders == { << <<0, 140>>, 2, 0>>,        \* jumps out of the array
                  << <<0, 130, 1>>, 2, 0>>,     \* jumps to beyond the song
                  << <<0, 7>>, 2, 0>>,          \* names no pattern
                  << <<0, 129>>, 1, 9>>,        \* restarts out of the array
                  << <<0, 1>>, 1, 1>>,          \* restarts beyond the song
                  << <<1, 0>>, 0, 0>>,          \* has no entry
                  << <<254, 0>>, 0, 0>> }       \* nor a pattern it begins with

BrokenSongs ==
  { MakeSong(x[1][1], x[1][2], x[1][3], x[2], x[3], Plain, 1, {}) :
      x \in BrokenOrders \X (Jumps \cup {Plain}) \X {Plain, Fx(15, 0, 0)} }

MCSongs == ClosedSongs \cup BrokenSongs

ASSUME MCSongsClosed == ClosedSongs = { s \in MCSongs : Closed(s) }
=============================================================================
