------------------------------- MODULE MCTape -------------------------------
(***************************************************************************)
(* Short recordings on one channel of two chips, and captured files.  The  *)
(* periods take one and two ticks of the file, the second with a remainder.*)
(***************************************************************************)
EXTENDS Tape

MCPeriods == {23854, 2 * 65535 - 1}


Capture(tail, tagwords) ==
  [clock |-> 40000, tagwords |-> tagwords,
   words |-> << <<1, 96>>, <<2, 2>>, <<7, 97>>, <<2, 0>>, <<0, 2>>, <<16, 39>>, <<5, 97>>, <<3, 0>> >>
             \o tail]

MCCaptures ==
  {Capture(<<>>, 0), Capture(<< <<0, 2>> >>, 0), Capture(<< <<9, 2>>, <<4, 255>> >>, 0),
   Capture(<<EndMarker>>, 2), Capture(<< <<2, 2>>, <<0, 0>>, EndMarker, <<8, 98>> >>, 0),
   [clock |-> 0, tagwords |-> 0, words |-> << <<2, 0>>, EndMarker >>]}
=============================================================================
