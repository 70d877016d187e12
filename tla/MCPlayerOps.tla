----------------------------- MODULE MCPlayerOps -----------------------------
(***************************************************************************)
(* Songs for checking Player: songs of 60 and 80 ms on one chip and on     *)
(* two, songs that change their speed or tempo, stop, or take longer than  *)
(* the limit of songlength().                                              *)
(***************************************************************************)
EXTENDS Player, MCPlayer

OpsCommands ==
  {<<255, 0, 0>>, <<7, 2, 8>>, <<7, 0, 0>>, <<13, 0, 1>>, <<15, 0, 0>>, <<15, 0, 1>>,
   <<18, 0, 1>>, <<19, 0, 7>>, <<29, 0, 2>>, <<1, 0, 9>>, <<14, 0, 1>>}

OpsSongs ==
  { MakeSong(CellOf(<<50, 1>>, a), CellOf(<<0, 0>>, b), CellOf(<<20, 2>>, <<12, 2, 0>>),
             {0, 1}, fs, <<>>) :
      a \in OpsCommands, b \in {<<255, 0, 0>>, <<7, 5, 0>>}, fs \in {{}, {"Opl3"}} }

=============================================================================
