------------------------------ MODULE MCPlayer ------------------------------
(***************************************************************************)
(* Songs for checking ModPlayer: two channels on two chips of one voice    *)
(* each, one pattern of two rows.                                          *)
(***************************************************************************)
EXTENDS ModPlayer

SA2Notes == [i \in 0 .. 11 |-> <<340, 363, 385, 408, 432, 458, 485, 514, 544, 577, 611, 647>>[i + 1]]

(* Instrument 0 is additive with key scaling, 1 is not and has a pre-slide *)
(* and a special arpeggio.                                                 *)
Data(am, mod, car) == [i \in 0 .. 10 |-> IF i = 0 THEN am ELSE IF i = 9 THEN mod
                                          ELSE IF i = 10 THEN car ELSE 0]
Instruments ==
  [k \in 0 .. 1 |->
     IF k = 0 THEN [data |-> Data(1, 64 + 10, 192 + 63), arpstart |-> 0, arpspeed |-> 0,
                    misc |-> 0, slide |-> 0]
     ELSE [data |-> Data(0, 63, 5), arpstart |-> 1, arpspeed |-> 2, misc |-> 64, slide |-> -3]]

(* Note, volume, key-off, absolute and odd entries, a jump, the end mark.  *)
Arpeggios ==
  [p \in 0 .. 255 |->
     CASE p = 1 -> [cmd |-> 1, list |-> 12]   [] p = 2 -> [cmd |-> 252, list |-> 40]
       [] p = 3 -> [cmd |-> 253, list |-> 148] [] p = 4 -> [cmd |-> 1, list |-> 98]
       [] p = 5 -> [cmd |-> 254, list |-> 2]
       [] OTHER -> [cmd |-> 255, list |-> 0]]

MkCell(note, ins, c, p1, p2) ==
  [note |-> note, inst |-> ins, command |-> c, param1 |-> p1, param2 |-> p2]
Plain == MkCell(0, 0, 255, 0, 0)

(* Channel 0 plays a and b, channel 1, unless it is switched off, plays c. *)
MakeSong(a, b, c, chans, fs, arps) ==
  [length |-> 1, norders |-> 1, restartpos |-> 0, order |-> [i \in {0} |-> 0],
   npats |-> 1, nrows |-> 2, nchans |-> 2, active |-> chans,
   initspeed |-> 2, bpm |-> 125, flags |-> fs, inst |-> Instruments,
   notetable |-> SA2Notes, arp |-> arps,
   tracks |-> << [r \in 0 .. 1 |-> IF r = 0 THEN a ELSE b],
                 [r \in 0 .. 1 |-> IF r = 0 THEN c ELSE Plain] >>,
   trackord |-> [p \in {0} |-> [k \in 0 .. 1 |-> k + 1]]]

CellOf(note, c) == MkCell(note[1], note[2], c[1], c[2], c[3])

Commands ==     \* command and parameters, each at both ends of its range
  {<<0, 4, 7>>, <<1, 0, 9>>, <<1, 15, 15>>, <<2, 0, 9>>, <<2, 10, 10>>, <<3, 1, 0>>, <<4, 3, 9>>,
   <<5, 0, 9>>, <<6, 4, 0>>, <<8, 0, 0>>, <<9, 9, 0>>, <<9, 0, 9>>, <<10, 15, 0>>, <<12, 4, 0>>,
   <<14, 0, 1>>, <<14, 1, 0>>, <<14, 3, 1>>, <<14, 4, 9>>, <<14, 5, 9>>, <<14, 6, 9>>, <<14, 7, 9>>,
   <<16, 0, 5>>, <<17, 2, 0>>, <<20, 6, 0>>, <<20, 0, 9>>, <<21, 9, 0>>, <<22, 1, 0>>,
   <<23, 0, 9>>, <<24, 0, 9>>, <<26, 0, 3>>, <<26, 3, 0>>, <<27, 1, 1>>, <<28, 1, 0>>, <<28, 2, 1>>}

(* Every command after every other on a low note, twice on a high one,     *)
(* with no note, a new note and a release in the second row.               *)
NextNotes == {<<0, 0>>, <<30, 2>>, <<127, 0>>}
Pairs ==
  { MakeSong(CellOf(<<1, 1>>, w[1]), CellOf(w[2], w[3]), Plain, {0, 1}, {}, <<>>) :
      w \in Commands \X NextNotes \X Commands }
Repeats ==
  { MakeSong(CellOf(<<96, 2>>, w[1]), CellOf(w[2], w[1]), Plain, {0, 1}, {}, <<>>) :
      w \in Commands \X NextNotes }

(* Every command in both channels, under each of the loaders' flags.       *)
FlagSets == {{"Faust"}, {"NoKeyOn", "Decimal"}, {"Opl3", "Tremolo", "Vibrato"}}
Flagged ==
  { MakeSong(CellOf(<<50, 1>>, w[1]), CellOf(<<0, 2>>, w[1]), CellOf(<<1, 1>>, w[2]),
             w[3], w[4], <<>>) :
      w \in Commands \X {<<1, 15, 15>>, <<10, 15, 0>>, <<0, 4, 7>>}
            \X {{0}, {0, 1}} \X FlagSets }

(* The special arpeggio of instrument 2 below every command.               *)
Arped ==
  { MakeSong(CellOf(<<50, 2>>, w[1]), CellOf(w[2], <<255, 0, 0>>), Plain, {0, 1}, {}, Arpeggios) :
      w \in Commands \X {<<0, 0>>, <<30, 1>>, <<127, 0>>} }

MCSongs == Pairs \cup Repeats \cup Flagged \cup Arped

(* The checked songs are what the proofs about the channels ask for.  They *)
(* are gentle besides, unless they combine a key-off with the retrigger    *)
(* command or slide down by more than half of their lowest note, 337.      *)
ASSUME MCSongsPlayable == \A s \in MCSongs : Playable(s)
ASSUME MCSongsGentle ==
  \A s \in MCSongs :
    Gentle(s) <=> /\ ~(Retriggering(s) /\ Releasing(s))
                  /\ \A cell \in PlayedCells(s) : cell.command = 2 => Amount(s, cell) <= 168
=============================================================================
