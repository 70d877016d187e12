------------------------------ MODULE DiskOpl ------------------------------
(***************************************************************************)
(* CDiskopl (diskopl.cpp): a Copl that writes what it is told to a file in *)
(* the RAW format, which CrawPlayer plays back.  A word of the file is a   *)
(* pair <<param, command>>; a command is a register, but for these:        *)
(*    <<n, 0>>   wait n ticks, a byte in which 0 stands for 256            *)
(*    <<0, 2>>   the next word is the length of a tick                     *)
(*    <<c, 2>>   select chip c - 1                                         *)
(*                                                                         *)
(* A player's refresh rate is represented by its period, in units of the   *)
(* 1192737 Hz that the code divides by the rate; 18.2 / rate is then       *)
(* period / 65535.                                                         *)
(***************************************************************************)
EXTENDS Integers, Sequences

CONSTANTS
  Channels,             \* channels per chip; 9 in the code
  Registers, Values,    \* what a player writes
  Periods,              \* of the players' refresh rates
  MaxWords              \* bound: no command is recorded beyond this length

Chips == {0, 1}

(* The longest period that the byte of the wait command can express.       *)
MaxPeriod == 65535 * 256 - 1

ASSUME DiskAssumption ==
  /\ Channels \in 1 .. 9 /\ MaxWords \in Nat
  /\ Registers \subseteq 0 .. 255 /\ Values \subseteq 0 .. 255
  /\ Periods \subseteq 1 .. MaxPeriod

VARIABLES
  file,         \* the words after the header
  currChip,
  old_freq,     \* the period the last tick had, 0 before the first
  diskDel,      \* del: ticks of the file in one of the player, less one
  nowrite,
  heard,        \* ghost: the writes recorded, each with its chip and time
  now, slack,   \* ghosts: the time recorded, and what rounding may take off it
  fileChip,     \* ghost: the chip selected in the file
  misplaced     \* ghost: a write was recorded for another chip than that

diskVars == <<file, currChip, old_freq, diskDel, nowrite, heard, now, slack, fileChip, misplaced>>

op_table == << 0, 1, 2, 8, 9, 10, 16, 17, 18 >>

Recording == Len(file) < MaxWords

-----------------------------------------------------------------------------
Hears(words) ==
  /\ heard' = heard \o [i \in DOMAIN words |->
                 [chip |-> currChip, reg |-> words[i][2], val |-> words[i][1],
                  at |-> now, slack |-> slack]]
  /\ misplaced' = (misplaced \/ fileChip # currChip)

diskwrite(words) ==
  /\ file' = file \o words
  /\ Hears(words)
  /\ UNCHANGED <<currChip, old_freq, diskDel, nowrite, now, slack, fileChip>>

write(reg, val) ==
  /\ Recording
  /\ IF nowrite THEN UNCHANGED diskVars ELSE diskwrite(<< <<val, reg>> >>)

(* Key off and fastest release for every channel of the current chip, also *)
(* while nothing is to be written.                                         *)
StopInstruments ==
  [i \in 1 .. 2 * Channels |->
     IF i % 2 = 1 THEN <<0, 176 + i \div 2>> ELSE <<255, 128 + op_table[i \div 2]>>]

diskinit ==
  /\ Recording
  /\ diskwrite(Append(StopInstruments, <<0, 189>>))

setchip(n) ==
  /\ Recording
  /\ currChip' = n
  /\ IF nowrite THEN UNCHANGED <<file, fileChip>>
     ELSE file' = Append(file, <<n + 1, 2>>) /\ fileChip' = n
  /\ UNCHANGED <<old_freq, diskDel, nowrite, heard, now, slack, misplaced>>

setnowrite(nw) ==
  /\ Recording
  /\ nowrite' = nw
  /\ UNCHANGED <<file, currChip, old_freq, diskDel, heard, now, slack, fileChip, misplaced>>

(***************************************************************************)
(* update(), which a frontend calls once per tick of the player.  A tick   *)
(* that is too long for a word of the file is divided evenly, and the      *)
(* remainder is lost.                                                      *)
(***************************************************************************)
Wait(period) == period \div 65535
Clock(period) == (period \div (Wait(period) + 1)) % 65536

SpeedWords(period) == << <<0, 2>>, <<Clock(period) % 256, Clock(period) \div 256>> >>
DelayWord(del) == <<(del + 1) % 256, 0>>

updateUnlessHidden(period) ==    \* faulty variant: no change of speed while nowrite
  LET del == IF period # old_freq THEN Wait(period) % 256 ELSE diskDel
  IN  /\ Recording
      /\ old_freq' = period /\ diskDel' = del
      /\ file' = file \o (IF period # old_freq /\ ~nowrite THEN SpeedWords(period) ELSE <<>>)
                      \o (IF nowrite THEN <<>> ELSE <<DelayWord(del)>>)
      /\ IF nowrite THEN UNCHANGED <<now, slack>>
         ELSE now' = now + period /\ slack' = slack + Wait(period)
      /\ UNCHANGED <<currChip, nowrite, heard, fileChip, misplaced>>

update(period) ==
  LET del == IF period # old_freq THEN Wait(period) % 256 ELSE diskDel
  IN  /\ Recording
      /\ old_freq' = period /\ diskDel' = del
      /\ file' = file \o (IF period # old_freq THEN SpeedWords(period) ELSE <<>>)
                      \o (IF nowrite THEN <<>> ELSE <<DelayWord(del)>>)
      /\ IF nowrite THEN UNCHANGED <<now, slack>>
         ELSE now' = now + period /\ slack' = slack + Wait(period)
      /\ UNCHANGED <<currChip, nowrite, heard, fileChip, misplaced>>

DiskInit ==
  /\ file = <<>> /\ currChip = 0 /\ old_freq = 0 /\ diskDel = 1 /\ nowrite = FALSE
  /\ heard = <<>> /\ now = 0 /\ slack = 0 /\ fileChip = 0 /\ misplaced = FALSE

DiskNext ==
  \/ \E reg \in Registers, val \in Values : write(reg, val)
  \/ diskinit
  \/ \E n \in Chips : setchip(n)
  \/ \E nw \in BOOLEAN : setnowrite(nw)
  \/ \E period \in Periods : update(period)
=============================================================================
