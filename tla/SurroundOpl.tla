---------------------------- MODULE SurroundOpl ----------------------------
(***************************************************************************)
(* CSurroundopl (surroundopl.cpp): a Copl that passes every write on to    *)
(* two others, and transposes the notes of the second one a little, which  *)
(* makes a stereo effect of two mono chips.                                *)
(*                                                                         *)
(* A note is spread over two registers, the low eight bits of its F-number *)
(* in 0xa0 + v and the upper two with the block and the key-on bit in      *)
(* 0xb0 + v, and a player writes one at a time.  The filter therefore      *)
(* remembers what it was given and what it passed on, per chip, in two     *)
(* tables that are indexed with its own chip selection.                    *)
(***************************************************************************)
EXTENDS Integers

CONSTANTS
  Voices,         \* 0 .. 8
  Others,         \* registers that carry no pitch
  Lows, Highs, Values,  \* what is written to 0xa0 + v, 0xb0 + v, and the others
  Offsets         \* what a frontend may pass to set_offset()

Byte == 0 .. 255
Chips == {0, 1}

ASSUME SurroundAssumption ==
  /\ Voices \subseteq 0 .. 8
  /\ Others \subseteq Byte \ (160 .. 168 \cup 176 .. 184)
  /\ Lows \subseteq Byte /\ Highs \subseteq Byte /\ Values \subseteq Byte
  /\ 128 \in Offsets
  /\ Offsets \subseteq {1, 2, 4, 8, 16, 32, 64, 128, 256, 512, 1024}

A0(v) == 160 + v
B0(v) == 176 + v
Registers == {A0(v) : v \in Voices} \cup {B0(v) : v \in Voices} \cup Others

VARIABLES
  currChip,   \* the filter's own chip selection
  selected,   \* the chip selection of the two children
  offset,     \* 1 / offset is added to the frequency; FREQ_OFFSET is 128
  fmReg,      \* iFMReg: what was written, per chip and register
  tweaked,    \* iTweakedFMReg: what was passed on to the second child
  chipA, chipB,   \* the registers of the children
  tuned,      \* ghost: the offset at the last write to a voice's pitch
  parted,     \* ghost: init() has left the two selections different
  astray      \* ghost: a write was made after that and before a setchip()

tables == <<fmReg, tweaked>>
children == <<chipA, chipB>>
ghosts == <<tuned, parted, astray>>
surroundVars == <<currChip, selected, offset, tables, children, ghosts>>

Blank == [c \in Chips |-> [r \in Registers |-> 0]]

-----------------------------------------------------------------------------
(* A note from its two registers.                                          *)
Key(b) == (b \div 32) % 2
Block(b) == (b \div 4) % 8
FNum(a, b) == 256 * (b % 4) + a

(***************************************************************************)
(* The transposition.  The code computes it in doubles; for an offset that *)
(* is a power of two it is exact, and so are these divisions.              *)
(***************************************************************************)
NEWBLOCK_LIMIT == 32

Raised(fnum) == fnum * (offset + 1)     \* in units of 1 / offset

Transposed(fnum, block) ==
  CASE Raised(fnum) > (1023 - NEWBLOCK_LIMIT) * offset ->
         IF block > 6 THEN <<fnum, block>> ELSE <<Raised(fnum) \div (2 * offset), block + 1>>
    [] Raised(fnum) < NEWBLOCK_LIMIT * offset ->
         IF block = 0 THEN <<fnum, block>> ELSE <<(2 * Raised(fnum)) \div offset, block - 1>>
    [] OTHER -> <<Raised(fnum) \div offset, block>>

(* The "sanity check": a note that is still out of range is played as is.  *)
NewNote(fnum, block) ==
  IF Transposed(fnum, block)[1] > 1023 THEN <<fnum, block>> ELSE Transposed(fnum, block)

NewA0Whole(a, b) == NewNote(FNum(a, b), Block(b))[1]    \* faulty variant: without & 0xff
NewA0(a, b) == NewNote(FNum(a, b), Block(b))[1] % 256
NewB0(a, b) ==
  LET note == NewNote(FNum(a, b), Block(b))
  IN  32 * (b \div 32) + 4 * note[2] + ((note[1] \div 256) % 4)

-----------------------------------------------------------------------------
(***************************************************************************)
(* write().  Every write is noted in the tables under the filter's         *)
(* selection and reaches the children under theirs.                        *)
(***************************************************************************)

Remember(reg, val) == fmReg' = [fmReg EXCEPT ![currChip][reg] = val]

Known(reg) == fmReg[currChip][reg]

Passed(regs) ==         \* regs: the writes that reach the second child
  /\ chipB' = [chipB EXCEPT ![selected] =
                 [r \in Registers |-> IF r \in DOMAIN regs THEN regs[r] ELSE @[r]]]
  /\ tweaked' = [tweaked EXCEPT ![currChip] =
                   [r \in Registers |-> IF r \in DOMAIN regs THEN regs[r] ELSE @[r]]]

Given(reg, val) ==
  /\ Remember(reg, val)
  /\ chipA' = [chipA EXCEPT ![selected][reg] = val]
  /\ astray' = (astray \/ parted)
  /\ UNCHANGED <<currChip, selected, offset, parted>>

WriteLowOnly(v, val) == \* faulty variant: the playing note's block is not adjusted
  LET a == NewA0(val, Known(B0(v)))
  IN  /\ Given(A0(v), val)
      /\ Passed([r \in {A0(v)} |-> a])
      /\ tuned' = [tuned EXCEPT ![selected][v] = offset]

WriteLow(v, val) ==
  LET a == NewA0(val, Known(B0(v)))
      b == NewB0(val, Known(B0(v)))
  IN  /\ Given(A0(v), val)
      /\ Passed(IF Key(b) = 1 /\ tweaked[currChip][B0(v)] # b
                THEN [r \in {A0(v), B0(v)} |-> IF r = A0(v) THEN a ELSE b]
                ELSE [r \in {A0(v)} |-> a])
      /\ tuned' = [tuned EXCEPT ![selected][v] = offset]

WriteHigh(v, val) ==
  LET a == NewA0(Known(A0(v)), val)
      b == NewB0(Known(A0(v)), val)
  IN  /\ Given(B0(v), val)
      /\ Passed(IF tweaked[currChip][A0(v)] # a
                THEN [r \in {A0(v), B0(v)} |-> IF r = A0(v) THEN a ELSE b]
                ELSE [r \in {B0(v)} |-> b])
      /\ tuned' = [tuned EXCEPT ![selected][v] = offset]

WriteOther(reg, val) ==
  /\ Given(reg, val)
  /\ Passed([r \in {reg} |-> val])
  /\ UNCHANGED tuned

(* init() resets the children and their selection, and both tables, but    *)
(* not the filter's selection.                                             *)
init ==
  /\ selected' = 0
  /\ fmReg' = Blank /\ tweaked' = Blank /\ chipA' = Blank /\ chipB' = Blank
  /\ tuned' = [c \in Chips |-> [v \in Voices |-> offset]]
  /\ parted' = (currChip # 0) /\ astray' = FALSE
  /\ UNCHANGED <<currChip, offset>>

setchipChildren(n) ==   \* faulty variant: the filter's own selection is left out
  /\ selected' = n /\ parted' = FALSE
  /\ UNCHANGED <<currChip, offset, tables, children, tuned, astray>>

setchip(n) ==
  /\ selected' = n /\ currChip' = n /\ parted' = FALSE
  /\ UNCHANGED <<offset, tables, children, tuned, astray>>

set_offset(o) ==
  /\ offset' = o
  /\ UNCHANGED <<currChip, selected, tables, children, ghosts>>

(* The tables are set up by init(), which a player's rewind() calls first. *)
SurroundInit ==
  /\ currChip = 0 /\ selected = 0 /\ offset = 128
  /\ fmReg = Blank /\ tweaked = Blank /\ chipA = Blank /\ chipB = Blank
  /\ tuned = [c \in Chips |-> [v \in Voices |-> offset]]
  /\ parted = FALSE /\ astray = FALSE

SurroundNext ==
  \/ \E v \in Voices : \/ \E val \in Lows : WriteLow(v, val)
                       \/ \E val \in Highs : WriteHigh(v, val)
  \/ \E reg \in Others, val \in Values : WriteOther(reg, val)
  \/ init
  \/ \E n \in Chips : setchip(n)
  \/ \E o \in Offsets : set_offset(o)

SurroundSpec == SurroundInit /\ [][SurroundNext]_surroundVars

-----------------------------------------------------------------------------
(* Type invariant: every table and register holds bytes.                   *)
SurroundTypeOK ==
  /\ currChip \in Chips /\ selected \in Chips /\ offset \in Offsets
  /\ fmReg \in [Chips -> [Registers -> Byte]] /\ tweaked \in [Chips -> [Registers -> Byte]]
  /\ chipA \in [Chips -> [Registers -> Byte]] /\ chipB \in [Chips -> [Registers -> Byte]]
  /\ tuned \in [Chips -> [Voices -> Offsets]]
  /\ parted \in BOOLEAN /\ astray \in BOOLEAN

(***************************************************************************)
(* The tables are what the chips hold, so that the pitch of a note that    *)
(* was written in two halves is computed from the halves of one note, and  *)
(* "need to write out low bits" is decided on what the chip really has.    *)
(***************************************************************************)
TablesTrue == ~astray => fmReg = chipA /\ tweaked = chipB

(***************************************************************************)
(* "The right-channel is increased in frequency by itself divided by this  *)
(* amount" (surroundopl.h:33): while a note is on, the second chip plays   *)
(* the highest note of its block that is not above the raised frequency,   *)
(* or, where there is no block to move to, the same note; and it plays     *)
(* exactly when the first chip does.                                       *)
(***************************************************************************)
Octave(block) == << 1, 2, 4, 8, 16, 32, 64, 128 >>[block + 1]
Pitch(fnum, block) == fnum * Octave(block)

Raises(note, new, o) == /\ Pitch(new[1], new[2]) * o <= Pitch(note[1], note[2]) * (o + 1)
                        /\ Pitch(note[1], note[2]) * (o + 1) < Pitch(new[1] + 1, new[2]) * o

AtTheLimits(note, o) ==
  \/ note[2] = 7 /\ note[1] * (o + 1) > (1023 - NEWBLOCK_LIMIT) * o
  \/ note[2] = 0 /\ note[1] * (o + 1) < NEWBLOCK_LIMIT * o

InTune(note, new, o) ==
  IF AtTheLimits(note, o) THEN new = note ELSE Raises(note, new, o)

Note(chip, v) == << FNum(chip[A0(v)], chip[B0(v)]), Block(chip[B0(v)]) >>

Voiced(c, v) ==
  /\ Key(chipA[c][B0(v)]) = Key(chipB[c][B0(v)])
  /\ Key(chipA[c][B0(v)]) = 1 => InTune(Note(chipA[c], v), Note(chipB[c], v), tuned[c][v])

HarmonicAlways == \A c \in Chips, v \in Voices : Voiced(c, v)
Harmonic == ~astray => HarmonicAlways
=============================================================================
