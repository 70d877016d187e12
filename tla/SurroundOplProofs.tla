------------------------- MODULE SurroundOplProofs -------------------------
(***************************************************************************)
(* Proofs about SurroundOpl, for any voices, registers and values and for  *)
(* every admissible offset: the registers stay bytes, the tables are what  *)
(* the chips hold, and the second chip plays the first one's notes, raised *)
(* by the offset.                                                          *)
(***************************************************************************)
EXTENDS SurroundOpl, TLAPS

(* Division by a positive number, as the two bounds it lies between.       *)
LEMMA Quotient ==
  ASSUME NEW x \in Nat, NEW d \in Nat \ {0}
  PROVE  /\ x \div d \in Nat
         /\ d * (x \div d) <= x
         /\ x < d * (x \div d) + d
  OBVIOUS

(* A block is an octave above the one below it.                            *)
LEMMA Octaves ==
  ASSUME NEW block \in 0 .. 7
  PROVE  /\ Octave(block) \in Nat \ {0}
         /\ block # 7 => Octave(block + 1) = 2 * Octave(block)
         /\ block # 0 => Octave(block) = 2 * Octave(block - 1)
  BY DEF Octave

(* An order of numbers is that of their multiples.                         *)
LEMMA Scaled ==
  ASSUME NEW x \in Int, NEW y \in Int, NEW t \in Nat \ {0}
  PROVE  (x <= y => x * t <= y * t) /\ (x < y => x * t < y * t)
  OBVIOUS

(* The new F-number may be computed in the block above or below.           *)
LEMMA RaisedByQuotient ==
  ASSUME NEW o \in Nat \ {0}, NEW fnum \in 0 .. 1023, NEW block \in 0 .. 7,
         NEW q \in Nat, NEW t \in Nat \ {0}, NEW up \in 0 .. 7, NEW k \in {1, 2}, NEW m \in {1, 2},
         k * (o * q) <= m * (fnum * (o + 1)), m * (fnum * (o + 1)) < k * (o * q) + k * o,
         Octave(up) = k * t, Octave(block) = m * t
  PROVE  Raises(<<fnum, block>>, <<q, up>>, o)
<1>1. k * (o * q) \in Int /\ m * (fnum * (o + 1)) \in Int /\ k * (o * q) + k * o \in Int
  OBVIOUS
<1>2. /\ (k * (o * q)) * t <= (m * (fnum * (o + 1))) * t
      /\ (m * (fnum * (o + 1))) * t < (k * (o * q) + k * o) * t
  BY <1>1, Scaled
<1>3. /\ (q * (k * t)) * o = (k * (o * q)) * t
      /\ ((q + 1) * (k * t)) * o = (k * (o * q) + k * o) * t
      /\ (fnum * (m * t)) * (o + 1) = (m * (fnum * (o + 1))) * t
  OBVIOUS
<1> QED
  BY <1>2, <1>3 DEF Raises, Pitch

FNums == 0 .. 1023
Blocks == 0 .. 7

GivesNoteInTune(fnum, block) ==
  \E f \in 0 .. 1023, k \in 0 .. 7 :
    Transposed(fnum, block) = <<f, k>> /\ InTune(<<fnum, block>>, <<f, k>>, offset)

(* The transposition of any F-number in any block is a note, in tune.  It  *)
(* is never out of range, as the "sanity check" of write() expects.        *)
LEMMA TransposedInTune ==
  ASSUME offset \in Nat \ {0}, NEW fnum \in FNums, NEW block \in Blocks
  PROVE  GivesNoteInTune(fnum, block)
<1> USE DEF FNums, Blocks
<1> DEFINE R == fnum * (offset + 1)
<1>1. R \in Nat /\ R <= 1023 * offset + 1023 /\ 2 * R \in Nat /\ 2 * offset \in Nat \ {0}
  OBVIOUS
<1>2. AtTheLimits(<<fnum, block>>, offset) <=>
        (block = 7 /\ R > 991 * offset) \/ (block = 0 /\ R < 32 * offset)
  BY DEF AtTheLimits, NEWBLOCK_LIMIT
<1>3. CASE R > 991 * offset /\ block = 7
  <2>1. Transposed(fnum, block) = <<fnum, block>>
    BY <1>3 DEF Transposed, Raised, NEWBLOCK_LIMIT
  <2> QED
    BY <2>1, <1>2, <1>3, ZenonT(60) DEF GivesNoteInTune, InTune
<1>4. CASE R > 991 * offset /\ block # 7
  <2> DEFINE q == R \div (2 * offset)
  <2>1. Transposed(fnum, block) = <<q, block + 1>>
    BY <1>4 DEF Transposed, Raised, NEWBLOCK_LIMIT
  <2>2. q \in Nat /\ (2 * offset) * q <= R /\ R < (2 * offset) * q + 2 * offset
    BY ZenonT(60), <1>1, Quotient
  <2> HIDE DEF q
  <2>3. q <= 1023
    <3>1. 2 * (offset * q) <= 2 * (offset * 1023)
      BY <1>1, <2>2
    <3> QED
      BY <3>1, <2>2
  <2>4. ~AtTheLimits(<<fnum, block>>, offset)
    BY <1>1, <1>2, <1>4
  <2>5. Raises(<<fnum, block>>, <<q, block + 1>>, offset)
    <3>1. Octave(block) \in Nat \ {0} /\ Octave(block + 1) = 2 * Octave(block)
      BY <1>4, Octaves
    <3>2. 2 * (offset * q) <= 1 * (fnum * (offset + 1)) /\ 1 * (fnum * (offset + 1)) < 2 * (offset * q) + 2 * offset
      BY <2>2
    <3>3. block + 1 \in 0 .. 7 /\ Octave(block) = 1 * Octave(block)
      BY <3>1, <1>4
    <3> QED
      BY ZenonT(60), <3>1, <3>2, <3>3, <2>2, RaisedByQuotient
  <2>6. q \in 0 .. 1023 /\ block + 1 \in 0 .. 7
    BY <1>4, <2>2, <2>3
  <2> QED
    BY <2>1, <2>4, <2>5, <2>6, ZenonT(60) DEF GivesNoteInTune, InTune
<1>5. CASE ~(R > 991 * offset) /\ R < 32 * offset /\ block = 0
  <2>1. Transposed(fnum, block) = <<fnum, block>>
    BY <1>5 DEF Transposed, Raised, NEWBLOCK_LIMIT
  <2> QED
    BY <2>1, <1>2, <1>5, ZenonT(60) DEF GivesNoteInTune, InTune
<1>6. CASE ~(R > 991 * offset) /\ R < 32 * offset /\ block # 0
  <2> DEFINE q == (2 * R) \div offset
  <2>1. Transposed(fnum, block) = <<q, block - 1>>
    BY <1>6 DEF Transposed, Raised, NEWBLOCK_LIMIT
  <2>2. q \in Nat /\ offset * q <= 2 * R /\ 2 * R < offset * q + offset
    BY <1>1, Quotient
  <2> HIDE DEF q
  <2>3. q <= 1023
    <3>1. offset * q <= offset * 64
      BY <1>1, <1>6, <2>2
    <3> QED
      BY <3>1, <2>2
  <2>4. ~AtTheLimits(<<fnum, block>>, offset)
    BY <1>1, <1>2, <1>6
  <2>5. Raises(<<fnum, block>>, <<q, block - 1>>, offset)
    <3>1. Octave(block - 1) \in Nat \ {0} /\ Octave(block) = 2 * Octave(block - 1)
      BY <1>6, Octaves
    <3>2. 1 * (offset * q) <= 2 * (fnum * (offset + 1)) /\ 2 * (fnum * (offset + 1)) < 1 * (offset * q) + 1 * offset
      BY <2>2
    <3>3. block - 1 \in 0 .. 7 /\ Octave(block - 1) = 1 * Octave(block - 1)
      BY <3>1, <1>6
    <3> QED
      BY ZenonT(60), <3>1, <3>2, <3>3, <2>2, RaisedByQuotient
  <2>6. q \in 0 .. 1023 /\ block - 1 \in 0 .. 7
    BY <1>6, <2>2, <2>3
  <2> QED
    BY <2>1, <2>4, <2>5, <2>6 DEF GivesNoteInTune, InTune
<1>7. CASE ~(R > 991 * offset) /\ ~(R < 32 * offset)
  <2> DEFINE q == R \div offset
  <2>1. Transposed(fnum, block) = <<q, block>>
    BY <1>7 DEF Transposed, Raised, NEWBLOCK_LIMIT
  <2>2. q \in Nat /\ offset * q <= R /\ R < offset * q + offset
    BY <1>1, Quotient
  <2> HIDE DEF q
  <2>3. q <= 1023
    <3>1. offset * q <= offset * 991
      BY <1>1, <1>7, <2>2
    <3> QED
      BY <3>1, <2>2
  <2>4. ~AtTheLimits(<<fnum, block>>, offset)
    BY <1>1, <1>2, <1>7
  <2>5. Raises(<<fnum, block>>, <<q, block>>, offset)
    <3>1. Octave(block) \in Nat \ {0} /\ Octave(block) = 1 * Octave(block)
      BY Octaves
    <3>2. 1 * (offset * q) <= 1 * (fnum * (offset + 1)) /\ 1 * (fnum * (offset + 1)) < 1 * (offset * q) + 1 * offset
      BY <2>2
    <3> QED
      BY ZenonT(60), <3>1, <3>2, <2>2, RaisedByQuotient
  <2>6. q \in 0 .. 1023
    BY <2>2, <2>3
  <2> QED
    BY <2>1, <2>4, <2>5, <2>6, ZenonT(60) DEF GivesNoteInTune, InTune
<1> QED
  BY <1>3, <1>4, <1>5, <1>6, <1>7

-----------------------------------------------------------------------------
(* The F-number and the block that two bytes combine to.                   *)
LEMMA NoteOfBytes ==
  ASSUME NEW a \in Byte, NEW b \in Byte
  PROVE  FNum(a, b) \in FNums /\ Block(b) \in Blocks
<1>1. a \in Int /\ 0 <= a /\ a <= 255 /\ b \in Int
  BY DEF Byte
<1>2. b % 4 \in 0 .. 3
  BY <1>1
<1>3. (b \div 4) \in Int
  BY <1>1
<1>4. (b \div 4) % 8 \in 0 .. 7
  BY <1>3
<1>5. 256 * (b % 4) + a \in 0 .. 1023
  BY <1>1, <1>2
<1> QED
  BY <1>4, <1>5 DEF FNum, Block, FNums, Blocks

(* The registers of the transposed note: bytes, the key-on bit as it was,  *)
(* and together the note that was computed.                                *)
LEMMA NewRegisters ==
  ASSUME offset \in Nat \ {0}, NEW a \in Byte, NEW b \in Byte
  PROVE  /\ NewA0(a, b) \in Byte /\ NewB0(a, b) \in Byte
         /\ Key(NewB0(a, b)) = Key(b)
         /\ InTune(<<FNum(a, b), Block(b)>>,
                   <<FNum(NewA0(a, b), NewB0(a, b)), Block(NewB0(a, b))>>, offset)
<1> DEFINE old == <<FNum(a, b), Block(b)>>
<1>1. PICK n \in FNums, l \in Blocks : n = FNum(a, b) /\ l = Block(b)
  BY NoteOfBytes
<1>2. PICK f \in 0 .. 1023, k \in 0 .. 7 :
        NewNote(FNum(a, b), Block(b)) = <<f, k>> /\ InTune(old, <<f, k>>, offset)
  <2>1. PICK f \in 0 .. 1023, k \in 0 .. 7 :
          Transposed(n, l) = <<f, k>> /\ InTune(<<n, l>>, <<f, k>>, offset)
    <3>1. GivesNoteInTune(n, l)
      BY TransposedInTune
    <3> QED
      BY <3>1 DEF GivesNoteInTune
  <2>2. NewNote(n, l) = <<f, k>>
    BY <2>1 DEF NewNote
  <2> QED
    BY ZenonT(60), <1>1, <2>1, <2>2
<1>3. NewA0(a, b) = f % 256
  BY <1>2 DEF NewA0
<1>4. NewB0(a, b) = 32 * (b \div 32) + 4 * k + ((f \div 256) % 4)
  <2>1. NewNote(FNum(a, b), Block(b))[1] = f /\ NewNote(FNum(a, b), Block(b))[2] = k
    BY <1>2
  <2> QED
    BY <2>1, Zenon DEF NewB0
<1>5. f % 256 \in Byte /\ f \div 256 \in 0 .. 3 /\ f = 256 * (f \div 256) + (f % 256)
  BY DEF Byte
<1>6. b \div 32 \in 0 .. 7
  BY DEF Byte
<1> DEFINE new == 32 * (b \div 32) + 4 * k + ((f \div 256) % 4)
<1>7. new \in Byte /\ new \div 32 = b \div 32 /\ (new \div 4) % 8 = k /\ new % 4 = f \div 256
  BY <1>5, <1>6 DEF Byte
<1>8. FNum(f % 256, new) = f /\ Block(new) = k /\ Key(new) = Key(b)
  BY <1>5, <1>7 DEF FNum, Block, Key
<1> QED
  BY <1>2, <1>3, <1>4, <1>5, <1>7, <1>8

-----------------------------------------------------------------------------
RegisterFile == [Registers -> Byte]

(* The selections agree unless init() has parted them.                     *)
Aligned == ~parted => currChip = selected

SurroundInv == SurroundTypeOK /\ Aligned /\ TablesTrue /\ Harmonic

(* No register serves two purposes.                                        *)
LEMMA RegistersDistinct ==
  ASSUME NEW v \in Voices
  PROVE  /\ A0(v) \in Registers /\ B0(v) \in Registers
         /\ \A w \in Voices : A0(v) # B0(w) /\ (A0(v) = A0(w) => v = w) /\ (B0(v) = B0(w) => v = w)
         /\ \A r \in Others : r # A0(v) /\ r # B0(v)
<1>1. Voices \subseteq 0 .. 8 /\ \A r \in Others : r \notin 160 .. 168 /\ r \notin 176 .. 184
  BY SurroundAssumption
<1> QED
  BY <1>1 DEF A0, B0, Registers

(* What a write does to the first chip and to the table of what was given. *)
LEMMA GivenEffect ==
  ASSUME SurroundTypeOK, NEW reg \in Registers, NEW val \in Byte, Given(reg, val)
  PROVE  /\ chipA' \in [Chips -> RegisterFile] /\ fmReg' \in [Chips -> RegisterFile]
         /\ \A c \in Chips, r \in Registers :
              chipA'[c][r] = IF c = selected /\ r = reg THEN val ELSE chipA[c][r]
         /\ fmReg = chipA /\ currChip = selected => fmReg' = chipA'
         /\ currChip' = currChip /\ selected' = selected /\ offset' = offset
  BY DEF SurroundTypeOK, Given, Remember, RegisterFile

(* What the writes to the second chip do to it and to the table of what    *)
(* was passed on.                                                          *)
LEMMA PassedEffect ==
  ASSUME SurroundTypeOK, NEW D \in SUBSET Registers, NEW regs \in [D -> Byte], Passed(regs)
  PROVE  /\ chipB' \in [Chips -> RegisterFile] /\ tweaked' \in [Chips -> RegisterFile]
         /\ \A c \in Chips, r \in Registers :
              chipB'[c][r] = IF c = selected /\ r \in D THEN regs[r] ELSE chipB[c][r]
         /\ tweaked = chipB /\ currChip = selected => tweaked' = chipB'
  BY DEF SurroundTypeOK, Passed, RegisterFile

(* Ghosts and selections after a write: it goes astray or the tables were  *)
(* true before it.                                                         *)
LEMMA GivenGhosts ==
  ASSUME SurroundInv, NEW reg, NEW val, Given(reg, val)
  PROVE  /\ parted' = parted /\ astray' \in BOOLEAN
         /\ ~astray' => ~astray /\ ~parted /\ currChip = selected /\ fmReg = chipA /\ tweaked = chipB
<1>1. parted' = parted /\ astray' = (astray \/ parted)
  BY Zenon DEF Given
<1>2. astray \in BOOLEAN /\ parted \in BOOLEAN /\ Aligned /\ TablesTrue
  BY Zenon DEF SurroundInv, SurroundTypeOK
<1> QED
  BY <1>1, <1>2, Zenon DEF Aligned, TablesTrue

(* The parts of the invariant after a write.                               *)
LEMMA InvFromParts ==
  ASSUME SurroundInv, NEW reg \in Registers, NEW val \in Byte, Given(reg, val),
         NEW D \in SUBSET Registers, NEW regs \in [D -> Byte], Passed(regs),
         tuned' \in [Chips -> [Voices -> Offsets]],
         ~astray' => HarmonicAlways'
  PROVE  SurroundInv'
<1>1. /\ parted' = parted /\ astray' \in BOOLEAN
      /\ ~astray' => ~astray /\ ~parted /\ currChip = selected /\ fmReg = chipA /\ tweaked = chipB
  BY GivenGhosts, Zenon
<1>2. SurroundTypeOK
  BY DEF SurroundInv
<1>3. /\ chipA' \in [Chips -> RegisterFile] /\ fmReg' \in [Chips -> RegisterFile]
      /\ fmReg = chipA /\ currChip = selected => fmReg' = chipA'
      /\ currChip' = currChip /\ selected' = selected /\ offset' = offset
  BY <1>2, GivenEffect
<1>4. /\ chipB' \in [Chips -> RegisterFile] /\ tweaked' \in [Chips -> RegisterFile]
      /\ tweaked = chipB /\ currChip = selected => tweaked' = chipB'
  BY <1>2, PassedEffect
<1>5. SurroundTypeOK'
  BY <1>1, <1>2, <1>3, <1>4, Zenon DEF SurroundTypeOK, RegisterFile
<1>6. Aligned'
  BY <1>1, <1>3, Zenon DEF Aligned, SurroundInv
<1>7. TablesTrue'
  BY <1>1, <1>3, <1>4, Zenon DEF TablesTrue
<1> QED
  BY <1>5, <1>6, <1>7, Zenon DEF SurroundInv, Harmonic

(* A write to one voice's pitch leaves the other voices in tune.           *)
LEMMA OthersStayInTune ==
  ASSUME SurroundInv, NEW v \in Voices, NEW reg \in {A0(v), B0(v)}, NEW val \in Byte, Given(reg, val),
         NEW D \in SUBSET {A0(v), B0(v)}, NEW regs \in [D -> Byte], Passed(regs),
         tuned' = [tuned EXCEPT ![selected][v] = offset],
         ~astray' => Voiced(selected, v)'
  PROVE  SurroundInv'
<1>1. SurroundTypeOK /\ reg \in Registers /\ D \in SUBSET Registers
  BY RegistersDistinct DEF SurroundInv
<1>2. \A c \in Chips, r \in Registers :
        /\ chipA'[c][r] = IF c = selected /\ r = reg THEN val ELSE chipA[c][r]
        /\ chipB'[c][r] = IF c = selected /\ r \in D THEN regs[r] ELSE chipB[c][r]
  <2>1. \A c \in Chips, r \in Registers :
          chipA'[c][r] = IF c = selected /\ r = reg THEN val ELSE chipA[c][r]
    BY <1>1, GivenEffect
  <2>2. \A c \in Chips, r \in Registers :
          chipB'[c][r] = IF c = selected /\ r \in D THEN regs[r] ELSE chipB[c][r]
    BY <1>1, PassedEffect
  <2> QED
    BY <2>1, <2>2
<1>3. selected' = selected /\ selected \in Chips
  <2>1. selected' = selected
    BY <1>1, GivenEffect
  <2> QED
    BY <1>1, <2>1 DEF SurroundTypeOK
<1>4. tuned' \in [Chips -> [Voices -> Offsets]]
  BY <1>1 DEF SurroundTypeOK
<1>5. ASSUME ~astray', NEW c \in Chips, NEW w \in Voices
      PROVE  Voiced(c, w)'
  <2>1. CASE c = selected /\ w = v
    BY <2>1, <1>3, <1>5
  <2>2. CASE ~(c = selected /\ w = v)
    <3>1. ~astray
      BY <1>5, GivenGhosts, Zenon
    <3>2. Voiced(c, w)
      BY <3>1, Zenon DEF SurroundInv, Harmonic, HarmonicAlways
    <3>3. /\ A0(w) \in Registers /\ B0(w) \in Registers
          /\ c = selected => A0(w) # A0(v) /\ A0(w) # B0(v) /\ B0(w) # A0(v) /\ B0(w) # B0(v)
      BY <2>2, RegistersDistinct
    <3>4. /\ chipA'[c][A0(w)] = chipA[c][A0(w)] /\ chipA'[c][B0(w)] = chipA[c][B0(w)]
          /\ chipB'[c][A0(w)] = chipB[c][A0(w)] /\ chipB'[c][B0(w)] = chipB[c][B0(w)]
      BY <1>2, <3>3
    <3>5. tuned'[c][w] = tuned[c][w]
      BY <1>1, <2>2 DEF SurroundTypeOK
    <3> QED
      BY <3>2, <3>4, <3>5 DEF Voiced, Note
  <2> QED
    BY <2>1, <2>2
<1>6. ~astray' => HarmonicAlways'
  BY <1>5, Zenon DEF HarmonicAlways
<1> QED
  BY <1>1, <1>4, <1>6, InvFromParts

LEMMA WriteLowKeeps ==
  ASSUME SurroundInv, NEW v \in Voices, NEW val \in Byte, WriteLow(v, val)
  PROVE  SurroundInv'
<1> DEFINE high == Known(B0(v))
           a == NewA0(val, high)
           b == NewB0(val, high)
           both == Key(b) = 1 /\ tweaked[currChip][B0(v)] # b
           D == IF both THEN {A0(v), B0(v)} ELSE {A0(v)}
           regs == [r \in D |-> IF r = A0(v) THEN a ELSE b]
<1>1. SurroundTypeOK /\ A0(v) \in Registers /\ B0(v) \in Registers /\ A0(v) # B0(v)
  BY RegistersDistinct DEF SurroundInv
<1>2. high \in Byte /\ offset \in Nat \ {0}
  BY <1>1, SurroundAssumption DEF Known, SurroundTypeOK
<1>3. /\ a \in Byte /\ b \in Byte /\ Key(b) = Key(high)
      /\ InTune(<<FNum(val, high), Block(high)>>, <<FNum(a, b), Block(b)>>, offset)
  BY <1>2, NewRegisters
<1>4. Given(A0(v), val) /\ Passed(regs) /\ tuned' = [tuned EXCEPT ![selected][v] = offset]
  BY Zenon DEF WriteLow
<1> HIDE DEF high, a, b
<1>5. regs \in [D -> Byte] /\ D \in SUBSET {A0(v), B0(v)} /\ D \in SUBSET Registers
  BY <1>1, <1>3
<1>6. ASSUME ~astray' PROVE Voiced(selected, v)'
  <2>1. selected' = selected /\ selected \in Chips
    BY <1>1, <1>4, GivenEffect DEF SurroundTypeOK
  <2>2. ~astray /\ currChip = selected /\ fmReg = chipA /\ tweaked = chipB
    BY <1>4, <1>6, GivenGhosts, Zenon
  <2>3. Voiced(selected, v)
    BY <2>1, <2>2, Zenon DEF SurroundInv, Harmonic, HarmonicAlways
  <2>4. high = chipA[selected][B0(v)]
    BY <2>2 DEF high, Known
  <2>5. /\ chipA'[selected][A0(v)] = val /\ chipA'[selected][B0(v)] = high
    BY <1>1, <1>4, <2>1, <2>4, GivenEffect
  <2>6. \A r \in Registers :
          chipB'[selected][r] = IF r \in D THEN regs[r] ELSE chipB[selected][r]
    <3> HIDE DEF D, regs
    <3>1. \A c \in Chips, r \in Registers :
            chipB'[c][r] = IF c = selected /\ r \in D THEN regs[r] ELSE chipB[c][r]
      BY ZenonT(60), <1>1, <1>4, <1>5, PassedEffect
    <3> QED
      BY <2>1, <3>1
  <2>7. chipB'[selected][A0(v)] = a
    <3>1. A0(v) \in D
      OBVIOUS
    <3>2. regs[A0(v)] = a
      BY <3>1
    <3> HIDE DEF D, regs
    <3> QED
      BY <1>1, <2>6, <3>1, <3>2
  <2>8. chipB'[selected][B0(v)] = IF both THEN b ELSE chipB[selected][B0(v)]
    <3> HIDE DEF both
    <3>1. B0(v) \in D <=> both
      BY <1>1
    <3>2. both => regs[B0(v)] = b
      BY <1>1, <3>1
    <3> HIDE DEF D, regs
    <3> QED
      BY <1>1, <2>6, <3>1, <3>2
  <2>9. tuned'[selected][v] = offset
    BY <1>1, <1>4, <2>1 DEF SurroundTypeOK
  <2>10. CASE Key(b) = 1
    <3>1. chipB'[selected][B0(v)] = b
      BY <2>2, <2>8, <2>10
    <3> QED
      BY <1>3, <2>1, <2>5, <2>7, <2>9, <3>1 DEF Voiced, Note
  <2>11. CASE Key(b) # 1
    <3>1. chipB'[selected][B0(v)] = chipB[selected][B0(v)]
      BY <2>8, <2>11
    <3> QED
      BY <1>3, <2>1, <2>3, <2>4, <2>5, <2>11, <3>1 DEF Voiced
  <2> QED
    BY <2>10, <2>11
<1> QED
  BY <1>4, <1>5, <1>6, OthersStayInTune

LEMMA WriteHighKeeps ==
  ASSUME SurroundInv, NEW v \in Voices, NEW val \in Byte, WriteHigh(v, val)
  PROVE  SurroundInv'
<1> DEFINE low == Known(A0(v))
           a == NewA0(low, val)
           b == NewB0(low, val)
           both == tweaked[currChip][A0(v)] # a
           D == IF both THEN {A0(v), B0(v)} ELSE {B0(v)}
           regs == [r \in D |-> IF r = A0(v) THEN a ELSE b]
<1>1. SurroundTypeOK /\ A0(v) \in Registers /\ B0(v) \in Registers /\ A0(v) # B0(v)
  BY RegistersDistinct DEF SurroundInv
<1>2. low \in Byte /\ offset \in Nat \ {0}
  BY <1>1, SurroundAssumption DEF Known, SurroundTypeOK
<1>3. /\ a \in Byte /\ b \in Byte /\ Key(b) = Key(val)
      /\ InTune(<<FNum(low, val), Block(val)>>, <<FNum(a, b), Block(b)>>, offset)
  BY <1>2, NewRegisters
<1>4. Given(B0(v), val) /\ Passed(regs) /\ tuned' = [tuned EXCEPT ![selected][v] = offset]
  BY <1>1 DEF WriteHigh
<1> HIDE DEF low, a, b
<1>5. regs \in [D -> Byte] /\ D \in SUBSET {A0(v), B0(v)} /\ D \in SUBSET Registers
  BY <1>1, <1>3
<1>6. ASSUME ~astray' PROVE Voiced(selected, v)'
  <2>1. selected' = selected /\ selected \in Chips
    BY <1>1, <1>4, GivenEffect DEF SurroundTypeOK
  <2>2. ~astray /\ currChip = selected /\ fmReg = chipA /\ tweaked = chipB
    BY <1>4, <1>6, GivenGhosts, Zenon
  <2>3. low = chipA[selected][A0(v)]
    BY <2>2 DEF low, Known
  <2>4. /\ chipA'[selected][B0(v)] = val /\ chipA'[selected][A0(v)] = low
    BY <1>1, <1>4, <2>1, <2>3, GivenEffect
  <2>5. \A r \in Registers :
          chipB'[selected][r] = IF r \in D THEN regs[r] ELSE chipB[selected][r]
    <3> HIDE DEF D, regs
    <3>1. \A c \in Chips, r \in Registers :
            chipB'[c][r] = IF c = selected /\ r \in D THEN regs[r] ELSE chipB[c][r]
      BY <1>1, <1>4, <1>5, PassedEffect
    <3> QED
      BY <2>1, <3>1
  <2>6. chipB'[selected][B0(v)] = b
    BY <1>1, <2>5
  <2>7. chipB'[selected][A0(v)] = a
    BY <1>1, <2>2, <2>5
  <2>8. tuned'[selected][v] = offset
    BY <1>1, <1>4, <2>1 DEF SurroundTypeOK
  <2> QED
    BY <1>3, <2>1, <2>4, <2>6, <2>7, <2>8 DEF Voiced, Note
<1> QED
  BY <1>4, <1>5, <1>6, OthersStayInTune

LEMMA WriteOtherKeeps ==
  ASSUME SurroundInv, NEW reg \in Others, NEW val \in Byte, WriteOther(reg, val)
  PROVE  SurroundInv'
<1> DEFINE D == {reg}
           regs == [r \in D |-> val]
<1>1. SurroundTypeOK /\ reg \in Registers
  BY DEF SurroundInv, Registers
<1>2. Given(reg, val) /\ Passed(regs) /\ tuned' = tuned
  BY Zenon DEF WriteOther
<1>3. D \in SUBSET Registers /\ regs \in [D -> Byte]
  BY <1>1
<1> HIDE DEF D, regs
<1>4. ASSUME ~astray', NEW c \in Chips, NEW w \in Voices
      PROVE  Voiced(c, w)'
  <2>1. Voiced(c, w)
    <3>1. ~astray
      BY <1>2, <1>4, GivenGhosts, Zenon
    <3> QED
      BY <3>1, Zenon DEF SurroundInv, Harmonic, HarmonicAlways
  <2>2. A0(w) \in Registers /\ B0(w) \in Registers /\ reg # A0(w) /\ reg # B0(w)
    BY RegistersDistinct
  <2>3. chipA'[c][A0(w)] = chipA[c][A0(w)] /\ chipA'[c][B0(w)] = chipA[c][B0(w)]
    <3>1. \A s \in Chips, r \in Registers :
            chipA'[s][r] = IF s = selected /\ r = reg THEN val ELSE chipA[s][r]
      BY <1>1, <1>2, GivenEffect
    <3> QED
      BY <2>2, <3>1
  <2>4. chipB'[c][A0(w)] = chipB[c][A0(w)] /\ chipB'[c][B0(w)] = chipB[c][B0(w)]
    <3>1. \A s \in Chips, r \in Registers :
            chipB'[s][r] = IF s = selected /\ r \in D THEN regs[r] ELSE chipB[s][r]
      <4>1. SurroundTypeOK /\ Passed(regs)
        BY <1>1, <1>2
      <4> QED
        BY <1>3, <4>1, PassedEffect
    <3>2. A0(w) \notin D /\ B0(w) \notin D
      BY <2>2 DEF D
    <3> QED
      BY <2>2, <3>1, <3>2
  <2> QED
    BY <1>2, <2>1, <2>3, <2>4 DEF Voiced, Note
<1>5. ~astray' => HarmonicAlways'
  BY <1>4, Zenon DEF HarmonicAlways
<1>6. tuned' \in [Chips -> [Voices -> Offsets]]
  BY <1>1, <1>2 DEF SurroundTypeOK
<1> QED
  BY <1>1, <1>2, <1>3, <1>5, <1>6, InvFromParts

(* Blank registers are bytes and hold no note.                             *)
LEMMA BlankIsSilent ==
  /\ Blank \in [Chips -> RegisterFile]
  /\ \A c \in Chips, v \in Voices : Key(Blank[c][B0(v)]) = 0
<1>1. \A v \in Voices : B0(v) \in Registers
  BY RegistersDistinct
<1> QED
  BY <1>1 DEF Blank, RegisterFile, Byte, Key

LEMMA initKeeps == ASSUME SurroundInv, init PROVE SurroundInv'
<1>1. /\ selected' = 0 /\ currChip' = currChip /\ offset' = offset
      /\ fmReg' = Blank /\ tweaked' = Blank /\ chipA' = Blank /\ chipB' = Blank
      /\ tuned' = [c \in Chips |-> [v \in Voices |-> offset]]
  BY Zenon DEF init
<1>2. parted' = (currChip # 0) /\ ~astray'
  BY Zenon DEF init
<1>3. currChip \in Chips /\ offset \in Offsets
  BY DEF SurroundInv, SurroundTypeOK
<1>4. tuned' \in [Chips -> [Voices -> Offsets]]
  BY <1>1, <1>3
<1>5. selected' \in Chips
  BY <1>1 DEF Chips
<1>6. astray' \in BOOLEAN /\ parted' \in BOOLEAN
  BY Zenon DEF init
<1>7. SurroundTypeOK'
  BY <1>1, <1>3, <1>4, <1>5, <1>6, BlankIsSilent, Zenon DEF SurroundTypeOK, RegisterFile
<1>8. Aligned'
  BY <1>1, <1>2, Zenon DEF Aligned
<1>9. TablesTrue'
  BY <1>1, Zenon DEF TablesTrue
<1>10. Harmonic'
  <2>1. \A c \in Chips, v \in Voices :
          Key(chipA'[c][B0(v)]) = 0 /\ Key(chipB'[c][B0(v)]) = 0
    BY <1>1, BlankIsSilent
  <2> QED
    BY <2>1 DEF Harmonic, HarmonicAlways, Voiced
<1> QED
  BY <1>7, <1>8, <1>9, <1>10, Zenon DEF SurroundInv

LEMMA setchipKeeps == ASSUME SurroundInv, NEW n \in Chips, setchip(n) PROVE SurroundInv'
<1>1. /\ selected' = n /\ currChip' = n /\ offset' = offset /\ fmReg' = fmReg /\ tweaked' = tweaked
      /\ chipA' = chipA /\ chipB' = chipB /\ tuned' = tuned
      /\ parted' = FALSE /\ astray' = astray
  BY Zenon DEF setchip, tables, children
<1>2. SurroundTypeOK'
  BY <1>1, Zenon DEF SurroundInv, SurroundTypeOK
<1>3. Aligned' /\ TablesTrue'
  BY <1>1, Zenon DEF SurroundInv, Aligned, TablesTrue
<1>4. Harmonic'
  BY <1>1, Zenon DEF SurroundInv, Harmonic, HarmonicAlways, Voiced, Note
<1> QED
  BY <1>2, <1>3, <1>4, Zenon DEF SurroundInv

LEMMA set_offsetKeeps == ASSUME SurroundInv, NEW o \in Offsets, set_offset(o) PROVE SurroundInv'
<1>1. /\ selected' = selected /\ currChip' = currChip /\ offset' = o /\ fmReg' = fmReg
      /\ tweaked' = tweaked /\ chipA' = chipA /\ chipB' = chipB /\ tuned' = tuned
      /\ parted' = parted /\ astray' = astray
  BY Zenon DEF set_offset, tables, children, ghosts
<1>2. SurroundTypeOK'
  BY <1>1, Zenon DEF SurroundInv, SurroundTypeOK
<1>3. Aligned' /\ TablesTrue'
  BY <1>1, Zenon DEF SurroundInv, Aligned, TablesTrue
<1>4. Harmonic'
  BY <1>1, Zenon DEF SurroundInv, Harmonic, HarmonicAlways, Voiced, Note
<1> QED
  BY <1>2, <1>3, <1>4, Zenon DEF SurroundInv

-----------------------------------------------------------------------------
(* The invariant of the filter.                                            *)
THEOREM SurroundInvHolds == SurroundSpec => []SurroundInv
<1>1. SurroundInit => SurroundInv
  <2> SUFFICES ASSUME SurroundInit PROVE SurroundInv
    OBVIOUS
  <2>1. /\ currChip = 0 /\ selected = 0 /\ offset = 128 /\ parted = FALSE /\ astray = FALSE
        /\ fmReg = Blank /\ tweaked = Blank /\ chipA = Blank /\ chipB = Blank
        /\ tuned = [c \in Chips |-> [v \in Voices |-> offset]]
    BY Zenon DEF SurroundInit
  <2>2. offset \in Offsets /\ currChip \in Chips /\ selected \in Chips
    BY <2>1, SurroundAssumption DEF Chips
  <2>3. tuned \in [Chips -> [Voices -> Offsets]]
    BY <2>1, <2>2
  <2>4. SurroundTypeOK
    BY <2>1, <2>2, <2>3, BlankIsSilent, Zenon DEF SurroundTypeOK, RegisterFile
  <2>5. Aligned /\ TablesTrue
    BY <2>1, Zenon DEF Aligned, TablesTrue
  <2>6. Harmonic
    <3>1. \A c \in Chips, v \in Voices : Key(chipA[c][B0(v)]) = 0 /\ Key(chipB[c][B0(v)]) = 0
      BY <2>1, BlankIsSilent
    <3> QED
      BY <3>1 DEF Harmonic, HarmonicAlways, Voiced
  <2> QED
    BY <2>4, <2>5, <2>6, Zenon DEF SurroundInv
<1>2. SurroundInv /\ [SurroundNext]_surroundVars => SurroundInv'
  <2> SUFFICES ASSUME SurroundInv, [SurroundNext]_surroundVars PROVE SurroundInv'
    OBVIOUS
  <2>1. ASSUME NEW v \in Voices, NEW val \in Lows, WriteLow(v, val) PROVE SurroundInv'
    BY <2>1, SurroundAssumption, WriteLowKeeps
  <2>2. ASSUME NEW v \in Voices, NEW val \in Highs, WriteHigh(v, val) PROVE SurroundInv'
    BY <2>2, SurroundAssumption, WriteHighKeeps
  <2>3. ASSUME NEW reg \in Others, NEW val \in Values, WriteOther(reg, val) PROVE SurroundInv'
    BY <2>3, SurroundAssumption, WriteOtherKeeps
  <2>4. CASE init
    BY <2>4, initKeeps
  <2>5. ASSUME NEW n \in Chips, setchip(n) PROVE SurroundInv'
    BY <2>5, setchipKeeps
  <2>6. ASSUME NEW o \in Offsets, set_offset(o) PROVE SurroundInv'
    BY <2>6, set_offsetKeeps
  <2>7. CASE UNCHANGED surroundVars
    <3>1. /\ selected' = selected /\ currChip' = currChip /\ offset' = offset /\ fmReg' = fmReg
          /\ tweaked' = tweaked /\ chipA' = chipA /\ chipB' = chipB /\ tuned' = tuned
          /\ parted' = parted /\ astray' = astray
      BY <2>7, Zenon DEF surroundVars, tables, children, ghosts
    <3> QED
      BY <3>1, Zenon DEF SurroundInv, SurroundTypeOK, Aligned, TablesTrue, Harmonic,
         HarmonicAlways, Voiced, Note
  <2> QED
    BY <2>1, <2>2, <2>3, <2>4, <2>5, <2>6, <2>7, Zenon DEF SurroundNext
<1> QED
  BY <1>1, <1>2, PTL DEF SurroundSpec

(* Every register of both chips stays a byte: the upper bits of a raised   *)
(* F-number never run into the block or the key-on bit.                    *)
THEOREM RegistersAreBytes == SurroundSpec => []SurroundTypeOK
<1>1. SurroundInv => SurroundTypeOK
  BY Zenon DEF SurroundInv
<1> QED
  BY <1>1, SurroundInvHolds, PTL

(* The tables are what the chips hold, until a write goes astray.          *)
THEOREM TablesStayTrue == SurroundSpec => []TablesTrue
<1>1. SurroundInv => TablesTrue
  BY Zenon DEF SurroundInv
<1> QED
  BY <1>1, SurroundInvHolds, PTL

(* The second chip plays the notes of the first one, raised by 1 / offset, *)
(* for every F-number, block and offset, until a write goes astray.        *)
THEOREM SecondChipInTune == SurroundSpec => []Harmonic
<1>1. SurroundInv => Harmonic
  BY Zenon DEF SurroundInv
<1> QED
  BY <1>1, SurroundInvHolds, PTL
=============================================================================
