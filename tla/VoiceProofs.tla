---------------------------- MODULE VoiceProofs ----------------------------
(***************************************************************************)
(* Proofs about CmodPlayer's channels and what the OPL is made to sound    *)
(* for them: every handler of the tick and row loops keeps the channel and *)
(* register types, leaves a released channel silent, and keeps the level   *)
(* registers in step with the volumes.  In gentle songs, at the end, the   *)
(* frequency a channel plays is all in the ten bits of its register.       *)
(***************************************************************************)
EXTENDS PlayerProofs, WellFoundedInduction

-----------------------------------------------------------------------------
(* A channel as the handlers leave it, and what of it is heard.            *)
GoodChannel ==
  [freq : Word, nextfreq : Word, oct : 0 .. 7, nextoct : 0 .. 7, vol1 : 0 .. 63, vol2 : 0 .. 63,
   inst : Byte, fx : Byte, info1 : Byte, info2 : Byte, key : {0, 1}, note : 0 .. 127,
   portainfo : Byte, vibinfo1 : Byte, vibinfo2 : Byte, arppos : Byte, arpspdcnt : Byte,
   trigger : 0 .. 63]

SameSound(c, d) ==
  d.key = c.key /\ d.vol1 = c.vol1 /\ d.vol2 = c.vol2 /\ d.inst = c.inst

(* The 16 bits of freq.                                                    *)
LEMMA WordIsRange == \E m \in Nat : Highest < m /\ Word = 0 .. m
<1>1. PICK m : m = 65535
  OBVIOUS
<1>2. Word = 0 .. m
  BY <1>1 DEF Word
<1>3. m \in Nat /\ Highest < m
  BY <1>1 DEF Highest
<1> QED
  BY <1>2, <1>3

LEMMA WordFacts ==
  /\ \A i \in Int : Wrapped(i) \in Word
  /\ \A f \in Word : f \in Nat /\ f \div 2 \in Word
  /\ \A n \in Nat : n <= Highest => n \in Word
<1>1. \A i \in Int : Wrapped(i) \in Word
  BY SMTT(30) DEF Wrapped, Word
<1>2. PICK m \in Nat : Highest < m /\ Word = 0 .. m
  BY WordIsRange
<1>3. \A f \in Word : f \in Nat /\ f \div 2 \in Word
  BY <1>2
<1>4. Highest \in Nat
  BY DEF Highest
<1>5. \A n \in Nat : n <= Highest => n \in Word
  BY <1>2, <1>4
<1> QED
  BY <1>1, <1>3, <1>5

LEMMA SlidesDown ==
  ASSUME NEW c \in GoodChannel, NEW a \in Nat
  PROVE  slide_down(c, a) \in GoodChannel /\ SameSound(c, slide_down(c, a))
<1>1. slide_down(c, a) =
        IF Wrapped(c.freq - a) > Lowest THEN [c EXCEPT !.freq = Wrapped(c.freq - a)]
        ELSE IF c.oct > 0 THEN [c EXCEPT !.freq = 2 * Wrapped(c.freq - a), !.oct = c.oct - 1]
        ELSE [c EXCEPT !.freq = Lowest]
  BY DEF slide_down
<1>2. c.freq \in Word /\ c.oct \in 0 .. 7
  BY DEF GoodChannel
<1>3. Wrapped(c.freq - a) \in Word /\ Wrapped(c.freq - a) \in Nat
  <2>1. c.freq \in Int
    BY <1>2, WordFacts
  <2>2. c.freq - a \in Int
    BY <2>1
  <2> QED
    BY <2>2, WordFacts
<1>4. ASSUME NEW g \in Word, NEW o \in 0 .. 7
      PROVE  /\ [c EXCEPT !.freq = g] \in GoodChannel /\ SameSound(c, [c EXCEPT !.freq = g])
             /\ [c EXCEPT !.freq = g, !.oct = o] \in GoodChannel
             /\ SameSound(c, [c EXCEPT !.freq = g, !.oct = o])
  BY ZenonT(60) DEF GoodChannel, SameSound
<1>5. PICK f : f = Wrapped(c.freq - a)
  OBVIOUS
<1>6. CASE f > Lowest
  <2>1. slide_down(c, a) = [c EXCEPT !.freq = f]
    BY <1>1, <1>5, <1>6
  <2> QED
    BY <1>2, <1>3, <1>4, <1>5, <2>1
<1>7. CASE ~(f > Lowest) /\ c.oct > 0
  <2>1. 2 * f \in Word /\ c.oct - 1 \in 0 .. 7
    <3>1. 2 * f \in Nat /\ 2 * f <= Highest
      BY <1>3, <1>5, <1>7 DEF Lowest, Highest
    <3> QED
      BY <1>2, <1>7, <3>1, WordFacts
  <2>2. slide_down(c, a) = [c EXCEPT !.freq = 2 * f, !.oct = c.oct - 1]
    BY <1>1, <1>5, <1>7
  <2> QED
    BY <1>4, <2>1, <2>2
<1>8. CASE ~(f > Lowest) /\ ~(c.oct > 0)
  <2>1. Lowest \in Word
    BY WordFacts DEF Lowest, Highest
  <2>2. slide_down(c, a) = [c EXCEPT !.freq = Lowest]
    BY <1>1, <1>5, <1>8
  <2> QED
    BY <1>2, <1>4, <2>1, <2>2
<1> QED
  BY <1>6, <1>7, <1>8

LEMMA SlidesUp ==
  ASSUME NEW c \in GoodChannel, NEW a \in Nat
  PROVE  slide_up(c, a) \in GoodChannel /\ SameSound(c, slide_up(c, a))
<1>1. slide_up(c, a) =
        IF Wrapped(c.freq + a) < Highest THEN [c EXCEPT !.freq = Wrapped(c.freq + a)]
        ELSE IF c.oct < 7 THEN [c EXCEPT !.freq = Wrapped(c.freq + a) \div 2, !.oct = c.oct + 1]
        ELSE [c EXCEPT !.freq = Highest]
  BY DEF slide_up
<1>2. c.freq \in Word /\ c.oct \in 0 .. 7
  BY DEF GoodChannel
<1>3. /\ Wrapped(c.freq + a) \in Word /\ Wrapped(c.freq + a) \div 2 \in Word
      /\ Highest \in Word
  <2>1. c.freq \in Int
    BY <1>2, WordFacts
  <2>2. c.freq + a \in Int
    BY <2>1
  <2>3. Highest \in Nat /\ Highest <= Highest
    BY DEF Highest
  <2> QED
    BY <2>2, <2>3, WordFacts
<1>4. ASSUME NEW g \in Word, NEW o \in 0 .. 7
      PROVE  /\ [c EXCEPT !.freq = g] \in GoodChannel /\ SameSound(c, [c EXCEPT !.freq = g])
             /\ [c EXCEPT !.freq = g, !.oct = o] \in GoodChannel
             /\ SameSound(c, [c EXCEPT !.freq = g, !.oct = o])
  BY ZenonT(60) DEF GoodChannel, SameSound
<1>5. PICK f : f = Wrapped(c.freq + a)
  OBVIOUS
<1>6. CASE f < Highest
  <2>1. slide_up(c, a) = [c EXCEPT !.freq = f]
    BY <1>1, <1>5, <1>6
  <2> QED
    BY <1>2, <1>3, <1>4, <1>5, <2>1
<1>7. CASE ~(f < Highest) /\ c.oct < 7
  <2>1. c.oct + 1 \in 0 .. 7
    BY <1>2, <1>7
  <2>2. slide_up(c, a) = [c EXCEPT !.freq = f \div 2, !.oct = c.oct + 1]
    BY <1>1, <1>5, <1>7
  <2> QED
    BY <1>3, <1>4, <1>5, <2>1, <2>2
<1>8. CASE ~(f < Highest) /\ ~(c.oct < 7)
  <2>1. slide_up(c, a) = [c EXCEPT !.freq = Highest]
    BY <1>1, <1>5, <1>8
  <2> QED
    BY <1>2, <1>3, <1>4, <2>1
<1> QED
  BY <1>6, <1>7, <1>8

(* Vibrato, by the shortest run of the waveform that would go wrong.       *)
LEMMA LeastNatural ==
  ASSUME NEW T \in SUBSET Nat, T # {}
  PROVE  \E m \in T : \A k \in T : m <= k
<1>1. PICK R : R = OpToRel(<, Nat)
  OBVIOUS
<1>2. IsWellFoundedOn(R, Nat) /\ T \subseteq Nat
  BY <1>1, NatLessThanWellFounded
<1>3. PICK m \in T : \A k \in T : ~(<<k, m>> \in R)
  BY <1>2, WFMin
<1>4. ASSUME NEW k \in T PROVE m <= k
  <2>1. m \in Nat /\ k \in Nat /\ ~(<<k, m>> \in R)
    BY <1>3
  <2> QED
    BY <1>1, <2>1 DEF OpToRel
<1> QED
  BY <1>3, <1>4

LEMMA VibratoStepMoves ==
  ASSUME NEW c \in GoodChannel, NEW depth \in 1 .. 14
  PROVE  VibratoStep(c, depth) \in GoodChannel /\ SameSound(c, VibratoStep(c, depth))
<1>1. PICK t : t = (c.trigger + 1) % 64
  OBVIOUS
<1>2. t \in 0 .. 63
  BY <1>1 DEF GoodChannel
<1>3. PICK d : d = [c EXCEPT !.trigger = t]
  OBVIOUS
<1>4. d \in GoodChannel /\ SameSound(c, d)
  BY <1>2, <1>3 DEF GoodChannel, SameSound
<1>5. ASSUME NEW i \in Nat, i < 32 PROVE vibratotab(i) \div (16 - depth) \in Nat
  BY <1>5 DEF vibratotab
<1>6. VibratoStep(c, depth) = IF t \in 16 .. 47
                              THEN slide_down(d, vibratotab(t - 16) \div (16 - depth))
                              ELSE slide_up(d, vibratotab((t + 16) % 64) \div (16 - depth))
  BY <1>1, <1>3 DEF VibratoStep
<1>7. CASE t \in 16 .. 47
  <2>1. PICK a : a = vibratotab(t - 16) \div (16 - depth)
    OBVIOUS
  <2>2. a \in Nat /\ VibratoStep(c, depth) = slide_down(d, a)
    BY <1>2, <1>5, <1>6, <1>7, <2>1
  <2> QED
    BY <1>4, <2>2, SlidesDown DEF SameSound
<1>8. CASE t \notin 16 .. 47
  <2>1. PICK a : a = vibratotab((t + 16) % 64) \div (16 - depth)
    OBVIOUS
  <2>2. (t + 16) % 64 \in Nat /\ (t + 16) % 64 < 32
    BY <1>2, <1>8
  <2>3. a \in Nat /\ VibratoStep(c, depth) = slide_up(d, a)
    BY <1>5, <1>6, <1>8, <2>1, <2>2
  <2> QED
    BY <1>4, <2>3, SlidesUp DEF SameSound
<1> QED
  BY <1>7, <1>8

IsWave(f, c, n, depth) ==
  /\ f = [i \in 0 .. n |-> IF i = 0 THEN c ELSE VibratoStep(f[i - 1], depth)]
  /\ \A i \in 0 .. n : f[i] \in GoodChannel /\ SameSound(c, f[i])

LEMMA Waves ==
  ASSUME NEW c \in GoodChannel, NEW n \in Nat, NEW depth \in 1 .. 14
  PROVE  \E f : IsWave(f, c, n, depth)
<1> DEFINE T == {k \in Nat : ~\E f : IsWave(f, c, k, depth)}
<1>1. SUFFICES ASSUME T # {} PROVE FALSE
  BY <1>1
<1>2. PICK m \in T : \A k \in T : m <= k
  BY <1>1, LeastNatural
<1>3. CASE m = 0
  <2>1. PICK f : f = [i \in 0 .. 0 |-> c]
    OBVIOUS
  <2>2. f = [i \in 0 .. 0 |-> IF i = 0 THEN c ELSE VibratoStep(f[i - 1], depth)]
    BY <2>1
  <2>3. IsWave(f, c, 0, depth)
    BY <2>1, <2>2 DEF IsWave, SameSound
  <2> QED
    BY <1>2, <1>3, <2>3
<1>4. CASE m # 0
  <2>1. m - 1 \in Nat /\ m - 1 \notin T
    BY <1>2, <1>4
  <2>2. PICK f : IsWave(f, c, m - 1, depth)
    BY <2>1
  <2>3. PICK x : x = VibratoStep(f[m - 1], depth)
    OBVIOUS
  <2>4. f[m - 1] \in GoodChannel /\ SameSound(c, f[m - 1])
    BY <2>1, <2>2 DEF IsWave
  <2>5. x \in GoodChannel /\ SameSound(c, x)
    BY <2>3, <2>4, VibratoStepMoves DEF SameSound
  <2>6. PICK g : g = [i \in 0 .. m |-> IF i < m THEN f[i] ELSE x]
    OBVIOUS
  <2>7. ASSUME NEW i \in 0 .. m
        PROVE  g[i] = IF i = 0 THEN c ELSE VibratoStep(g[i - 1], depth)
    <3>1. CASE i = 0
      BY <1>4, <2>1, <2>2, <2>6, <3>1 DEF IsWave
    <3>2. CASE i # 0 /\ i < m
      <4>1. i \in 0 .. (m - 1) /\ i - 1 \in 0 .. m /\ i - 1 < m
        BY <2>1, <3>2
      <4>2. g[i] = f[i] /\ g[i - 1] = f[i - 1]
        BY <2>6, <3>2, <4>1
      <4> QED
        BY <2>2, <3>2, <4>1, <4>2 DEF IsWave
    <3>3. CASE i = m
      <4>1. m - 1 \in 0 .. m /\ m - 1 < m /\ ~(m < m)
        BY <2>1
      <4>2. g[m] = x /\ g[m - 1] = f[m - 1]
        BY <2>1, <2>6, <4>1
      <4> QED
        BY <1>4, <2>3, <3>3, <4>2
    <3> QED
      BY <2>1, <3>1, <3>2, <3>3
  <2>8. g = [i \in 0 .. m |-> IF i = 0 THEN c ELSE VibratoStep(g[i - 1], depth)]
    BY <2>6, <2>7
  <2>9. ASSUME NEW i \in 0 .. m PROVE g[i] \in GoodChannel /\ SameSound(c, g[i])
    <3>1. CASE i < m
      BY <2>1, <2>2, <2>6, <3>1 DEF IsWave
    <3>2. CASE ~(i < m)
      BY <2>5, <2>6, <3>2
    <3> QED
      BY <3>1, <3>2
  <2>10. IsWave(g, c, m, depth)
    BY <2>8, <2>9 DEF IsWave
  <2> QED
    BY <1>2, <2>10
<1> QED
  BY <1>3, <1>4

LEMMA VibratoIsWave ==
  ASSUME NEW c \in GoodChannel, NEW turns \in Nat, NEW depth \in Nat \ {0}
  PROVE  \E f : IsWave(f, c, turns, Least(depth, 14)) /\ vibrato(c, turns, depth) = f[turns]
<1>1. PICK d : d = Least(depth, 14)
  OBVIOUS
<1>2. d \in 1 .. 14
  BY <1>1 DEF Least
<1>3. PICK f : IsWave(f, c, turns, d)
  BY <1>2, Waves
<1>4. PICK g : /\ g = [i \in 0 .. turns |-> IF i = 0 THEN c ELSE VibratoStep(g[i - 1], d)]
               /\ vibrato(c, turns, depth) = g[turns]
  <2>1. \E h : h = [i \in 0 .. turns |-> IF i = 0 THEN c ELSE VibratoStep(h[i - 1], d)]
    BY <1>3 DEF IsWave
  <2>2. (\E h : h = [i \in 0 .. turns |-> IF i = 0 THEN c
                                         ELSE VibratoStep(h[i - 1], Least(depth, 14))])
        => \E h : /\ h = [i \in 0 .. turns |-> IF i = 0 THEN c
                                                ELSE VibratoStep(h[i - 1], Least(depth, 14))]
                  /\ vibrato(c, turns, depth) = h[turns]
    BY DEF vibrato
  <2> QED
    BY <1>1, <2>1, <2>2
<1> DEFINE T == {k \in 0 .. turns : f[k] # g[k]}
<1>5. T = {}
  <2>1. SUFFICES ASSUME T # {} PROVE FALSE
    BY <2>1
  <2>2. PICK m \in T : \A k \in T : m <= k
    <3>1. T \in SUBSET Nat
      OBVIOUS
    <3> HIDE DEF T
    <3> QED
      BY <2>1, <3>1, LeastNatural
  <2>3. m \in 0 .. turns /\ f[m] # g[m]
    BY <2>2
  <2>4. CASE m = 0
    BY <1>3, <1>4, <2>3, <2>4 DEF IsWave
  <2>5. CASE m # 0
    <3>1. m - 1 \in 0 .. turns /\ m - 1 \notin T
      BY <2>2, <2>3, <2>5
    <3>2. f[m - 1] = g[m - 1]
      BY <3>1
    <3>3. f[m] = VibratoStep(f[m - 1], d) /\ g[m] = VibratoStep(g[m - 1], d)
      BY <1>3, <1>4, <2>3, <2>5 DEF IsWave
    <3> QED
      BY <2>3, <3>2, <3>3
  <2> QED
    BY <2>4, <2>5
<1>6. f[turns] = g[turns]
  BY <1>5
<1> QED
  BY <1>1, <1>3, <1>4, <1>6

LEMMA Vibratos ==
  ASSUME NEW c \in GoodChannel, NEW turns \in Nat, NEW depth \in Nat
  PROVE  vibrato(c, turns, depth) \in GoodChannel /\ SameSound(c, vibrato(c, turns, depth))
<1>1. CASE depth = 0
  BY <1>1 DEF vibrato, SameSound
<1>2. CASE depth # 0
  <2>1. PICK f : IsWave(f, c, turns, Least(depth, 14)) /\ vibrato(c, turns, depth) = f[turns]
    BY <1>2, VibratoIsWave
  <2> QED
    BY <2>1 DEF IsWave
<1> QED
  BY <1>1, <1>2

LEMMA TonePortamentos ==
  ASSUME NEW c \in GoodChannel, NEW info \in Nat
  PROVE  tone_portamento(c, info) \in GoodChannel /\ SameSound(c, tone_portamento(c, info))
<1> DEFINE Up(d) == IF Pitch(slide_up(d, info)) > Target(d) THEN AtTarget(slide_up(d, info))
                                                            ELSE slide_up(d, info)
           Down(d) == IF Pitch(slide_down(d, info)) < Target(d) THEN AtTarget(slide_down(d, info))
                                                                ELSE slide_down(d, info)
           risen == IF Pitch(c) < Target(c) THEN Up(c) ELSE c
<1>1. tone_portamento(c, info) = IF Pitch(risen) > Target(c) THEN Down(risen) ELSE risen
  BY DEF tone_portamento
<1>2. ASSUME NEW d \in GoodChannel
      PROVE  AtTarget(d) \in GoodChannel /\ SameSound(d, AtTarget(d))
  BY ZenonT(60) DEF GoodChannel, SameSound, AtTarget
<1>3. ASSUME NEW d \in GoodChannel
      PROVE  /\ Up(d) \in GoodChannel /\ SameSound(d, Up(d))
             /\ Down(d) \in GoodChannel /\ SameSound(d, Down(d))
  <2>1. slide_up(d, info) \in GoodChannel /\ SameSound(d, slide_up(d, info))
    BY SlidesUp
  <2>2. slide_down(d, info) \in GoodChannel /\ SameSound(d, slide_down(d, info))
    BY SlidesDown
  <2>3. ASSUME NEW e \in GoodChannel, SameSound(d, e)
        PROVE  AtTarget(e) \in GoodChannel /\ SameSound(d, AtTarget(e))
    BY <1>2, <2>3 DEF SameSound
  <2> QED
    BY <2>1, <2>2, <2>3
<1> HIDE DEF Up, Down
<1>4. risen \in GoodChannel /\ SameSound(c, risen)
  BY <1>3 DEF SameSound
<1> HIDE DEF risen
<1>5. Down(risen) \in GoodChannel /\ SameSound(c, Down(risen))
  BY <1>3, <1>4 DEF SameSound
<1> QED
  BY <1>1, <1>4, <1>5

SameTune(c, d) ==
  d.key = c.key /\ d.freq = c.freq /\ d.oct = c.oct /\ d.note = c.note /\ d.inst = c.inst

LEMMA VolumesMove ==
  ASSUME NEW c \in GoodChannel, NEW a \in Nat, NEW both
  PROVE  /\ VolumeUp(c, a, both) \in GoodChannel /\ VolumeDown(c, a, both) \in GoodChannel
         /\ SameTune(c, VolumeUp(c, a, both)) /\ SameTune(c, VolumeDown(c, a, both))
<1>1. c.vol1 \in 0 .. 63 /\ c.vol2 \in 0 .. 63
  BY DEF GoodChannel
<1>2. ASSUME NEW v \in 0 .. 63 PROVE Least(63, v + a) \in 0 .. 63 /\ Greatest(0, v - a) \in 0 .. 63
  BY DEF Least, Greatest
<1>4. PICK v, w : v = Least(63, c.vol1 + a) /\ w = IF both THEN Least(63, c.vol2 + a) ELSE c.vol2
  OBVIOUS
<1>5. v \in 0 .. 63 /\ w \in 0 .. 63 /\ VolumeUp(c, a, both) = [c EXCEPT !.vol1 = v, !.vol2 = w]
  BY <1>1, <1>2, <1>4 DEF VolumeUp
<1>6. PICK x, y : x = Greatest(0, c.vol1 - a) /\ y = IF both THEN Greatest(0, c.vol2 - a) ELSE c.vol2
  OBVIOUS
<1>7. x \in 0 .. 63 /\ y \in 0 .. 63 /\ VolumeDown(c, a, both) = [c EXCEPT !.vol1 = x, !.vol2 = y]
  BY <1>1, <1>2, <1>6 DEF VolumeDown
<1>8. VolumeUp(c, a, both) \in GoodChannel /\ SameTune(c, VolumeUp(c, a, both))
  <2>1. PICK d : d = [c EXCEPT !.vol1 = v, !.vol2 = w]
    OBVIOUS
  <2>2. d \in GoodChannel /\ SameTune(c, d)
    BY <1>5, <2>1, ZenonT(60) DEF GoodChannel, SameTune
  <2> QED
    BY <1>5, <2>1, <2>2
<1>9. VolumeDown(c, a, both) \in GoodChannel /\ SameTune(c, VolumeDown(c, a, both))
  <2>1. PICK d : d = [c EXCEPT !.vol1 = x, !.vol2 = y]
    OBVIOUS
  <2>2. d \in GoodChannel /\ SameTune(c, d)
    BY <1>7, <2>1, ZenonT(60) DEF GoodChannel, SameTune
  <2> QED
    BY <1>7, <2>1, <2>2
<1> QED
  BY <1>8, <1>9

-----------------------------------------------------------------------------
(***************************************************************************)
(* Voices.  A released voice is silent, a keyed one sounds the low bits of *)
(* its frequency, and the level registers hold the volumes, unless nothing *)
(* has been written to them.                                               *)
(***************************************************************************)
Frequencies == (0 .. 1023) \X (0 .. 7) \X {0, 1}

IsVoice(v) ==
  /\ v \in [ch : GoodChannel, regbd : Byte, fnum : Frequencies, level : Byte \X Byte, bd : Byte]
  /\ v.ch.inst \in DOMAIN inst

Released(v) == v.ch.key = 0 => v.fnum[3] = 0
Tuned(v) == v.ch.key = 1 => v.fnum = <<v.ch.freq % 1024, v.ch.oct, 1>>
Levelled(v) ==
  "Faust" \notin flags =>
    \/ v.level = <<0, 0>>
    \/ v.level = << 63 - v.ch.vol2 + Scaling(Ins(v).data[9]),
                    63 - v.ch.vol1 + Scaling(Ins(v).data[10]) >>

(* What the handlers keep; transitive, so that they can be composed.       *)
Keeps(v, w) ==
  IsVoice(w) /\ (Released(v) => Released(w)) /\ (Levelled(v) => Levelled(w))

LEMMA KeepsOn ==
  ASSUME NEW u, NEW v, NEW w, Keeps(u, v), Keeps(v, w)
  PROVE  Keeps(u, w)
  BY DEF Keeps

LEMMA InstrumentFacts ==
  ASSUME Playable(song), NEW v, IsVoice(v)
  PROVE  /\ Ins(v).data[0] \in Byte /\ Ins(v).data[9] \in Byte /\ Ins(v).data[10] \in Byte
         /\ Ins(v).misc \in Byte /\ Ins(v).slide \in Int
         /\ Ins(v).arpstart \in Byte /\ Ins(v).arpspeed \in Byte
<1>1. Ins(v) \in Instrument
  BY DEF Playable, IsVoice, Ins, inst
<1>2. /\ Ins(v).data \in [0 .. 10 -> Byte] /\ Ins(v).misc \in Byte
      /\ Ins(v).slide \in -128 .. 127 /\ Ins(v).arpstart \in Byte /\ Ins(v).arpspeed \in Byte
  BY <1>1 DEF Instrument
<1>3. Ins(v).data[0] \in Byte /\ Ins(v).data[9] \in Byte /\ Ins(v).data[10] \in Byte
  BY <1>2
<1>4. Ins(v).slide \in Int
  BY <1>2
<1> QED
  BY <1>2, <1>3, <1>4

LEMMA VoiceFields ==
  ASSUME NEW v, IsVoice(v)
  PROVE  /\ v.ch \in GoodChannel /\ v.ch.inst \in DOMAIN inst /\ v.fnum \in Frequencies
         /\ v.level \in Byte \X Byte /\ v.regbd \in Byte /\ v.bd \in Byte
  BY DEF IsVoice

LEMMA Rechannelled ==
  ASSUME NEW v, IsVoice(v), NEW c \in GoodChannel, c.inst \in DOMAIN inst
  PROVE  /\ IsVoice([v EXCEPT !.ch = c])
         /\ [v EXCEPT !.ch = c].ch = c /\ [v EXCEPT !.ch = c].fnum = v.fnum
         /\ [v EXCEPT !.ch = c].level = v.level
         /\ [v EXCEPT !.ch = c].regbd = v.regbd /\ [v EXCEPT !.ch = c].bd = v.bd
<1>1. PICK w : w = [v EXCEPT !.ch = c]
  OBVIOUS
<1>2. /\ w \in [ch : GoodChannel, regbd : Byte, fnum : Frequencies, level : Byte \X Byte, bd : Byte]
      /\ w.ch = c /\ w.fnum = v.fnum /\ w.level = v.level /\ w.regbd = v.regbd /\ w.bd = v.bd
  BY <1>1 DEF IsVoice
<1> QED
  BY <1>1, <1>2 DEF IsVoice

LEMMA Refretted ==
  ASSUME NEW v, IsVoice(v)
  PROVE  /\ IsVoice(setfreq(v)) /\ setfreq(v).ch = v.ch /\ setfreq(v).level = v.level
         /\ Released(setfreq(v)) /\ Tuned(setfreq(v))
<1>1. v.ch.freq \in Nat /\ v.ch.oct \in 0 .. 7 /\ v.ch.key \in {0, 1}
  BY VoiceFields, WordFacts DEF GoodChannel
<1>2. PICK f : f = << v.ch.freq % 1024, v.ch.oct, v.ch.key >>
  OBVIOUS
<1>3. v.ch.oct % 8 = v.ch.oct /\ (v.ch.oct \div 8) % 2 = 0
  BY <1>1
<1>4. setfreq(v) = [v EXCEPT !.fnum = f]
  BY <1>1, <1>2, <1>3 DEF setfreq
<1>5. f \in Frequencies /\ f[3] = v.ch.key
  <2>1. v.ch.freq % 1024 \in 0 .. 1023
    BY <1>1
  <2> QED
    BY <1>1, <1>2, <2>1, SMTT(30) DEF Frequencies
<1>6. PICK w : w = [v EXCEPT !.fnum = f]
  OBVIOUS
<1>7. /\ w \in [ch : GoodChannel, regbd : Byte, fnum : Frequencies, level : Byte \X Byte, bd : Byte]
      /\ w.ch = v.ch /\ w.level = v.level /\ w.fnum = f
  BY <1>5, <1>6 DEF IsVoice
<1>8. IsVoice(w) /\ Released(w) /\ Tuned(w)
  BY <1>2, <1>5, <1>7 DEF IsVoice, Released, Tuned
<1> QED
  BY <1>4, <1>6, <1>7, <1>8

LEMMA Relevelled ==
  ASSUME Playable(song), NEW v, IsVoice(v)
  PROVE  /\ IsVoice(setvolume(v)) /\ setvolume(v).ch = v.ch /\ setvolume(v).fnum = v.fnum
         /\ Levelled(setvolume(v))
<1> DEFINE Register(vol, byte) ==
             IF "Faust" \in flags
             THEN ((63 - (vol % 64) + Level(byte)) \div 2 + Scaling(byte)) % 256
             ELSE (63 - vol + Scaling(byte)) % 256
<1>1. setvolume(v) = [v EXCEPT !.level = << Register(v.ch.vol2, Ins(v).data[9]),
                                            Register(v.ch.vol1, Ins(v).data[10]) >>]
  BY DEF setvolume
<1>2. v.ch.vol1 \in 0 .. 63 /\ v.ch.vol2 \in 0 .. 63
  BY VoiceFields DEF GoodChannel
<1>3. ASSUME NEW vol \in 0 .. 63, NEW byte \in Byte
      PROVE  /\ Register(vol, byte) \in Byte
             /\ "Faust" \notin flags => Register(vol, byte) = 63 - vol + Scaling(byte)
  <2>1. byte \in Int /\ Level(byte) \in Int /\ Scaling(byte) \in 0 .. 192
    BY DEF Byte, Level, Scaling
  <2>2. CASE "Faust" \in flags
    <3>1. (63 - (vol % 64) + Level(byte)) \div 2 + Scaling(byte) \in Int
      BY <2>1
    <3> QED
      BY <2>2, <3>1 DEF Byte
  <2>3. CASE "Faust" \notin flags
    <3>1. 63 - vol + Scaling(byte) \in 0 .. 255
      BY <2>1
    <3> QED
      BY <2>3, <3>1 DEF Byte
  <2> QED
    BY <2>2, <2>3
<1> HIDE DEF Register
<1>4. PICK l : l = << Register(v.ch.vol2, Ins(v).data[9]), Register(v.ch.vol1, Ins(v).data[10]) >>
  OBVIOUS
<1>5. Ins(v).data[9] \in Byte /\ Ins(v).data[10] \in Byte
  BY InstrumentFacts
<1>6. l \in Byte \X Byte
  BY <1>2, <1>3, <1>4, <1>5
<1>7. "Faust" \notin flags => l = << 63 - v.ch.vol2 + Scaling(Ins(v).data[9]),
                                     63 - v.ch.vol1 + Scaling(Ins(v).data[10]) >>
  BY <1>2, <1>3, <1>4, <1>5
<1>8. PICK w : w = [v EXCEPT !.level = l]
  OBVIOUS
<1>9. /\ w \in [ch : GoodChannel, regbd : Byte, fnum : Frequencies, level : Byte \X Byte, bd : Byte]
      /\ w.ch = v.ch /\ w.level = l /\ w.fnum = v.fnum
  BY <1>6, <1>8 DEF IsVoice
<1>10. IsVoice(w) /\ Levelled(w)
  BY <1>7, <1>9 DEF IsVoice, Levelled, Ins
<1> QED
  BY <1>1, <1>4, <1>8, <1>9, <1>10

(***************************************************************************)
(* The three ways a handler changes a channel: with setfreq() after it,    *)
(* with setvolume() after it, or without a write because nothing that      *)
(* sounds has changed.                                                     *)
(***************************************************************************)
LEMMA SlideKeeps ==
  ASSUME NEW v, IsVoice(v), NEW c \in GoodChannel,
         c.vol1 = v.ch.vol1, c.vol2 = v.ch.vol2, c.inst = v.ch.inst
  PROVE  Keeps(v, Slide(v, c)) /\ Tuned(Slide(v, c)) /\ Slide(v, c).ch = c
<1>1. PICK u : u = [v EXCEPT !.ch = c]
  OBVIOUS
<1>2. c.inst \in DOMAIN inst
  BY VoiceFields
<1>3. IsVoice(u) /\ u.ch = c /\ u.level = v.level
  BY <1>1, <1>2, Rechannelled
<1>4. PICK w : w = setfreq(u)
  OBVIOUS
<1>5. IsVoice(w) /\ w.ch = c /\ w.level = v.level /\ Released(w) /\ Tuned(w)
  BY <1>3, <1>4, Refretted
<1>6. Levelled(v) => Levelled(w)
  BY <1>5 DEF Levelled, Ins
<1>7. Slide(v, c) = w
  BY <1>1, <1>4 DEF Slide
<1> QED
  BY <1>5, <1>6, <1>7 DEF Keeps

LEMMA VolumeKeeps ==
  ASSUME Playable(song), NEW v, IsVoice(v), NEW c \in GoodChannel, c.inst \in DOMAIN inst,
         c.key = v.ch.key, c.freq = v.ch.freq, c.oct = v.ch.oct
  PROVE  /\ Keeps(v, Volume(v, c)) /\ (Tuned(v) => Tuned(Volume(v, c))) /\ Volume(v, c).ch = c
         /\ Levelled(Volume(v, c))
<1>1. PICK u : u = [v EXCEPT !.ch = c]
  OBVIOUS
<1>2. IsVoice(u) /\ u.ch = c /\ u.fnum = v.fnum
  BY <1>1, Rechannelled
<1>3. PICK w : w = setvolume(u)
  OBVIOUS
<1>4. IsVoice(w) /\ w.ch = c /\ w.fnum = v.fnum /\ Levelled(w)
  BY <1>2, <1>3, Relevelled
<1>5. (Released(v) => Released(w)) /\ (Tuned(v) => Tuned(w))
  BY <1>4 DEF Released, Tuned
<1>6. Volume(v, c) = w
  BY <1>1, <1>3 DEF Volume
<1> QED
  BY <1>4, <1>5, <1>6 DEF Keeps

LEMMA ChannelKeeps ==
  ASSUME NEW v, IsVoice(v), NEW c \in GoodChannel,
         c.vol1 = v.ch.vol1, c.vol2 = v.ch.vol2, c.inst = v.ch.inst, c.key = v.ch.key
  PROVE  /\ Keeps(v, [v EXCEPT !.ch = c]) /\ [v EXCEPT !.ch = c].ch = c
         /\ c.freq = v.ch.freq /\ c.oct = v.ch.oct /\ Tuned(v) => Tuned([v EXCEPT !.ch = c])
<1>1. PICK w : w = [v EXCEPT !.ch = c]
  OBVIOUS
<1>2. c.inst \in DOMAIN inst
  BY VoiceFields
<1>3. IsVoice(w) /\ w.ch = c /\ w.level = v.level /\ w.fnum = v.fnum
  BY <1>1, <1>2, Rechannelled
<1>4. (Levelled(v) => Levelled(w)) /\ (Released(v) => Released(w))
  BY <1>3 DEF Levelled, Released, Ins
<1>5. c.freq = v.ch.freq /\ c.oct = v.ch.oct /\ Tuned(v) => Tuned(w)
  BY <1>3 DEF Tuned
<1> QED
  BY <1>1, <1>3, <1>4, <1>5 DEF Keeps

(* Key-off, and the start of a note.                                       *)
LEMMA ReleaseKeeps ==
  ASSUME NEW v, IsVoice(v)
  PROVE  LET w == setfreq([v EXCEPT !.ch.key = 0])
         IN  Keeps(v, w) /\ Tuned(w)
<1>1. PICK c : c = [v.ch EXCEPT !.key = 0]
  OBVIOUS
<1>2. /\ c \in GoodChannel /\ c.vol1 = v.ch.vol1 /\ c.vol2 = v.ch.vol2 /\ c.inst = v.ch.inst
  BY <1>1, VoiceFields DEF GoodChannel
<1>3. setfreq([v EXCEPT !.ch.key = 0]) = Slide(v, c)
  BY <1>1 DEF Slide
<1> QED
  BY <1>2, <1>3, SlideKeeps

LEMMA PlayNoteKeeps ==
  ASSUME Playable(song), NEW v, IsVoice(v)
  PROVE  /\ Keeps(v, playnote(v)) /\ Tuned(playnote(v))
<1>1. PICK b : b = Ins(v).misc
  OBVIOUS
<1>2. PICK u : u = [v EXCEPT !.bd = b]
  OBVIOUS
<1>3. b \in Byte
  BY <1>1, InstrumentFacts
<1>4. IsVoice(u) /\ u.ch = v.ch /\ u.level = v.level /\ u.fnum = v.fnum
  BY <1>2, <1>3 DEF IsVoice
<1>5. PICK c : c = [v.ch EXCEPT !.key = 1]
  OBVIOUS
<1>6. c \in GoodChannel /\ c.vol1 = v.ch.vol1 /\ c.vol2 = v.ch.vol2 /\ c.inst = v.ch.inst
  BY <1>5, VoiceFields DEF GoodChannel
<1>7. PICK k : k = Slide(u, c)
  OBVIOUS
<1>8. IsVoice(k) /\ Released(k) /\ Tuned(k) /\ k.ch = c
  <2>1. c.key = 1
    BY <1>5, VoiceFields DEF GoodChannel
  <2> QED
    BY <1>4, <1>6, <1>7, <2>1, SlideKeeps DEF Keeps, Released
<1>9. k = setfreq([v EXCEPT !.ch.key = 1, !.bd = Ins(v).misc])
  <2>1. [v EXCEPT !.ch = c, !.bd = b] = [u EXCEPT !.ch = c]
    BY <1>2 DEF IsVoice
  <2> QED
    BY <1>1, <1>5, <1>7, <2>1 DEF Slide
<1>10. PICK d : d = IF "Faust" \in flags THEN [c EXCEPT !.vol1 = 63, !.vol2 = 63] ELSE c
  OBVIOUS
<1>11. d \in GoodChannel /\ d.inst = c.inst /\ d.key = c.key /\ d.freq = c.freq /\ d.oct = c.oct
  <2>1. CASE "Faust" \in flags
    <3>1. d = [c EXCEPT !.vol1 = 63, !.vol2 = 63]
      BY <1>10, <2>1
    <3>2. c \in GoodChannel
      BY <1>6
    <3>3. 63 \in 0 .. 63
      OBVIOUS
    <3>4. d \in GoodChannel
      BY <3>1, <3>2, <3>3, ZenonT(60) DEF GoodChannel
    <3> QED
      BY <3>1, <3>2, <3>4 DEF GoodChannel
  <2>2. CASE "Faust" \notin flags
    BY <1>6, <1>10, <2>2
  <2> QED
    BY <2>1, <2>2
<1>12. playnote(v) = Volume(k, d)
  <2>1. "Faust" \in flags => [k EXCEPT !.ch.vol1 = 63, !.ch.vol2 = 63] = [k EXCEPT !.ch = d]
    BY <1>8, <1>10 DEF IsVoice
  <2>2. "Faust" \notin flags => k = [k EXCEPT !.ch = d]
    BY <1>8, <1>10 DEF IsVoice
  <2> QED
    BY <1>9, <2>1, <2>2 DEF playnote, Volume
<1>13. d.inst \in DOMAIN inst
  BY <1>6, <1>11, VoiceFields
<1> QED
  BY <1>8, <1>11, <1>12, <1>13, VolumeKeeps DEF Keeps

LEMMA SetNoteKeeps ==
  ASSUME Playable(song), NEW v, IsVoice(v), NEW n \in Nat
  PROVE  /\ Keeps(v, setnote(v, n)) /\ (n = 127 => Tuned(setnote(v, n)))
         /\ setnote(v, n).ch.inst = v.ch.inst
<1>1. CASE n = 127
  <2>1. setnote(v, n) = setfreq([v EXCEPT !.ch.key = 0])
    BY <1>1 DEF setnote
  <2>2. setfreq([v EXCEPT !.ch.key = 0]).ch.inst = v.ch.inst
    <3>1. PICK c : c = [v.ch EXCEPT !.key = 0]
      OBVIOUS
    <3>2. c \in GoodChannel /\ c.inst = v.ch.inst /\ c.vol1 = v.ch.vol1 /\ c.vol2 = v.ch.vol2
      BY <3>1, VoiceFields DEF GoodChannel
    <3>3. setfreq([v EXCEPT !.ch.key = 0]) = Slide(v, c)
      BY <3>1 DEF Slide
    <3> QED
      BY <3>2, <3>3, SlideKeeps
  <2> QED
    BY <2>1, <2>2, ReleaseKeeps
<1>2. CASE n # 127
  <2>1. PICK m : m = Greatest(1, Least(96, n))
    OBVIOUS
  <2>2. m \in 1 .. 96
    BY <2>1 DEF Greatest, Least
  <2>3. NoteOct(m) \in 0 .. 7 /\ (m - 1) % 12 \in 0 .. 11
    BY <2>2 DEF NoteOct
  <2>4. NoteFreq(notetable, m) \in Word
    BY <2>3 DEF NoteFreq, notetable, Playable
  <2>5. Wrapped(NoteFreq(notetable, m) + Ins(v).slide) \in Word
    <3>1. NoteFreq(notetable, m) \in Int /\ Ins(v).slide \in Int
      BY <2>4, WordFacts, InstrumentFacts
    <3>2. NoteFreq(notetable, m) + Ins(v).slide \in Int
      BY <3>1
    <3> QED
      BY <3>2, WordFacts
  <2>6. PICK f, o : f = Wrapped(NoteFreq(notetable, m) + Ins(v).slide) /\ o = NoteOct(m)
    OBVIOUS
  <2>7. PICK c : c = [v.ch EXCEPT !.freq = f, !.oct = o]
    OBVIOUS
  <2>8. /\ c \in GoodChannel /\ c.vol1 = v.ch.vol1 /\ c.vol2 = v.ch.vol2 /\ c.inst = v.ch.inst
        /\ c.key = v.ch.key
    <3>1. f \in Word /\ o \in 0 .. 7
      BY <2>3, <2>5, <2>6
    <3>2. v.ch \in GoodChannel
      BY VoiceFields
    <3> QED
      BY <2>7, <3>1, <3>2, ZenonT(60) DEF GoodChannel
  <2>9. setnote(v, n) = [v EXCEPT !.ch = c]
    <3>1. setnote(v, n) = [v EXCEPT !.ch.freq = f, !.ch.oct = o]
      BY <1>2, <2>1, <2>6 DEF setnote
    <3>2. [v EXCEPT !.ch.freq = f, !.ch.oct = o] = [v EXCEPT !.ch = c]
      BY <2>7 DEF IsVoice
    <3> QED
      BY <3>1, <3>2
  <2> QED
    BY <1>2, <2>8, <2>9, ChannelKeeps
<1> QED
  BY <1>1, <1>2

-----------------------------------------------------------------------------
(* The handlers of the tick loop.                                          *)
Plays(v, w) == Keeps(v, w) /\ (Tuned(v) => Tuned(w))

LEMMA PlaysOn ==
  ASSUME NEW u, NEW v, NEW w, Plays(u, v), Plays(v, w)
  PROVE  Plays(u, w)
  BY KeepsOn DEF Plays

LEMMA PlaysItself ==
  ASSUME NEW v, IsVoice(v)
  PROVE  Plays(v, v)
  BY DEF Plays, Keeps

LEMMA ArpCommandKeeps ==
  ASSUME Playable(song), song.arp \in [Byte -> [cmd : Byte, list : Byte]], NEW v, IsVoice(v)
  PROVE  Keeps(v, ArpCommand(v))
<1>1. v.ch \in GoodChannel /\ v.ch.arppos \in Byte
  BY VoiceFields DEF GoodChannel
<1>2. PICK cmd, list : cmd = arpcmd(v.ch.arppos) /\ list = arplist(v.ch.arppos)
  OBVIOUS
<1>3. cmd \in Byte /\ list \in Byte
  BY <1>1, <1>2 DEF arpcmd, arplist
<1>4. CASE cmd = 252
  <2>1. PICK vol : vol = Least(63, list)
    OBVIOUS
  <2>2. vol \in 0 .. 63
    <3>1. list \in Nat
      BY <1>3, ByteFacts
    <3> QED
      BY <2>1, <3>1 DEF Least
  <2>3. PICK c : c = [v.ch EXCEPT !.vol1 = vol, !.vol2 = vol]
    OBVIOUS
  <2>4. c \in GoodChannel
    BY <1>1, <2>2, <2>3, ZenonT(60) DEF GoodChannel
  <2>5. c.inst = v.ch.inst /\ c.key = v.ch.key /\ c.freq = v.ch.freq /\ c.oct = v.ch.oct
    BY <1>1, <2>3 DEF GoodChannel
  <2>6. ArpCommand(v) = Volume(v, c)
    BY <1>2, <1>4, <2>1, <2>3 DEF ArpCommand
  <2> QED
    BY <2>4, <2>5, <2>6, VolumeKeeps, VoiceFields
<1>5. CASE cmd = 253
  <2>1. ArpCommand(v) = setfreq([v EXCEPT !.ch.key = 0])
    BY <1>2, <1>5 DEF ArpCommand
  <2> QED
    BY <2>1, ReleaseKeeps
<1>6. CASE cmd = 254
  <2>1. PICK c : c = [v.ch EXCEPT !.arppos = list]
    OBVIOUS
  <2>2. /\ c \in GoodChannel /\ c.vol1 = v.ch.vol1 /\ c.vol2 = v.ch.vol2 /\ c.inst = v.ch.inst
        /\ c.key = v.ch.key
    BY <1>1, <1>3, <2>1 DEF GoodChannel
  <2>3. ArpCommand(v) = [v EXCEPT !.ch = c]
    <3>1. ArpCommand(v) = [v EXCEPT !.ch.arppos = list]
      BY <1>2, <1>6 DEF ArpCommand
    <3> QED
      BY <2>1, <3>1
  <2> QED
    BY <2>2, <2>3, ChannelKeeps
<1>7. CASE cmd \notin {252, 253, 254}
  <2>1. ArpCommand(v) = v
    BY <1>2, <1>7 DEF ArpCommand
  <2> QED
    BY <2>1, PlaysItself DEF Plays
<1> QED
  BY <1>4, <1>5, <1>6, <1>7

LEMMA ArpNoteSets ==
  ASSUME song.arp \in [Byte -> [cmd : Byte, list : Byte]], NEW v, IsVoice(v)
  PROVE  ArpNote(v) = v \/ \E n \in Nat : ArpNote(v) = setnote(v, n)
<1>1. v.ch \in GoodChannel /\ v.ch.arppos \in Byte /\ v.ch.note \in Nat
  <2>1. v.ch \in GoodChannel
    BY VoiceFields
  <2>2. v.ch.arppos \in Byte /\ v.ch.note \in 0 .. 127
    BY <2>1 DEF GoodChannel
  <2> QED
    BY <2>1, <2>2
<1>2. PICK cmd, list : cmd = arpcmd(v.ch.arppos) /\ list = arplist(v.ch.arppos)
  OBVIOUS
<1>3. list \in Nat
  <2>1. list \in Byte
    BY <1>1, <1>2 DEF arplist
  <2> QED
    BY <2>1, ByteFacts
<1>4. \/ ArpNote(v) = v \/ \E n \in Nat : ArpNote(v) = setnote(v, n)
  <2>1. CASE cmd = 252
    BY <1>1, <1>2, <2>1 DEF ArpNote
  <2>2. CASE cmd # 252 /\ list <= 96
    <3>1. v.ch.note + list \in Nat
      BY <1>1, <1>3
    <3>2. ArpNote(v) = setnote(v, v.ch.note + list)
      BY <1>2, <1>3, <2>2 DEF ArpNote
    <3> QED
      BY <3>1, <3>2
  <2>3. CASE cmd # 252 /\ ~(list <= 96) /\ list >= 100
    <3>1. list - 100 \in Nat
      BY <1>3, <2>3
    <3>2. ArpNote(v) = setnote(v, list - 100)
      BY <1>2, <1>3, <2>3 DEF ArpNote
    <3> QED
      BY <3>1, <3>2
  <2>4. CASE cmd # 252 /\ ~(list <= 96) /\ ~(list >= 100)
    BY <1>2, <1>3, <2>4 DEF ArpNote
  <2> QED
    BY <2>1, <2>2, <2>3, <2>4
<1> QED
  BY <1>4

LEMMA ArpNoteKeeps ==
  ASSUME Playable(song), song.arp \in [Byte -> [cmd : Byte, list : Byte]], NEW v, IsVoice(v)
  PROVE  Keeps(v, ArpNote(v))
BY ArpNoteSets, SetNoteKeeps, PlaysItself DEF Plays

LEMMA SpecialArpeggioPlays ==
  ASSUME Playable(song), NEW v, IsVoice(v)
  PROVE  Plays(v, SpecialArpeggio(v))
<1>1. v.ch \in GoodChannel /\ v.ch.arpspdcnt \in Byte
  BY VoiceFields DEF GoodChannel
<1>2. CASE song.arp = <<>> \/ Ins(v).arpstart = 0
  <2>1. SpecialArpeggio(v) = v
    BY <1>2 DEF SpecialArpeggio
  <2> QED
    BY <2>1, PlaysItself
<1>3. CASE ~(song.arp = <<>> \/ Ins(v).arpstart = 0) /\ v.ch.arpspdcnt > 0
  <2>1. PICK c : c = [v.ch EXCEPT !.arpspdcnt = v.ch.arpspdcnt - 1]
    OBVIOUS
  <2>2. v.ch.arpspdcnt - 1 \in Byte
    BY <1>1, <1>3 DEF Byte
  <2>3. /\ c \in GoodChannel /\ c.vol1 = v.ch.vol1 /\ c.vol2 = v.ch.vol2 /\ c.inst = v.ch.inst
        /\ c.key = v.ch.key /\ c.freq = v.ch.freq /\ c.oct = v.ch.oct
    BY <1>1, <2>1, <2>2 DEF GoodChannel
  <2>4. SpecialArpeggio(v) = [v EXCEPT !.ch = c]
    <3>1. SpecialArpeggio(v) = [v EXCEPT !.ch.arpspdcnt = @ - 1]
      BY <1>3 DEF SpecialArpeggio
    <3>2. [v EXCEPT !.ch.arpspdcnt = @ - 1] = [v EXCEPT !.ch = c]
      BY <2>1
    <3> QED
      BY <3>1, <3>2
  <2> QED
    BY <2>3, <2>4, ChannelKeeps DEF Plays
<1>4. CASE /\ ~(song.arp = <<>> \/ Ins(v).arpstart = 0)
           /\ ~(v.ch.arpspdcnt > 0) /\ arpcmd(v.ch.arppos) = 255
  <2>1. SpecialArpeggio(v) = v
    BY <1>4 DEF SpecialArpeggio
  <2> QED
    BY <2>1, PlaysItself
<1>5. CASE /\ ~(song.arp = <<>> \/ Ins(v).arpstart = 0)
           /\ ~(v.ch.arpspdcnt > 0) /\ arpcmd(v.ch.arppos) # 255
  <2>0. song.arp \in [Byte -> [cmd : Byte, list : Byte]]
    BY <1>5, Zenon DEF Playable
  <2>1. PICK a : a = ArpCommand(v)
    OBVIOUS
  <2>2. Keeps(v, a) /\ IsVoice(a)
    BY <2>0, <2>1, ArpCommandKeeps DEF Keeps
  <2>3. PICK n : n = ArpNote(a)
    OBVIOUS
  <2>4. Keeps(a, n) /\ IsVoice(n)
    BY <2>0, <2>2, <2>3, ArpNoteKeeps DEF Keeps
  <2>5. PICK p : p = setfreq(n)
    OBVIOUS
  <2>6. IsVoice(p) /\ p.ch = n.ch /\ p.level = n.level /\ Released(p) /\ Tuned(p)
    BY <2>4, <2>5, Refretted
  <2>7. Levelled(n) => Levelled(p)
    BY <2>6 DEF Levelled, Ins
  <2>8. Keeps(n, p)
    BY <2>6, <2>7 DEF Keeps
  <2>9. PICK x, y : /\ x = IF arpcmd(p.ch.arppos) = 255 THEN p.ch.arppos
                                                     ELSE (p.ch.arppos + 1) % 256
                    /\ y = (Ins(v).arpspeed - 1) % 256
    OBVIOUS
  <2>10. p.ch \in GoodChannel /\ p.ch.arppos \in Byte
    BY <2>6, VoiceFields DEF GoodChannel
  <2>11. x \in Byte /\ y \in Byte
    <3>1. p.ch.arppos \in Int /\ Ins(v).arpspeed \in Int
      BY <2>10, InstrumentFacts DEF Byte
    <3>2. (p.ch.arppos + 1) % 256 \in Byte /\ (Ins(v).arpspeed - 1) % 256 \in Byte
      BY <3>1 DEF Byte
    <3> QED
      BY <2>9, <2>10, <3>2
  <2>12. PICK c : c = [p.ch EXCEPT !.arppos = x, !.arpspdcnt = y]
    OBVIOUS
  <2>13. c \in GoodChannel
    BY <2>10, <2>11, <2>12, ZenonT(60) DEF GoodChannel
  <2>14. /\ c.vol1 = p.ch.vol1 /\ c.vol2 = p.ch.vol2 /\ c.inst = p.ch.inst
         /\ c.key = p.ch.key /\ c.freq = p.ch.freq /\ c.oct = p.ch.oct
    BY <2>10, <2>12 DEF GoodChannel
  <2>15. SpecialArpeggio(v) = [p EXCEPT !.ch = c]
    <3>1. SpecialArpeggio(v) = [p EXCEPT !.ch.arppos = x, !.ch.arpspdcnt = y]
      BY <1>5, <2>1, <2>3, <2>5, <2>9 DEF SpecialArpeggio
    <3>2. [p EXCEPT !.ch.arppos = x, !.ch.arpspdcnt = y] = [p EXCEPT !.ch = c]
      BY <2>6, <2>12 DEF IsVoice
    <3> QED
      BY <3>1, <3>2
  <2>16. Keeps(p, SpecialArpeggio(v)) /\ Tuned(SpecialArpeggio(v))
    BY <2>6, <2>13, <2>14, <2>15, ChannelKeeps
  <2> QED
    BY <2>2, <2>4, <2>8, <2>16, KeepsOn DEF Plays
<1> QED
  BY <1>2, <1>3, <1>4, <1>5

(* Slides of all kinds and volume changes of all kinds.                    *)
LEMMA SlidePlays ==
  ASSUME NEW v, IsVoice(v), NEW c \in GoodChannel, SameSound(v.ch, c)
  PROVE  Plays(v, Slide(v, c)) /\ IsVoice(Slide(v, c)) /\ Slide(v, c).ch = c
  BY SlideKeeps DEF SameSound, Plays, Keeps

LEMMA VolumePlays ==
  ASSUME Playable(song), NEW v, IsVoice(v), NEW c \in GoodChannel, SameTune(v.ch, c)
  PROVE  Plays(v, Volume(v, c)) /\ IsVoice(Volume(v, c))
<1>1. c.inst \in DOMAIN inst
  BY VoiceFields DEF SameTune
<1> QED
  BY <1>1, VolumeKeeps DEF SameTune, Plays, Keeps

LEMMA ChannelNumbers ==
  ASSUME NEW v, IsVoice(v)
  PROVE  /\ v.ch \in GoodChannel
         /\ v.ch.fx \in Nat /\ v.ch.info1 \in Nat /\ v.ch.info2 \in Nat /\ v.ch.note \in Nat
         /\ v.ch.portainfo \in Nat /\ v.ch.vibinfo1 \in Nat /\ v.ch.vibinfo2 \in Nat
         /\ v.ch.info1 \in Byte /\ v.ch.info2 \in Byte /\ v.ch.trigger \in 0 .. 63
<1>1. v.ch \in GoodChannel
  BY VoiceFields
<1>2. /\ v.ch.fx \in Byte /\ v.ch.info1 \in Byte /\ v.ch.info2 \in Byte /\ v.ch.note \in 0 .. 127
      /\ v.ch.portainfo \in Byte /\ v.ch.vibinfo1 \in Byte /\ v.ch.vibinfo2 \in Byte
      /\ v.ch.trigger \in 0 .. 63
  BY <1>1 DEF GoodChannel
<1>3. v.ch.note \in Nat
  BY <1>2
<1> QED
  BY <1>1, <1>2, <1>3, ByteFacts

LEMMA InfoIsNat ==
  ASSUME NEW x \in Byte, NEW y \in Byte
  PROVE  InfoOf(x, y) \in Byte /\ InfoOf(x, y) \in Nat
<1>1. PICK f : f = IF "Decimal" \in flags THEN 10 ELSE 16
  OBVIOUS
<1>2. f \in {10, 16} /\ x \in Nat /\ y \in Nat
  BY <1>1, ByteFacts
<1>3. InfoOf(x, y) = (x * f + y) % 256
  BY <1>1 DEF InfoOf
<1>4. x * f + y \in Int
  BY <1>2
<1> QED
  BY <1>3, <1>4, ByteFacts

LEMMA ArpeggioPlays ==
  ASSUME Playable(song), NEW v, IsVoice(v)
  PROVE  Plays(v, Arpeggio(v))
<1>1. PICK t : t = IF v.ch.trigger < 2 THEN v.ch.trigger + 1 ELSE 0
  OBVIOUS
<1>2. t \in 0 .. 2
  BY <1>1, ChannelNumbers
<1>3. PICK c : c = [v.ch EXCEPT !.trigger = t]
  OBVIOUS
<1>4. /\ c \in GoodChannel /\ c.vol1 = v.ch.vol1 /\ c.vol2 = v.ch.vol2 /\ c.inst = v.ch.inst
      /\ c.key = v.ch.key
  <2>1. v.ch \in GoodChannel /\ t \in 0 .. 63
    BY <1>2, ChannelNumbers
  <2> QED
    BY <1>3, <2>1 DEF GoodChannel
<1>5. PICK u : u = [v EXCEPT !.ch = c]
  OBVIOUS
<1>6. Keeps(v, u) /\ IsVoice(u)
  BY <1>4, <1>5, ChannelKeeps DEF Keeps
<1>7. PICK n : n = v.ch.note + << 0, v.ch.info1, v.ch.info2 >>[t + 1]
  OBVIOUS
<1>8. n \in Nat
  <2>1. v.ch.note \in Nat /\ v.ch.info1 \in Nat /\ v.ch.info2 \in Nat
    BY ChannelNumbers
  <2>2. << 0, v.ch.info1, v.ch.info2 >>[t + 1] \in Nat
    BY <1>2, <2>1
  <2> QED
    BY <1>7, <2>1, <2>2
<1>9. PICK w : w = setnote(u, n)
  OBVIOUS
<1>10. Keeps(u, w) /\ IsVoice(w)
  BY <1>6, <1>8, <1>9, SetNoteKeeps DEF Keeps
<1>11. Arpeggio(v) = setfreq(w)
  <2>1. [v EXCEPT !.ch.trigger = t] = u
    BY <1>3, <1>5
  <2> QED
    BY <1>1, <1>7, <1>9, <2>1 DEF Arpeggio
<1>12. /\ IsVoice(setfreq(w)) /\ Released(setfreq(w)) /\ Tuned(setfreq(w))
       /\ setfreq(w).ch = w.ch /\ setfreq(w).level = w.level
  BY <1>10, Refretted
<1>13. Keeps(w, setfreq(w))
  BY <1>12 DEF Keeps, Levelled, Ins
<1> QED
  BY <1>6, <1>10, <1>11, <1>12, <1>13, KeepsOn DEF Plays

LEMMA TonePortamentoPlays ==
  ASSUME NEW v, IsVoice(v)
  PROVE  Plays(v, TonePortamento(v)) /\ IsVoice(TonePortamento(v))
<1>1. PICK c : c = tone_portamento(v.ch, v.ch.portainfo)
  OBVIOUS
<1>2. c \in GoodChannel /\ SameSound(v.ch, c)
  BY <1>1, ChannelNumbers, TonePortamentos
<1> QED
  BY <1>1, <1>2, SlidePlays DEF TonePortamento

LEMMA VibratoPlays ==
  ASSUME NEW v, IsVoice(v)
  PROVE  Plays(v, Vibrato(v)) /\ IsVoice(Vibrato(v))
<1>1. CASE v.ch.vibinfo1 = 0 \/ v.ch.vibinfo2 = 0
  BY <1>1, PlaysItself DEF Vibrato
<1>2. CASE ~(v.ch.vibinfo1 = 0 \/ v.ch.vibinfo2 = 0)
  <2>1. PICK c : c = vibrato(v.ch, v.ch.vibinfo1, v.ch.vibinfo2)
    OBVIOUS
  <2>2. c \in GoodChannel /\ SameSound(v.ch, c)
    BY <2>1, ChannelNumbers, Vibratos
  <2> QED
    BY <1>2, <2>1, <2>2, SlidePlays DEF Vibrato
<1> QED
  BY <1>1, <1>2

LEMMA VolumeMovePlays ==
  ASSUME Playable(song), NEW v, IsVoice(v), NEW a \in Nat, NEW both
  PROVE  /\ Plays(v, Volume(v, VolumeUp(v.ch, a, both)))
         /\ Plays(v, Volume(v, VolumeDown(v.ch, a, both)))
<1>1. PICK c, d : c = VolumeUp(v.ch, a, both) /\ d = VolumeDown(v.ch, a, both)
  OBVIOUS
<1>2. c \in GoodChannel /\ d \in GoodChannel /\ SameTune(v.ch, c) /\ SameTune(v.ch, d)
  BY <1>1, ChannelNumbers, VolumesMove
<1> QED
  BY <1>1, <1>2, VolumePlays

LEMMA VolumeSlidePlays ==
  ASSUME Playable(song), NEW v, IsVoice(v), NEW both
  PROVE  Plays(v, VolumeSlide(v, both)) /\ Plays(v, SlowVolumeSlide(v, both))
<1>1. Plays(v, VolumeSlide(v, both))
  <2>1. v.ch.info1 \in Nat /\ v.ch.info2 \in Nat
    BY ChannelNumbers
  <2>2. CASE v.ch.info1 > 0
    <3>1. VolumeSlide(v, both) = Volume(v, VolumeUp(v.ch, v.ch.info1, both))
      BY <2>2 DEF VolumeSlide
    <3> QED
      BY <2>1, <3>1, VolumeMovePlays
  <2>3. CASE ~(v.ch.info1 > 0)
    <3>1. VolumeSlide(v, both) = Volume(v, VolumeDown(v.ch, v.ch.info2, both))
      BY <2>3 DEF VolumeSlide
    <3> QED
      BY <2>1, <3>1, VolumeMovePlays
  <2> QED
    BY <2>2, <2>3
<1> QED
  BY <1>1, PlaysItself DEF SlowVolumeSlide

LEMMA FrameSlidePlays ==
  ASSUME NEW v, IsVoice(v)
  PROVE  Plays(v, FrameSlide(v))
<1> DEFINE up(c) == IF c.info1 > 0 THEN [slide_up(c, 1) EXCEPT !.info1 = @ - 1] ELSE c
           down(c) == IF c.info2 > 0 THEN [slide_down(c, 1) EXCEPT !.info2 = @ - 1] ELSE c
<1>1. ASSUME NEW c \in GoodChannel, c.info1 > 0
      PROVE  [c EXCEPT !.info1 = @ - 1] \in GoodChannel /\ SameSound(c, [c EXCEPT !.info1 = @ - 1])
  <2>1. c.info1 - 1 \in Byte
    BY <1>1, ByteFacts DEF GoodChannel
  <2> QED
    BY <2>1 DEF GoodChannel, SameSound
<1>2. ASSUME NEW c \in GoodChannel, c.info2 > 0
      PROVE  [c EXCEPT !.info2 = @ - 1] \in GoodChannel /\ SameSound(c, [c EXCEPT !.info2 = @ - 1])
  <2>1. c.info2 - 1 \in Byte
    BY <1>2, ByteFacts DEF GoodChannel
  <2> QED
    BY <2>1 DEF GoodChannel, SameSound
<1>3. ASSUME NEW c \in GoodChannel
      PROVE  /\ slide_up(c, 1).info1 = c.info1 /\ slide_down(c, 1).info2 = c.info2
  BY DEF GoodChannel, slide_up, slide_down
<1>4. ASSUME NEW c \in GoodChannel PROVE up(c) \in GoodChannel /\ SameSound(c, up(c))
  <2>1. CASE c.info1 > 0
    <3>1. PICK d : d = slide_up(c, 1)
      OBVIOUS
    <3>2. d \in GoodChannel /\ SameSound(c, d) /\ d.info1 > 0
      BY <1>3, <2>1, <3>1, SlidesUp
    <3>3. PICK e : e = [d EXCEPT !.info1 = @ - 1]
      OBVIOUS
    <3>4. e \in GoodChannel /\ SameSound(d, e)
      BY <1>1, <3>2, <3>3
    <3>5. up(c) = e
      BY <2>1, <3>1, <3>3
    <3> QED
      BY <3>2, <3>4, <3>5 DEF SameSound
  <2>2. CASE ~(c.info1 > 0)
    BY <2>2 DEF SameSound
  <2> QED
    BY <2>1, <2>2
<1>5. ASSUME NEW c \in GoodChannel PROVE down(c) \in GoodChannel /\ SameSound(c, down(c))
  <2>1. CASE c.info2 > 0
    <3>1. PICK d : d = slide_down(c, 1)
      OBVIOUS
    <3>2. d \in GoodChannel /\ SameSound(c, d) /\ d.info2 > 0
      BY <1>3, <2>1, <3>1, SlidesDown
    <3>3. PICK e : e = [d EXCEPT !.info2 = @ - 1]
      OBVIOUS
    <3>4. e \in GoodChannel /\ SameSound(d, e)
      BY <1>2, <3>2, <3>3
    <3>5. down(c) = e
      BY <2>1, <3>1, <3>3
    <3> QED
      BY <3>2, <3>4, <3>5 DEF SameSound
  <2>2. CASE ~(c.info2 > 0)
    BY <2>2 DEF SameSound
  <2> QED
    BY <2>1, <2>2
<1>6. FrameSlide(v) = Slide(v, down(up(v.ch)))
  BY DEF FrameSlide
<1> HIDE DEF up, down
<1>7. PICK c : c = up(v.ch)
  OBVIOUS
<1>8. c \in GoodChannel /\ SameSound(v.ch, c)
  BY <1>4, <1>7, ChannelNumbers
<1>9. PICK d : d = down(c)
  OBVIOUS
<1>10. d \in GoodChannel /\ SameSound(v.ch, d)
  BY <1>5, <1>8, <1>9 DEF SameSound
<1> QED
  BY <1>6, <1>7, <1>9, <1>10, SlidePlays

LEMMA TickCommandPlays ==
  ASSUME Playable(song), NEW v, IsVoice(v)
  PROVE  Plays(v, TickCommand(v))
<1>1. PICK fx, info : fx = v.ch.fx /\ info = InfoOf(v.ch.info1, v.ch.info2)
  OBVIOUS
<1>2. fx \in Nat /\ info \in Nat
  BY <1>1, ChannelNumbers, InfoIsNat
<1>3. CASE fx = 0
  <2>1. TickCommand(v) = IF info > 0 THEN Arpeggio(v) ELSE v
    BY <1>1, <1>3 DEF TickCommand
  <2> QED
    BY <2>1, ArpeggioPlays, PlaysItself
<1>4. CASE fx \in {1, 2}
  <2>1. fx = 1 => TickCommand(v) = Slide(v, slide_up(v.ch, info))
    BY <1>1 DEF TickCommand
  <2>2. fx = 2 => TickCommand(v) = Slide(v, slide_down(v.ch, info))
    BY <1>1 DEF TickCommand
  <2>3. PICK c : c = IF fx = 1 THEN slide_up(v.ch, info) ELSE slide_down(v.ch, info)
    OBVIOUS
  <2>4. c \in GoodChannel /\ SameSound(v.ch, c)
    BY <1>2, <2>3, ChannelNumbers, SlidesUp, SlidesDown
  <2>5. TickCommand(v) = Slide(v, c)
    BY <1>4, <2>1, <2>2, <2>3
  <2> QED
    BY <2>4, <2>5, SlidePlays
<1>5. CASE fx \in {3, 5}
  <2>1. fx = 3 => TickCommand(v) = TonePortamento(v)
    BY <1>1 DEF TickCommand
  <2>2. fx = 5 => TickCommand(v) = SlowVolumeSlide(TonePortamento(v), TRUE)
    BY <1>1 DEF TickCommand
  <2>3. PICK u : u = TonePortamento(v)
    OBVIOUS
  <2>4. Plays(v, u) /\ Plays(u, SlowVolumeSlide(u, TRUE))
    BY <2>3, TonePortamentoPlays, VolumeSlidePlays
  <2>5. Plays(v, SlowVolumeSlide(u, TRUE))
    BY <2>4, PlaysOn
  <2> QED
    BY <1>5, <2>1, <2>2, <2>3, <2>4, <2>5
<1>6. CASE fx \in {4, 6}
  <2>1. fx = 4 => TickCommand(v) = Vibrato(v)
    BY <1>1 DEF TickCommand
  <2>2. fx = 6 => TickCommand(v) = SlowVolumeSlide(Vibrato(v), TRUE)
    BY <1>1 DEF TickCommand
  <2>3. PICK u : u = Vibrato(v)
    OBVIOUS
  <2>4. Plays(v, u) /\ Plays(u, SlowVolumeSlide(u, TRUE))
    BY <2>3, VibratoPlays, VolumeSlidePlays
  <2>5. Plays(v, SlowVolumeSlide(u, TRUE))
    BY <2>4, PlaysOn
  <2> QED
    BY <1>6, <2>1, <2>2, <2>3, <2>4, <2>5
<1>7. CASE fx \in {10, 16, 26}
  <2>1. fx = 10 => TickCommand(v) = SlowVolumeSlide(v, TRUE)
    BY <1>1 DEF TickCommand
  <2>2. fx = 16 => TickCommand(v) = SlowVolumeSlide(v, Additive(v))
    BY <1>1 DEF TickCommand
  <2>3. fx = 26 => TickCommand(v) = VolumeSlide(v, TRUE)
    BY <1>1 DEF TickCommand
  <2> QED
    BY <1>7, <2>1, <2>2, <2>3, VolumeSlidePlays
<1>8. CASE fx = 14
  <2>1. \/ TickCommand(v) = playnote(v) \/ TickCommand(v) = v
    BY <1>1, <1>8 DEF TickCommand
  <2> QED
    BY <2>1, PlayNoteKeeps, PlaysItself DEF Plays
<1>9. CASE fx = 20
  <2>1. TickCommand(v) = Volume(v, IF info < 50 THEN VolumeDown(v.ch, info, Additive(v))
                                               ELSE VolumeUp(v.ch, info - 50, Additive(v)))
    BY <1>1, <1>9 DEF TickCommand
  <2>2. CASE info < 50
    BY <1>2, <2>1, <2>2, VolumeMovePlays
  <2>3. CASE ~(info < 50)
    <3>1. info - 50 \in Nat
      BY <1>2, <2>3
    <3> QED
      BY <2>1, <2>3, <3>1, VolumeMovePlays
  <2> QED
    BY <2>2, <2>3
<1>10. CASE fx = 28
  <2>1. TickCommand(v) = FrameSlide(v)
    BY <1>1, <1>10 DEF TickCommand
  <2> QED
    BY <2>1, FrameSlidePlays
<1>11. CASE fx \notin {0, 1, 2, 3, 4, 5, 6, 10, 14, 16, 20, 26, 28}
  <2>1. TickCommand(v) = v
    BY <1>1, <1>11 DEF TickCommand
  <2> QED
    BY <2>1, PlaysItself
<1> QED
  BY <1>3, <1>4, <1>5, <1>6, <1>7, <1>8, <1>9, <1>10, <1>11

-----------------------------------------------------------------------------
(* The handlers of the row loop, on a cell of a playable song.             *)
GoodCell(cell) == cell \in Cells /\ PlayableCell(song, cell)

LEMMA CellFacts ==
  ASSUME NEW cell, GoodCell(cell)
  PROVE  /\ cell.note \in 0 .. 127 /\ cell.note \in Nat /\ cell.inst \in Byte
         /\ cell.command \in Byte /\ cell.param1 \in Byte /\ cell.param2 \in Byte
         /\ cell.command \in Nat /\ cell.param1 \in Nat /\ cell.param2 \in Nat
<1>1. /\ cell.note \in Byte /\ cell.note <= 127 /\ cell.inst \in Byte
      /\ cell.command \in Byte /\ cell.param1 \in Byte /\ cell.param2 \in Byte
  BY DEF GoodCell, Cells, PlayableCell
<1>2. cell.note \in Nat /\ cell.command \in Nat /\ cell.param1 \in Nat /\ cell.param2 \in Nat
  BY <1>1, ByteFacts
<1> QED
  BY <1>1, <1>2

LEMMA LoadInstrumentPlays ==
  ASSUME Playable(song), NEW v, IsVoice(v), NEW cell, GoodCell(cell)
  PROVE  Plays(v, LoadInstrument(v, cell))
<1>1. CASE cell.inst = 0
  BY <1>1, PlaysItself DEF LoadInstrument
<1>2. CASE cell.inst # 0
  <2>1. PICK i : i = cell.inst - 1
    OBVIOUS
  <2>2. i \in DOMAIN inst
    BY <1>2, <2>1 DEF GoodCell, PlayableCell, inst
  <2>3. i \in Byte
    <3>1. cell.inst \in Nat /\ cell.inst > 0
      BY <1>2, CellFacts, ByteFacts
    <3> QED
      BY <2>1, <3>1, CellFacts, ByteFacts
  <2>4. PICK c : c = [v.ch EXCEPT !.inst = i]
    OBVIOUS
  <2>5. v.ch \in GoodChannel
    BY VoiceFields
  <2>6. /\ c \in GoodChannel /\ c.inst = i /\ c.key = v.ch.key /\ c.freq = v.ch.freq
        /\ c.oct = v.ch.oct
    BY <2>3, <2>4, <2>5 DEF GoodChannel
  <2>7. PICK u : u = [v EXCEPT !.ch = c]
    OBVIOUS
  <2>8. IsVoice(u) /\ u.ch = c /\ u.fnum = v.fnum
    BY <2>2, <2>6, <2>7, Rechannelled
  <2>9. u = [v EXCEPT !.ch.inst = cell.inst - 1]
    BY <2>1, <2>4, <2>7
  <2>10. CASE "Faust" \in flags
    <3>1. LoadInstrument(v, cell) = u
      BY <1>2, <2>9, <2>10 DEF LoadInstrument
    <3> QED
      BY <2>6, <2>8, <2>10, <3>1 DEF Plays, Keeps, Released, Tuned, Levelled
  <2>11. CASE "Faust" \notin flags
    <3>1. PICK x, y : x = 63 - Level(inst[i].data[10]) /\ y = 63 - Level(inst[i].data[9])
      OBVIOUS
    <3>2. x \in 0 .. 63 /\ y \in 0 .. 63
      <4>1. Ins(u).data[9] \in Byte /\ Ins(u).data[10] \in Byte /\ Ins(u) = inst[i]
        BY <2>6, <2>8, InstrumentFacts DEF Ins
      <4>2. inst[i].data[9] \in Int /\ inst[i].data[10] \in Int
        BY <4>1, ByteFacts
      <4> QED
        BY <3>1, <4>2 DEF Level
    <3>3. PICK d : d = [c EXCEPT !.vol1 = x, !.vol2 = y]
      OBVIOUS
    <3>4. d \in GoodChannel
      BY <2>6, <3>2, <3>3, ZenonT(60) DEF GoodChannel
    <3>5. d.inst = c.inst /\ d.key = c.key /\ d.freq = c.freq /\ d.oct = c.oct
      BY <2>6, <3>3 DEF GoodChannel
    <3>6. LoadInstrument(v, cell) = Volume(u, d)
      BY <1>2, <2>1, <2>8, <2>9, <2>11, <3>1, <3>3 DEF LoadInstrument
    <3>7. Volume(u, d) = Volume(v, d)
      <4>1. [u EXCEPT !.ch = d] = [v EXCEPT !.ch = d]
        BY <2>7 DEF IsVoice
      <4> QED
        BY <4>1 DEF Volume
    <3> QED
      BY <2>2, <2>6, <3>4, <3>5, <3>6, <3>7, VolumeKeeps DEF Plays
  <2> QED
    BY <2>10, <2>11
<1> QED
  BY <1>1, <1>2

LEMMA StartNoteKeeps ==
  ASSUME Playable(song), NEW v, IsVoice(v), NEW cell, GoodCell(cell)
  PROVE  /\ Keeps(v, StartNote(v, cell))
         /\ StartsNote(cell) /\ cell.note = 127 => Tuned(StartNote(v, cell))
         /\ ~StartsNote(cell) => StartNote(v, cell) = v
<1>1. CASE ~StartsNote(cell)
  BY <1>1, PlaysItself DEF StartNote, Plays
<1>2. CASE StartsNote(cell)
  <2>1. PICK c : c = [v.ch EXCEPT !.note = cell.note]
    OBVIOUS
  <2>2. v.ch \in GoodChannel /\ cell.note \in 0 .. 127 /\ cell.note \in Nat
    BY VoiceFields, CellFacts
  <2>3. /\ c \in GoodChannel /\ c.vol1 = v.ch.vol1 /\ c.vol2 = v.ch.vol2 /\ c.inst = v.ch.inst
        /\ c.key = v.ch.key
    BY <2>1, <2>2 DEF GoodChannel
  <2>4. PICK u : u = [v EXCEPT !.ch = c]
    OBVIOUS
  <2>5. Keeps(v, u) /\ IsVoice(u)
    BY <2>3, <2>4, ChannelKeeps DEF Keeps
  <2>6. PICK n : n = setnote(u, cell.note)
    OBVIOUS
  <2>7. Keeps(u, n) /\ IsVoice(n) /\ (cell.note = 127 => Tuned(n))
    BY <2>2, <2>5, <2>6, SetNoteKeeps DEF Keeps
  <2>8. n.ch \in GoodChannel /\ Ins(v).arpstart \in Byte /\ 0 \in Byte
    BY <2>7, VoiceFields, InstrumentFacts, ByteFacts
  <2>9. n.ch.freq \in Word /\ n.ch.oct \in 0 .. 7
    BY <2>8 DEF GoodChannel
  <2>10. PICK f, o, a : f = n.ch.freq /\ o = n.ch.oct /\ a = Ins(v).arpstart
    OBVIOUS
  <2>11. PICK e : e = [n.ch EXCEPT !.nextfreq = f, !.nextoct = o]
    OBVIOUS
  <2>12. e \in GoodChannel
    <3>1. f \in Word /\ o \in 0 .. 7
      BY <2>9, <2>10
    <3> QED
      BY <2>8, <2>11, <3>1, ZenonT(60) DEF GoodChannel
  <2>13. PICK d : d = [e EXCEPT !.arppos = a, !.arpspdcnt = 0]
    OBVIOUS
  <2>14. d \in GoodChannel
    BY <2>8, <2>10, <2>12, <2>13, ZenonT(60) DEF GoodChannel
  <2>15. SameSound(n.ch, e) /\ e.freq = n.ch.freq /\ e.oct = n.ch.oct
    BY <2>8, <2>11 DEF GoodChannel, SameSound
  <2>16. SameSound(n.ch, d) /\ d.freq = n.ch.freq /\ d.oct = n.ch.oct
    BY <2>12, <2>13, <2>15 DEF GoodChannel, SameSound
  <2>17. StartNote(v, cell) = [n EXCEPT !.ch = d]
    <3>1. [v EXCEPT !.ch.note = cell.note] = u
      BY <2>1, <2>4
    <3>2. StartNote(v, cell) = [n EXCEPT !.ch.nextfreq = f, !.ch.nextoct = o,
                                         !.ch.arppos = a, !.ch.arpspdcnt = 0]
      BY <1>2, <2>6, <2>10, <3>1 DEF StartNote
    <3>3. [n EXCEPT !.ch.nextfreq = f, !.ch.nextoct = o,
                    !.ch.arppos = a, !.ch.arpspdcnt = 0] = [n EXCEPT !.ch = d]
      BY <2>7, <2>11, <2>13 DEF IsVoice
    <3> QED
      BY <3>2, <3>3
  <2>18. /\ Keeps(n, StartNote(v, cell))
         /\ cell.note = 127 => Tuned(StartNote(v, cell))
    BY <2>7, <2>14, <2>16, <2>17, ChannelKeeps DEF SameSound
  <2> QED
    BY <1>2, <2>5, <2>7, <2>18, KeepsOn
<1> QED
  BY <1>1, <1>2

LEMMA SetCommandPlays ==
  ASSUME NEW v, IsVoice(v), NEW cell, GoodCell(cell)
  PROVE  Plays(v, SetCommand(v, cell))
<1>1. PICK f, x, y : f = cell.command /\ x = cell.param1 /\ y = cell.param2
  OBVIOUS
<1>2. f \in Byte /\ x \in Byte /\ y \in Byte /\ v.ch \in GoodChannel
  BY <1>1, CellFacts, VoiceFields
<1>3. PICK e : e = [v.ch EXCEPT !.fx = f]
  OBVIOUS
<1>4. e \in GoodChannel /\ SameSound(v.ch, e) /\ e.freq = v.ch.freq /\ e.oct = v.ch.oct
  BY <1>2, <1>3 DEF GoodChannel, SameSound
<1>5. PICK d : d = [e EXCEPT !.info1 = x, !.info2 = y]
  OBVIOUS
<1>6. d \in GoodChannel
  BY <1>2, <1>4, <1>5, ZenonT(60) DEF GoodChannel
<1>7. SameSound(v.ch, d) /\ d.freq = v.ch.freq /\ d.oct = v.ch.oct
  BY <1>4, <1>5 DEF GoodChannel, SameSound
<1>8. SetCommand(v, cell) = [v EXCEPT !.ch = d]
  <2>1. SetCommand(v, cell) = [v EXCEPT !.ch.fx = f, !.ch.info1 = x, !.ch.info2 = y]
    BY <1>1 DEF SetCommand
  <2>2. [v EXCEPT !.ch.fx = f, !.ch.info1 = x, !.ch.info2 = y] = [v EXCEPT !.ch = d]
    BY <1>3, <1>5 DEF IsVoice
  <2> QED
    BY <2>1, <2>2
<1> QED
  BY <1>6, <1>7, <1>8, ChannelKeeps DEF SameSound, Plays

LEMMA PortamentoTargetPlays ==
  ASSUME Playable(song), NEW v, IsVoice(v), NEW n \in Nat, n <= 96 \/ n = 127
  PROVE  Plays(v, PortamentoTarget(v, n)) /\ IsVoice(PortamentoTarget(v, n))
<1>1. v.ch \in GoodChannel
  BY VoiceFields
<1>2. ASSUME NEW f \in Word, NEW o \in 0 .. 7
      PROVE  /\ Plays(v, [v EXCEPT !.ch.nextfreq = f, !.ch.nextoct = o])
             /\ IsVoice([v EXCEPT !.ch.nextfreq = f, !.ch.nextoct = o])
  <2>1. PICK c : c = [v.ch EXCEPT !.nextfreq = f, !.nextoct = o]
    OBVIOUS
  <2>2. c \in GoodChannel
    BY <1>1, <2>1, ZenonT(60) DEF GoodChannel
  <2>3. SameSound(v.ch, c) /\ c.freq = v.ch.freq /\ c.oct = v.ch.oct
    BY <1>1, <2>1 DEF GoodChannel, SameSound
  <2>4. [v EXCEPT !.ch.nextfreq = f, !.ch.nextoct = o] = [v EXCEPT !.ch = c]
    BY <2>1 DEF IsVoice
  <2> QED
    BY <2>2, <2>3, <2>4, ChannelKeeps DEF SameSound, Plays, Keeps
<1>3. CASE n = 0
  <2>1. PortamentoTarget(v, n) = v
    BY <1>3 DEF PortamentoTarget
  <2> QED
    BY <2>1, PlaysItself
<1>4. CASE n = 127
  <2>1. PICK f, o : f = v.ch.freq /\ o = v.ch.oct
    OBVIOUS
  <2>2. f \in Word /\ o \in 0 .. 7
    BY <1>1, <2>1 DEF GoodChannel
  <2>3. PortamentoTarget(v, n) = [v EXCEPT !.ch.nextfreq = f, !.ch.nextoct = o]
    BY <1>4, <2>1 DEF PortamentoTarget
  <2>4. /\ Plays(v, [v EXCEPT !.ch.nextfreq = f, !.ch.nextoct = o])
        /\ IsVoice([v EXCEPT !.ch.nextfreq = f, !.ch.nextoct = o])
    BY <1>2, <2>2, ZenonT(30)
  <2> QED
    BY <2>3, <2>4, Zenon
<1>5. CASE n # 0 /\ n # 127
  <2>1. PICK f, o : f = NoteFreq(notetable, n) /\ o = NoteOct(n)
    OBVIOUS
  <2>2. n \in 1 .. 96
    BY <1>5
  <2>3. o \in 0 .. 7 /\ (n - 1) % 12 \in 0 .. 11
    BY <2>1, <2>2 DEF NoteOct
  <2>4. f \in Word
    BY <2>1, <2>3 DEF NoteFreq, notetable, Playable
  <2>5. PortamentoTarget(v, n) = [v EXCEPT !.ch.nextfreq = f, !.ch.nextoct = o]
    BY <1>5, <2>1 DEF PortamentoTarget
  <2>6. /\ Plays(v, [v EXCEPT !.ch.nextfreq = f, !.ch.nextoct = o])
        /\ IsVoice([v EXCEPT !.ch.nextfreq = f, !.ch.nextoct = o])
    BY <1>2, <2>3, <2>4, ZenonT(30)
  <2> QED
    BY <2>5, <2>6, Zenon
<1> QED
  BY <1>3, <1>4, <1>5

LEMMA SetDepthPlays ==
  ASSUME NEW v, IsVoice(v), NEW tremolo, NEW vib
  PROVE  Plays(v, SetDepth(v, tremolo, vib))
<1>1. PICK b : b = (v.regbd % 64) + DepthBits(tremolo, vib)
  OBVIOUS
<1>2. b \in Byte
  <2>1. v.regbd \in Int /\ DepthBits(tremolo, vib) \in {0, 64, 128, 192}
    BY VoiceFields, ByteFacts DEF DepthBits
  <2>2. b \in 0 .. 255
    BY <1>1, <2>1
  <2> QED
    BY <2>2 DEF Byte
<1>3. PICK w : w = [v EXCEPT !.regbd = b, !.bd = b]
  OBVIOUS
<1>4. IsVoice(w) /\ w.ch = v.ch /\ w.fnum = v.fnum /\ w.level = v.level
  BY <1>2, <1>3 DEF IsVoice
<1>5. SetDepth(v, tremolo, vib) = w
  BY <1>1, <1>3 DEF SetDepth
<1> QED
  BY <1>4, <1>5 DEF Plays, Keeps, Released, Tuned, Levelled, Ins

LEMMA MovePlays ==
  ASSUME Playable(song), NEW v, IsVoice(v), NEW a \in Nat
  PROVE  Plays(v, Slide(v, slide_up(v.ch, a))) /\ Plays(v, Slide(v, slide_down(v.ch, a)))
<1>1. PICK c, d : c = slide_up(v.ch, a) /\ d = slide_down(v.ch, a)
  OBVIOUS
<1>2. c \in GoodChannel /\ d \in GoodChannel /\ SameSound(v.ch, c) /\ SameSound(v.ch, d)
  BY <1>1, ChannelNumbers, SlidesUp, SlidesDown
<1> QED
  BY <1>1, <1>2, SlidePlays

LEMMA VolumeSetPlays ==
  ASSUME Playable(song), NEW v, IsVoice(v), NEW x \in 0 .. 63
  PROVE  /\ Plays(v, Volume(v, [v.ch EXCEPT !.vol1 = x]))
         /\ Plays(v, Volume(v, [v.ch EXCEPT !.vol2 = x]))
         /\ Plays(v, Volume(v, [v.ch EXCEPT !.vol1 = x, !.vol2 = x]))
<1>1. v.ch \in GoodChannel
  BY VoiceFields
<1>2. PICK c, d, e : /\ c = [v.ch EXCEPT !.vol1 = x] /\ d = [v.ch EXCEPT !.vol2 = x]
                     /\ e = [v.ch EXCEPT !.vol1 = x, !.vol2 = x]
  OBVIOUS
<1>3. c \in GoodChannel /\ d \in GoodChannel
  BY <1>1, <1>2 DEF GoodChannel
<1>4. e \in GoodChannel
  BY <1>1, <1>2, ZenonT(60) DEF GoodChannel
<1>5. SameTune(v.ch, c) /\ SameTune(v.ch, d) /\ SameTune(v.ch, e)
  BY <1>1, <1>2 DEF GoodChannel, SameTune
<1> QED
  BY <1>2, <1>3, <1>4, <1>5, VolumePlays

LEMMA ExtendedCommandPlays ==
  ASSUME Playable(song), NEW v, IsVoice(v), NEW x \in Nat, NEW y \in Nat
  PROVE  Plays(v, ExtendedCommand(v, x, y))
<1>1. CASE x \in {0, 1}
  <2>1. /\ x = 0 => ExtendedCommand(v, x, y) = SetDepth(v, y # 0, HasVibrato(v.regbd))
        /\ x = 1 => ExtendedCommand(v, x, y) = SetDepth(v, HasTremolo(v.regbd), y # 0)
    BY DEF ExtendedCommand
  <2> QED
    BY <1>1, <2>1, SetDepthPlays
<1>2. CASE x \in {4, 5}
  <2>1. /\ x = 4 => ExtendedCommand(v, x, y) = Volume(v, VolumeUp(v.ch, y, Additive(v)))
        /\ x = 5 => ExtendedCommand(v, x, y) = Volume(v, VolumeDown(v.ch, y, Additive(v)))
    BY DEF ExtendedCommand
  <2> QED
    BY <1>2, <2>1, VolumeMovePlays
<1>3. CASE x \in {6, 7}
  <2>1. /\ x = 6 => ExtendedCommand(v, x, y) = Slide(v, slide_up(v.ch, y))
        /\ x = 7 => ExtendedCommand(v, x, y) = Slide(v, slide_down(v.ch, y))
    BY DEF ExtendedCommand
  <2> QED
    BY <1>3, <2>1, MovePlays
<1>4. CASE x \notin {0, 1, 4, 5, 6, 7}
  <2>1. ExtendedCommand(v, x, y) = v
    BY <1>4 DEF ExtendedCommand
  <2> QED
    BY <2>1, PlaysItself
<1> QED
  BY <1>1, <1>2, <1>3, <1>4

LEMMA RowCommandPlays ==
  ASSUME Playable(song), NEW v, IsVoice(v), NEW cell, GoodCell(cell)
  PROVE  Plays(v, RowCommand(v, cell))
<1>1. PICK fx, x, y : fx = cell.command /\ x = cell.param1 /\ y = cell.param2
  OBVIOUS
<1>2. PICK info, vol : info = InfoOf(x, y) /\ vol = Least(63, info)
  OBVIOUS
<1>3. /\ fx \in Nat /\ x \in Nat /\ y \in Nat /\ x \in Byte /\ y \in Byte
      /\ cell.note \in Nat
  BY <1>1, CellFacts
<1>4. info \in Nat /\ info \in Byte
  BY <1>2, <1>3, InfoIsNat
<1>5. vol \in 0 .. 63
  BY <1>2, <1>4 DEF Least
<1>6. v.ch \in GoodChannel
  BY VoiceFields
<1>7. CASE fx = 3
  <2>1. PICK u : u = PortamentoTarget(v, cell.note)
    OBVIOUS
  <2>2. Plays(v, u) /\ IsVoice(u)
    <3>1. cell.note <= 96 \/ cell.note = 127
      BY <1>1, <1>7 DEF GoodCell, PlayableCell
    <3> QED
      BY <1>3, <2>1, <3>1, PortamentoTargetPlays
  <2>3. RowCommand(v, cell) = IF info > 0 THEN [u EXCEPT !.ch.portainfo = info] ELSE u
    BY <1>1, <1>2, <1>7, <2>1 DEF RowCommand
  <2>4. PICK c : c = [u.ch EXCEPT !.portainfo = info]
    OBVIOUS
  <2>5. u.ch \in GoodChannel
    BY <2>2, VoiceFields
  <2>6. c \in GoodChannel /\ SameSound(u.ch, c) /\ c.freq = u.ch.freq /\ c.oct = u.ch.oct
    BY <1>4, <2>4, <2>5 DEF GoodChannel, SameSound
  <2>7. Plays(u, [u EXCEPT !.ch = c])
    BY <2>2, <2>6, ChannelKeeps DEF SameSound, Plays
  <2>8. Plays(v, [u EXCEPT !.ch = c])
    BY <2>2, <2>7, PlaysOn
  <2>9. [u EXCEPT !.ch.portainfo = info] = [u EXCEPT !.ch = c]
    BY <2>4
  <2> QED
    BY <2>2, <2>3, <2>8, <2>9
<1>8. CASE fx = 4
  <2>1. RowCommand(v, cell) = IF info > 0 THEN [v EXCEPT !.ch.vibinfo1 = x, !.ch.vibinfo2 = y]
                                          ELSE v
    BY <1>1, <1>2, <1>4, <1>8 DEF RowCommand
  <2>2. PICK c : c = [v.ch EXCEPT !.vibinfo1 = x, !.vibinfo2 = y]
    OBVIOUS
  <2>3. c \in GoodChannel
    BY <1>3, <1>6, <2>2, ZenonT(60) DEF GoodChannel
  <2>4. SameSound(v.ch, c) /\ c.freq = v.ch.freq /\ c.oct = v.ch.oct
    BY <1>6, <2>2 DEF GoodChannel, SameSound
  <2>5. [v EXCEPT !.ch.vibinfo1 = x, !.ch.vibinfo2 = y] = [v EXCEPT !.ch = c]
    BY <2>2 DEF IsVoice
  <2>6. Plays(v, [v EXCEPT !.ch = c])
    BY <2>3, <2>4, ChannelKeeps DEF SameSound, Plays
  <2> QED
    BY <2>1, <2>5, <2>6, PlaysItself
<1>9. CASE fx = 8
  <2>1. RowCommand(v, cell) = setfreq([v EXCEPT !.ch.key = 0])
    BY <1>1, <1>9 DEF RowCommand
  <2> QED
    BY <2>1, ReleaseKeeps DEF Plays
<1>10. CASE fx = 9
  <2>1. x <= 9 /\ y <= 9
    BY <1>1, <1>10 DEF GoodCell, PlayableCell
  <2>2. PICK a, b : a = (x * 7) % 256 /\ b = (y * 7) % 256
    OBVIOUS
  <2>3. a \in 0 .. 63 /\ b \in 0 .. 63
    BY <1>3, <2>1, <2>2
  <2>4. /\ x > 0 => RowCommand(v, cell) = Volume(v, [v.ch EXCEPT !.vol1 = a])
        /\ ~(x > 0) => RowCommand(v, cell) = Volume(v, [v.ch EXCEPT !.vol2 = b])
    BY <1>1, <1>10, <2>2 DEF RowCommand
  <2>5. Plays(v, Volume(v, [v.ch EXCEPT !.vol1 = a])) /\ Plays(v, Volume(v, [v.ch EXCEPT !.vol2 = b]))
    BY <2>3, VolumeSetPlays
  <2> QED
    BY <2>4, <2>5
<1>11. CASE fx \in {12, 21, 22}
  <2>1. fx = 12 => RowCommand(v, cell) = Volume(v, [v.ch EXCEPT !.vol1 = vol, !.vol2 = vol])
    BY <1>1, <1>2 DEF RowCommand
  <2>2. fx = 21 => RowCommand(v, cell) = Volume(v, [v.ch EXCEPT !.vol2 = vol])
    BY <1>1, <1>2 DEF RowCommand
  <2>3. fx = 22 => RowCommand(v, cell) = Volume(v, [v.ch EXCEPT !.vol1 = vol])
    BY <1>1, <1>2 DEF RowCommand
  <2> QED
    BY <1>5, <1>11, <2>1, <2>2, <2>3, VolumeSetPlays
<1>12. CASE fx = 14
  <2>1. RowCommand(v, cell) = ExtendedCommand(v, x, y)
    BY <1>1, <1>12 DEF RowCommand
  <2> QED
    BY <1>3, <2>1, ExtendedCommandPlays
<1>13. CASE fx = 17
  <2>1. /\ Additive(v) => RowCommand(v, cell) = Volume(v, [v.ch EXCEPT !.vol1 = vol, !.vol2 = vol])
        /\ ~Additive(v) => RowCommand(v, cell) = Volume(v, [v.ch EXCEPT !.vol1 = vol])
    <3>1. RowCommand(v, cell) = Volume(v, [v.ch EXCEPT !.vol1 = vol,
                                           !.vol2 = IF Additive(v) THEN vol ELSE @])
      BY <1>1, <1>2, <1>13 DEF RowCommand
    <3>2. [v.ch EXCEPT !.vol1 = vol, !.vol2 = v.ch.vol2] = [v.ch EXCEPT !.vol1 = vol]
      BY <1>6 DEF GoodChannel
    <3>3. Additive(v) => [v.ch EXCEPT !.vol1 = vol, !.vol2 = IF Additive(v) THEN vol ELSE @]
                         = [v.ch EXCEPT !.vol1 = vol, !.vol2 = vol]
      OBVIOUS
    <3>4. ~Additive(v) => [v.ch EXCEPT !.vol1 = vol, !.vol2 = IF Additive(v) THEN vol ELSE @]
                          = [v.ch EXCEPT !.vol1 = vol, !.vol2 = v.ch.vol2]
      BY <1>6 DEF GoodChannel
    <3> QED
      BY <3>1, <3>2, <3>3, <3>4
  <2> QED
    BY <1>5, <2>1, VolumeSetPlays
<1>14. CASE fx \in {23, 24}
  <2>1. fx = 23 => RowCommand(v, cell) = Slide(v, slide_up(v.ch, info))
    BY <1>1, <1>2 DEF RowCommand
  <2>2. fx = 24 => RowCommand(v, cell) = Slide(v, slide_down(v.ch, info))
    BY <1>1, <1>2 DEF RowCommand
  <2> QED
    BY <1>4, <1>14, <2>1, <2>2, MovePlays
<1>15. CASE fx = 27
  <2>1. RowCommand(v, cell) = SetDepth(v, x # 0, y # 0)
    BY <1>1, <1>15 DEF RowCommand
  <2> QED
    BY <2>1, SetDepthPlays
<1>16. CASE fx \notin {3, 4, 8, 9, 12, 14, 17, 21, 22, 23, 24, 27}
  <2>1. RowCommand(v, cell) = v
    BY <1>1, <1>16 DEF RowCommand
  <2> QED
    BY <2>1, PlaysItself
<1> QED
  BY <1>7, <1>8, <1>9, <1>10, <1>11, <1>12, <1>13, <1>14, <1>15, <1>16

LEMMA PlayCellPlays ==
  ASSUME Playable(song), NEW v, IsVoice(v), NEW cell, GoodCell(cell)
  PROVE  Plays(v, PlayCell(v, cell))
<1>1. PICK l : l = LoadInstrument(v, cell)
  OBVIOUS
<1>2. Plays(v, l) /\ IsVoice(l)
  BY <1>1, LoadInstrumentPlays DEF Plays, Keeps
<1>3. PICK s : s = StartNote(l, cell)
  OBVIOUS
<1>4. /\ Keeps(l, s) /\ IsVoice(s)
      /\ StartsNote(cell) /\ cell.note = 127 => Tuned(s)
      /\ ~StartsNote(cell) => s = l
  BY <1>2, <1>3, StartNoteKeeps DEF Keeps
<1>5. PICK n : n = SetCommand(s, cell)
  OBVIOUS
<1>6. Plays(s, n) /\ IsVoice(n)
  BY <1>4, <1>5, SetCommandPlays DEF Plays, Keeps
<1>7. PICK k : k = IF StartsNote(cell) /\ cell.note # 127 THEN playnote(n) ELSE n
  OBVIOUS
<1>8. Keeps(n, k) /\ IsVoice(k)
  BY <1>6, <1>7, PlayNoteKeeps, PlaysItself DEF Plays, Keeps
<1>9. Tuned(v) => Tuned(k)
  <2>1. CASE StartsNote(cell) /\ cell.note # 127
    BY <1>6, <1>7, <2>1, PlayNoteKeeps
  <2>2. CASE StartsNote(cell) /\ cell.note = 127
    BY <1>4, <1>6, <1>7, <2>2 DEF Plays
  <2>3. CASE ~StartsNote(cell)
    BY <1>2, <1>4, <1>6, <1>7, <2>3 DEF Plays
  <2> QED
    BY <2>1, <2>2, <2>3
<1>10. Plays(v, k)
  BY <1>2, <1>4, <1>6, <1>8, <1>9, KeepsOn DEF Plays
<1>11. PlayCell(v, cell) = RowCommand(k, cell)
  BY <1>1, <1>3, <1>5, <1>7 DEF PlayCell
<1> QED
  BY <1>8, <1>10, <1>11, RowCommandPlays, PlaysOn

-----------------------------------------------------------------------------
(***************************************************************************)
(* The voices of all channels.  Each channel has one of its own, so that   *)
(* what a handler writes for one channel leaves the others' sound alone.   *)
(***************************************************************************)
VoiceAt(c) ==
  [ch |-> channel[c], regbd |-> regbd, fnum |-> fnum[ChipOf(c)][c % VoicesPerChip],
   level |-> level[ChipOf(c)][c % VoicesPerChip], bd |-> bd[ChipOf(c)]]

VoicesInv ==
  /\ channel \in [Channels -> GoodChannel]
  /\ \A c \in Channels : channel[c].inst \in DOMAIN inst
  /\ regbd \in Byte
  /\ fnum \in [Chips -> [ChipVoices -> Frequencies]]
  /\ level \in [Chips -> [ChipVoices -> Byte \X Byte]]
  /\ bd \in [Chips -> Byte]

Sounding(c) == Released(VoiceAt(c)) /\ Tuned(VoiceAt(c)) /\ Levelled(VoiceAt(c))
SoundInv == \A c \in Channels : Sounding(c)
RealInv == ChipInv /\ opl = "real" /\ VoicesInv /\ SoundInv

LEMMA Remainders ==
  ASSUME NEW n \in Nat \ {0}, NEW c \in Nat
  PROVE  /\ c % n \in 0 .. (n - 1)
         /\ c < n => c % n = c
         /\ n <= c /\ c < 2 * n => c % n = c - n
<1>1. c % n \in 0 .. (n - 1) /\ c = n * (c \div n) + (c % n) /\ c \div n \in Nat
  OBVIOUS
<1>2. PICK q, r : q = c \div n /\ r = c % n
  OBVIOUS
<1>3. q \in Nat /\ r \in 0 .. (n - 1) /\ c = n * q + r
  BY <1>1, <1>2
<1>4. ASSUME c < n PROVE q = 0
  <2>1. SUFFICES ASSUME q >= 1 PROVE FALSE
    BY <1>3, <2>1
  <2>2. n * q >= n
    BY <1>3, <2>1
  <2> QED
    BY <1>3, <1>4, <2>2
<1>5. ASSUME n <= c, c < 2 * n PROVE q = 1
  <2>1. q # 0
    BY <1>3, <1>5
  <2>2. SUFFICES ASSUME q >= 2 PROVE FALSE
    BY <1>3, <2>1, <2>2
  <2>3. n * q >= n * 2
    BY <1>3, <2>2
  <2> QED
    BY <1>3, <1>5, <2>3
<1> QED
  BY <1>2, <1>3, <1>4, <1>5

LEMMA OwnVoices ==
  ASSUME Playable(song), song \in Songs
  PROVE  /\ \A c \in Channels : ChipOf(c) \in Chips /\ c % VoicesPerChip \in ChipVoices
         /\ \A c, d \in Channels :
              ChipOf(c) = ChipOf(d) /\ c % VoicesPerChip = d % VoicesPerChip => c = d
<1>1. VoicesPerChip \in Nat \ {0} /\ nchans \in Nat /\ nchans <= 2 * VoicesPerChip
  BY VoicesAssumption, SongFacts DEF Playable, nchans
<1>2. ASSUME NEW c \in Channels
      PROVE  /\ c \in Nat /\ ChipOf(c) \in Chips /\ c % VoicesPerChip \in ChipVoices
             /\ ChipOf(c) = 0 => c % VoicesPerChip = c
             /\ ChipOf(c) = 1 => c % VoicesPerChip = c - VoicesPerChip
  <2>1. c \in Nat /\ c < 2 * VoicesPerChip
    BY <1>1 DEF Channels
  <2>2. PICK n, r : n = VoicesPerChip /\ r = c % VoicesPerChip
    OBVIOUS
  <2>3. n \in Nat \ {0} /\ r = c % n
    BY <1>1, <2>2
  <2>4. /\ r \in 0 .. (n - 1) /\ (c < n => r = c)
        /\ n <= c /\ c < 2 * n => r = c - n
    BY <2>1, <2>3, Remainders
  <2>5. ChipOf(c) = IF c < n THEN 0 ELSE 1
    BY <2>2 DEF ChipOf
  <2>6. ~(c < n) => n <= c /\ c < 2 * n
    BY <2>1, <2>2, <2>3
  <2> QED
    BY <2>1, <2>2, <2>4, <2>5, <2>6 DEF Chips, ChipVoices
<1> QED
  BY <1>1, <1>2 DEF Chips

LEMMA VoiceIsVoice ==
  ASSUME Playable(song), song \in Songs, VoicesInv, NEW c \in Channels
  PROVE  IsVoice(VoiceAt(c))
<1>1. ChipOf(c) \in Chips /\ c % VoicesPerChip \in ChipVoices
  BY OwnVoices
<1>2. /\ channel[c] \in GoodChannel /\ channel[c].inst \in DOMAIN inst /\ regbd \in Byte
      /\ fnum[ChipOf(c)][c % VoicesPerChip] \in Frequencies
      /\ level[ChipOf(c)][c % VoicesPerChip] \in Byte \X Byte /\ bd[ChipOf(c)] \in Byte
  BY <1>1 DEF VoicesInv
<1> QED
  BY <1>2 DEF VoiceAt, IsVoice

(* What is said of a voice depends on the song and the voice alone.        *)
LEMMA SoundKept ==
  ASSUME song' = song, NEW v, NEW w, w.ch = v.ch, w.fnum = v.fnum, w.level = v.level
  PROVE  /\ Released(v) => Released(w)'
         /\ Tuned(v) => Tuned(w)'
         /\ Levelled(v) => Levelled(w)'
  BY DEF Released, Tuned, Levelled, Ins, inst, flags

(* A handler has worked on one voice.                                      *)
LEMMA VoiceStep ==
  ASSUME Playable(song), song \in Songs, song' = song, VoicesInv,
         NEW c \in Channels, selected'[opl] = ChipOf(c), opl \in {"real", "silent"},
         NEW w, VoiceBecomes(c, w), Plays(VoiceAt(c), w)
  PROVE  VoicesInv' /\ (opl = "real" /\ SoundInv => SoundInv')
<1>1. PICK s, o : s = ChipOf(c) /\ o = c % VoicesPerChip
  OBVIOUS
<1>2. s \in Chips /\ o \in ChipVoices
  BY <1>1, OwnVoices
<1>3. IsVoice(w)
  BY DEF Plays, Keeps
<1>4. /\ w.ch \in GoodChannel /\ w.ch.inst \in DOMAIN inst /\ w.fnum \in Frequencies
      /\ w.level \in Byte \X Byte /\ w.regbd \in Byte /\ w.bd \in Byte
  BY <1>3, VoiceFields
<1>5. Channels' = Channels /\ inst' = inst
  BY DEF Channels, inst, nchans
<1>6. channel' = [channel EXCEPT ![c] = w.ch] /\ regbd' = w.regbd
  BY DEF VoiceBecomes
<1>7. \/ opl = "silent" /\ UNCHANGED <<fnum, level, bd>>
      \/ /\ opl = "real"
         /\ fnum' = [fnum EXCEPT ![s][o] = w.fnum] /\ level' = [level EXCEPT ![s][o] = w.level]
         /\ bd' = [bd EXCEPT ![s] = w.bd]
  BY <1>1 DEF VoiceBecomes
<1>8. VoicesInv'
  <2>1. /\ channel' \in [Channels -> GoodChannel] /\ regbd' \in Byte
        /\ \A d \in Channels : channel'[d].inst \in DOMAIN inst
    BY <1>4, <1>6 DEF VoicesInv
  <2>2. /\ fnum' \in [Chips -> [ChipVoices -> Frequencies]]
        /\ level' \in [Chips -> [ChipVoices -> Byte \X Byte]]
        /\ bd' \in [Chips -> Byte]
    <3>1. CASE opl = "silent" /\ UNCHANGED <<fnum, level, bd>>
      BY <3>1 DEF VoicesInv
    <3>2. CASE opl # "silent"
      <4>1. /\ fnum[s] \in [ChipVoices -> Frequencies] /\ level[s] \in [ChipVoices -> Byte \X Byte]
            /\ fnum' = [fnum EXCEPT ![s][o] = w.fnum] /\ level' = [level EXCEPT ![s][o] = w.level]
            /\ bd' = [bd EXCEPT ![s] = w.bd]
        BY <1>2, <1>7, <3>2 DEF VoicesInv
      <4>2. PICK f, l : f = [fnum[s] EXCEPT ![o] = w.fnum] /\ l = [level[s] EXCEPT ![o] = w.level]
        OBVIOUS
      <4>3. f \in [ChipVoices -> Frequencies] /\ l \in [ChipVoices -> Byte \X Byte]
        BY <1>2, <1>4, <4>1, <4>2
      <4>4. fnum' = [fnum EXCEPT ![s] = f] /\ level' = [level EXCEPT ![s] = l]
        BY <4>1, <4>2
      <4> QED
        BY <1>2, <1>4, <4>1, <4>3, <4>4 DEF VoicesInv
    <3> QED
      BY <1>7, <3>1, <3>2
  <2> QED
    BY <1>5, <2>1, <2>2 DEF VoicesInv
<1>9. ASSUME opl = "real", SoundInv, NEW d \in Channels
      PROVE  Sounding(d)'
  <2>1. PICK u : u = VoiceAt(d)'
    OBVIOUS
  <2>2. PICK s2, o2 : s2 = ChipOf(d) /\ o2 = d % VoicesPerChip
    OBVIOUS
  <2>3. s2 \in Chips /\ o2 \in ChipVoices
    BY <2>2, OwnVoices
  <2>4. u.ch = channel'[d] /\ u.fnum = fnum'[s2][o2] /\ u.level = level'[s2][o2]
    BY <2>1, <2>2 DEF VoiceAt, ChipOf
  <2>5. CASE d = c
    <3>1. channel'[d] = w.ch /\ fnum'[s2][o2] = w.fnum /\ level'[s2][o2] = w.level
      BY <1>1, <1>2, <1>6, <1>7, <1>9, <2>2, <2>5 DEF VoicesInv
    <3>2. Released(w) /\ Tuned(w) /\ Levelled(w)
      BY <1>9, <2>5 DEF Plays, Keeps, SoundInv, Sounding
    <3>3. u.ch = w.ch /\ u.fnum = w.fnum /\ u.level = w.level
      BY <2>4, <3>1
    <3>4. Released(u)' /\ Tuned(u)' /\ Levelled(u)'
      BY <3>2, <3>3, SoundKept
    <3> QED
      BY <2>1, <3>4 DEF Sounding
  <2>6. CASE d # c
    <3>1. s2 # s \/ o2 # o
      BY <1>1, <2>2, <2>6, OwnVoices
    <3>2. channel'[d] = channel[d]
      BY <1>6, <2>6 DEF VoicesInv
    <3>3. fnum'[s2][o2] = fnum[s2][o2] /\ level'[s2][o2] = level[s2][o2]
      BY <1>2, <1>7, <1>9, <2>3, <3>1 DEF VoicesInv
    <3>4. PICK v : v = VoiceAt(d)
      OBVIOUS
    <3>5. v.ch = channel[d] /\ v.fnum = fnum[s2][o2] /\ v.level = level[s2][o2]
      BY <2>2, <3>4 DEF VoiceAt
    <3>6. Released(v) /\ Tuned(v) /\ Levelled(v)
      BY <1>9, <3>4 DEF SoundInv, Sounding
    <3>7. u.ch = v.ch /\ u.fnum = v.fnum /\ u.level = v.level
      BY <2>4, <3>2, <3>3, <3>5
    <3>8. Released(u)' /\ Tuned(u)' /\ Levelled(u)'
      BY <3>6, <3>7, SoundKept
    <3> QED
      BY <2>1, <3>8 DEF Sounding
  <2> QED
    BY <2>5, <2>6
<1> QED
  BY <1>5, <1>8, <1>9 DEF SoundInv

(* A step that touches neither the channels nor the registers.             *)
LEMMA StillSounds ==
  ASSUME VoicesInv, UNCHANGED <<song, channel, regbd, fnum, level, bd>>
  PROVE  VoicesInv' /\ (SoundInv => SoundInv')
<1>1. Channels' = Channels /\ inst' = inst
  BY DEF Channels, inst, nchans
<1>2. VoicesInv'
  BY <1>1 DEF VoicesInv
<1>3. ASSUME SoundInv, NEW c \in Channels PROVE Sounding(c)'
  <2>1. PICK v, u : v = VoiceAt(c) /\ u = VoiceAt(c)'
    OBVIOUS
  <2>2. u.ch = v.ch /\ u.fnum = v.fnum /\ u.level = v.level
    BY <2>1 DEF VoiceAt, ChipOf
  <2>3. Released(v) /\ Tuned(v) /\ Levelled(v)
    BY <1>3, <2>1 DEF SoundInv, Sounding
  <2>4. Released(u)' /\ Tuned(u)' /\ Levelled(u)'
    BY <2>2, <2>3, SoundKept
  <2> QED
    BY <2>1, <2>4 DEF Sounding
<1> QED
  BY <1>1, <1>2, <1>3 DEF SoundInv

LEMMA PlayedCell ==
  ASSUME TypeInv, Playable(song), AtRow, ~Skipped
  PROVE  GoodCell(Cell) /\ Cell \in PlayedCells(song)
<1>1. pattnr \in 0 .. (npats - 1) /\ chan \in 0 .. (nchans - 1) /\ row \in 0 .. (nrows - 1)
  <2>1. pattnr < npats /\ chan < nchans
    BY DEF AtRow, Stray, Skipped
  <2> QED
    BY <2>1, SongFacts DEF TypeInv, TypeOK, Byte
<1>2. WellFormed(song)
  BY SongsAssumption DEF TypeInv
<1>3. /\ trackord \in [0 .. (npats - 1) -> [0 .. (nchans - 1) -> 0 .. Len(tracks)]]
      /\ tracks \in Seq([0 .. (nrows - 1) -> Cells])
  BY <1>2 DEF WellFormed, trackord, tracks, npats, nchans, nrows
<1>4. Track \in 1 .. Len(tracks)
  <2>1. trackord[pattnr][chan] \in 0 .. Len(tracks)
    BY <1>1, <1>3
  <2> QED
    BY <1>3, <2>1 DEF Skipped, Track
<1>5. tracks[Track] \in [0 .. (nrows - 1) -> Cells] /\ Track \in DOMAIN tracks
  BY <1>3, <1>4
<1>6. Cell \in Cells
  BY <1>1, <1>5 DEF Cell
<1>7. PlayableCell(song, Cell)
  BY <1>1, <1>5 DEF Playable, Cell, tracks, nrows
<1>8. Cell \in PlayedCells(song)
  <2>1. PICK t, r : t = Track /\ r = row
    OBVIOUS
  <2>2. t \in DOMAIN song.tracks /\ r \in 0 .. (song.nrows - 1) /\ Cell = song.tracks[t][r]
    BY <1>1, <1>5, <2>1 DEF Cell, tracks, nrows
  <2> QED
    BY <2>2 DEF PlayedCells
<1> QED
  BY <1>6, <1>7, <1>8 DEF GoodCell

LEMMA UpdateSounds ==
  ASSUME Playable(song), TypeInv, ChipInv, VoicesInv, ModUpdate, nchans' = nchans,
         chan' \in 0 .. nchans, song' = song
  PROVE  VoicesInv' /\ (opl = "real" /\ SoundInv => SoundInv')
<1>1. song \in Songs /\ nchans \in Nat /\ nchans > 0 /\ opl \in {"real", "silent"}
  BY SongFacts DEF TypeInv, ChipInv
<1>2. Voice(chan) = [ch |-> channel[chan], regbd |-> regbd,
                     fnum |-> fnum[selected'[opl]][chan % VoicesPerChip],
                     level |-> level[selected'[opl]][chan % VoicesPerChip],
                     bd |-> bd[selected'[opl]]]
  BY DEF Voice
<1>3. CASE ModTick
  <2>1. chan \in Channels /\ chan' = chan + 1 /\ InLoop
    BY <1>1, <1>3 DEF ModTick, TickChannel, InLoop, TypeInv, TypeOK, Channels
  <2>2. selected'[opl] = ChipOf(chan)
    BY <1>1, <2>1, UpdateSelects
  <2>3. Voice(chan) = VoiceAt(chan)
    BY <1>2, <2>2 DEF VoiceAt
  <2>4. PICK v : v = VoiceAt(chan)
    OBVIOUS
  <2>5. IsVoice(v)
    BY <1>1, <2>1, <2>4, VoiceIsVoice
  <2>6. PICK a : a = SpecialArpeggio(v)
    OBVIOUS
  <2>7. Plays(v, a) /\ IsVoice(a)
    BY <2>5, <2>6, SpecialArpeggioPlays DEF Plays, Keeps
  <2>8. PICK w : w = TickCommand(a)
    OBVIOUS
  <2>9. Plays(v, w)
    BY <2>7, <2>8, TickCommandPlays, PlaysOn
  <2>10. VoiceBecomes(chan, w)
    BY <1>3, <2>3, <2>4, <2>6, <2>8 DEF ModTick
  <2>11. Plays(VoiceAt(chan), w)
    BY <2>4, <2>9
  <2> QED
    BY <1>1, <2>1, <2>2, <2>10, <2>11, VoiceStep
<1>4. CASE ModRow
  <2>1. RowChannel /\ set_opl_chip(chan)
    BY <1>4 DEF ModRow
  <2>2. AtRow /\ pc = "row" /\ chan < nchans /\ chan' = chan + 1
    BY <2>1, RowMoves DEF AtRow, NextChannel
  <2>3. chan \in Channels /\ InLoop
    BY <1>1, <2>2 DEF InLoop, TypeInv, TypeOK, Channels
  <2>4. selected'[opl] = ChipOf(chan)
    BY <1>1, <2>2, <2>3, UpdateSelects
  <2>5. CASE Skipped
    <3>1. UNCHANGED <<channel, regbd, opl, fnum, level, bd>>
      BY <1>4, <2>5 DEF ModRow
    <3> QED
      BY <3>1, StillSounds
  <2>6. CASE ~Skipped
    <3>1. Voice(chan) = VoiceAt(chan)
      BY <1>2, <2>4 DEF VoiceAt
    <3>2. PICK v : v = VoiceAt(chan)
      OBVIOUS
    <3>3. IsVoice(v)
      BY <1>1, <2>3, <3>2, VoiceIsVoice
    <3>4. PICK w : w = PlayCell(v, Cell)
      OBVIOUS
    <3>5. Plays(v, w)
      BY <2>2, <2>6, <3>3, <3>4, PlayedCell, PlayCellPlays
    <3>6. VoiceBecomes(chan, w)
      BY <1>4, <2>6, <3>1, <3>2, <3>4 DEF ModRow
    <3>7. Plays(VoiceAt(chan), w)
      BY <3>2, <3>5
    <3> QED
      BY <1>1, <2>3, <2>4, <3>6, <3>7, VoiceStep
  <2> QED
    BY <2>5, <2>6
<1>5. CASE ModControl
  <2>1. UNCHANGED <<channel, regbd, fnum, level, bd>>
    BY <1>5 DEF ModControl, voiceVars, chipVars
  <2> QED
    BY <2>1, StillSounds
<1> QED
  BY <1>3, <1>4, <1>5 DEF ModUpdate

(* A channel and its registers as rewind() and the constructor leave them. *)
LEMMA ZeroIsGood ==
  /\ ZeroChannel \in GoodChannel /\ ZeroChannel.key = 0 /\ ZeroChannel.inst = 0
  /\ <<0, 0, 0>> \in Frequencies /\ <<0, 0>> \in Byte \X Byte
<1>1. 0 \in Byte /\ 0 \in Word
  BY ByteFacts
<1> QED
  BY <1>1 DEF ZeroChannel, GoodChannel, Frequencies

LEMMA DepthIsByte ==
  ASSUME NEW tremolo, NEW vib
  PROVE  DepthBits(tremolo, vib) \in Byte
<1>1. DepthBits(tremolo, vib) \in {0, 64, 128, 192}
  BY DEF DepthBits
<1> QED
  BY <1>1 DEF Byte

AllCleared ==
  /\ Playable(song) /\ song \in Songs
  /\ channel = [c \in Channels |-> ZeroChannel] /\ regbd \in Byte
  /\ fnum = Cleared(<<0, 0, 0>>) /\ level = Cleared(<<0, 0>>) /\ bd \in [Chips -> Byte]

LEMMA ClearedSounds == AllCleared => VoicesInv /\ SoundInv
<1> SUFFICES ASSUME AllCleared PROVE VoicesInv /\ SoundInv
  OBVIOUS
<1>0. /\ Playable(song) /\ song \in Songs
      /\ channel = [c \in Channels |-> ZeroChannel] /\ regbd \in Byte
      /\ fnum = Cleared(<<0, 0, 0>>) /\ level = Cleared(<<0, 0>>) /\ bd \in [Chips -> Byte]
  BY DEF AllCleared
<1>1. /\ \A s \in Chips : \A o \in ChipVoices : fnum[s][o] = <<0, 0, 0>> /\ level[s][o] = <<0, 0>>
      /\ fnum \in [Chips -> [ChipVoices -> Frequencies]]
      /\ level \in [Chips -> [ChipVoices -> Byte \X Byte]]
  BY <1>0, ZeroIsGood DEF Cleared
<1>2. channel \in [Channels -> GoodChannel] /\ \A c \in Channels : channel[c] = ZeroChannel
  BY <1>0, ZeroIsGood
<1>3. VoicesInv
  BY <1>0, <1>1, <1>2, ZeroIsGood DEF VoicesInv, Playable, inst
<1>4. ASSUME NEW c \in Channels PROVE Sounding(c)
  <2>1. ChipOf(c) \in Chips /\ c % VoicesPerChip \in ChipVoices
    BY <1>0, OwnVoices
  <2>2. PICK v : v = VoiceAt(c)
    OBVIOUS
  <2>3. v.ch = ZeroChannel /\ v.fnum = <<0, 0, 0>> /\ v.level = <<0, 0>>
    BY <1>1, <1>2, <2>1, <2>2 DEF VoiceAt
  <2>4. Released(v) /\ Tuned(v) /\ Levelled(v)
    BY <2>3, ZeroIsGood DEF Released, Tuned, Levelled
  <2> QED
    BY <2>2, <2>4 DEF Sounding
<1> QED
  BY <1>3, <1>4 DEF SoundInv

LEMMA RewindSounds ==
  ASSUME Playable(song), song \in Songs, ChipInv, VoicesInv, ModRewind
  PROVE  VoicesInv' /\ (opl = "real" => SoundInv')
<1>1. song' = song /\ Channels' = Channels /\ inst' = inst
  BY DEF ModRewind, SeqRewind, Channels, nchans, inst
<1>2. channel' = [c \in Channels |-> ZeroChannel] /\ regbd' \in Byte
  BY DepthIsByte DEF ModRewind, VoicesRewound, Channels
<1>3. CASE opl = "silent"
  <2>1. UNCHANGED <<fnum, level, bd>>
    BY <1>3 DEF ModRewind, VoicesRewound
  <2>2. channel' \in [Channels -> GoodChannel] /\ \A c \in Channels : channel'[c].inst = 0
    BY <1>2, ZeroIsGood
  <2> QED
    BY <1>1, <1>2, <1>3, <2>1, <2>2 DEF VoicesInv, Playable, inst
<1>4. CASE opl # "silent"
  <2>1. fnum' = Cleared(<<0, 0, 0>>) /\ level' = Cleared(<<0, 0>>)
    BY <1>4 DEF ModRewind, VoicesRewound
  <2>2. bd' \in [Chips -> Byte]
    BY <1>4, DepthIsByte, ByteFacts DEF ModRewind, VoicesRewound
  <2>3. Cleared(<<0, 0, 0>>)' = Cleared(<<0, 0, 0>>) /\ Cleared(<<0, 0>>)' = Cleared(<<0, 0>>)
    BY DEF Cleared
  <2>4. Playable(song)' /\ (song \in Songs)'
    BY <1>1 DEF Playable, PlayableCell
  <2>5. (channel = [c \in Channels |-> ZeroChannel])'
    BY <1>1, <1>2
  <2> QED
    <3>1. AllCleared'
      BY <1>2, <2>1, <2>2, <2>3, <2>4, <2>5 DEF AllCleared
    <3>2. (AllCleared => VoicesInv /\ SoundInv)'
      BY ClearedSounds, PTL
    <3> QED
      BY <3>1, <3>2
<1> QED
  BY <1>3, <1>4

LEMMA InitSounds ==
  ASSUME Playable(song), song \in Songs, ModInit
  PROVE  VoicesInv /\ SoundInv
<1>1. /\ channel = [c \in Channels |-> ZeroChannel] /\ regbd \in Byte
      /\ fnum = Cleared(<<0, 0, 0>>) /\ level = Cleared(<<0, 0>>)
  BY DepthIsByte DEF ModInit, Channels
<1>2. bd \in [Chips -> Byte]
  BY <1>1, ByteFacts DEF ModInit
<1> QED
  BY <1>1, <1>2, ClearedSounds DEF AllCleared

-----------------------------------------------------------------------------
(***************************************************************************)
(* The invariants of the channels' sound.  PitchInTenBits is what is true  *)
(* of PitchSounds for every playable song: a keyed channel sounds its      *)
(* octave and the low ten bits of its frequency, which are all of it       *)
(* unless a long slide below frequency 0 has wrapped the unsigned short.   *)
(***************************************************************************)
PitchInTenBits ==
  \A c \in Channels : channel[c].key = 1 /\ channel[c].freq < 1024 => PitchMirrored(c)

LEMMA VoicesTyped ==
  ASSUME TypeInv, ChipInv, VoicesInv
  PROVE  ModTypeOK
<1>1. ASSUME NEW c \in GoodChannel PROVE c \in ChannelType
  <2>1. ASSUME NEW x \in 0 .. 63 PROVE x \in Byte
    BY DEF Byte
  <2>2. ASSUME NEW x \in 0 .. 7 PROVE x \in 0 .. 10
    OBVIOUS
  <2>3. c.vol1 \in Byte /\ c.vol2 \in Byte /\ c.oct \in 0 .. 10 /\ c.nextoct \in 0 .. 10
    BY <2>1, <2>2 DEF GoodChannel
  <2> QED
    BY <2>3 DEF GoodChannel, ChannelType
<1>2. \A c \in Channels : channel[c] \in ChannelType
  BY <1>1 DEF VoicesInv
<1>3. fnum \in [Chips -> [ChipVoices -> (0 .. 1023) \X (0 .. 7) \X {0, 1}]]
  BY DEF VoicesInv, Frequencies
<1> QED
  BY <1>2, <1>3 DEF ModTypeOK, TypeInv, ChipInv, VoicesInv

LEMMA SoundInvSays ==
  ASSUME Playable(song), song \in Songs, VoicesInv, SoundInv
  PROVE  ReleaseSounds /\ LevelsSound /\ PitchInTenBits
<1>1. ASSUME NEW c \in Channels
      PROVE  /\ channel[c].key = 0 => fnum[ChipOf(c)][c % VoicesPerChip][3] = 0
             /\ channel[c].key = 1 /\ channel[c].freq < 1024 => PitchMirrored(c)
             /\ "Faust" \notin flags =>
                  \/ level[ChipOf(c)][c % VoicesPerChip] = <<0, 0>>
                  \/ channel[c].vol1 <= 63 /\ channel[c].vol2 <= 63 /\ LevelMirrored(c)
  <2>1. PICK v : v = VoiceAt(c)
    OBVIOUS
  <2>2. /\ v.ch = channel[c] /\ v.fnum = fnum[ChipOf(c)][c % VoicesPerChip]
        /\ v.level = level[ChipOf(c)][c % VoicesPerChip]
    BY <2>1 DEF VoiceAt
  <2>3. Released(v) /\ Tuned(v) /\ Levelled(v)
    BY <2>1 DEF SoundInv, Sounding
  <2>4. channel[c] \in GoodChannel
    BY DEF VoicesInv
  <2>5. channel[c].key = 0 => fnum[ChipOf(c)][c % VoicesPerChip][3] = 0
    BY <2>2, <2>3 DEF Released
  <2>6. ASSUME channel[c].key = 1, channel[c].freq < 1024 PROVE PitchMirrored(c)
    <3>1. channel[c].freq \in Nat
      BY <2>4, WordFacts DEF GoodChannel
    <3>2. channel[c].freq % 1024 = channel[c].freq
      BY <2>6, <3>1
    <3> QED
      BY <2>2, <2>3, <2>6, <3>2 DEF Tuned, PitchMirrored
  <2>7. "Faust" \notin flags =>
          level[ChipOf(c)][c % VoicesPerChip] = <<0, 0>> \/ LevelMirrored(c)
    BY <2>2, <2>3 DEF Levelled, LevelMirrored, Ins
  <2>8. channel[c].vol1 <= 63 /\ channel[c].vol2 <= 63
    <3>1. channel[c].vol1 \in 0 .. 63 /\ channel[c].vol2 \in 0 .. 63
      BY <2>4 DEF GoodChannel
    <3> QED
      BY <3>1
  <2> QED
    BY <2>5, <2>6, <2>7, <2>8
<1> QED
  BY <1>1 DEF ReleaseSounds, LevelsSound, PitchInTenBits

(***************************************************************************)
(* What the player does by itself, before CPlayer's operations are added:  *)
(* the OPL object never changes.                                           *)
(***************************************************************************)
LEMMA ModImplementsSequencer == ModSpec => SeqSpec
<1>1. ModInit => SeqInit
  BY DEF ModInit
<1>2. [ModNext]_modVars => [SeqNext]_seqVars
  BY ModStepsSequence DEF ModNext, modVars
<1> QED
  BY <1>1, <1>2, PTL DEF ModSpec, SeqSpec

LEMMA ModInvHolds ==
  ASSUME \A s \in Songs : Playable(s)
  PROVE  ModSpec => []RealInv
<1>1. ModInit => RealInv
  <2> SUFFICES ASSUME ModInit PROVE RealInv
    OBVIOUS
  <2>1. song \in Songs /\ pc = "ready" /\ chan = 0
    BY DEF ModInit, SeqInit
  <2>2. nchans \in Nat
    BY <2>1, SongFacts
  <2>3. curchip \in Chips /\ opl = "real" /\ selected = [o \in {"real", "silent"} |-> 0]
    BY DEF ModInit
  <2>4. ChipInv
    BY <2>1, <2>2, <2>3 DEF ChipInv, InLoop, Chips
  <2> QED
    BY <2>1, <2>3, <2>4, InitSounds DEF RealInv
<1>2. TypeInv /\ TypeInv' /\ RealInv /\ [ModNext]_modVars => RealInv'
  <2> SUFFICES ASSUME TypeInv, TypeInv', ChipInv, opl = "real", VoicesInv, SoundInv,
                      [ModNext]_modVars
               PROVE  ChipInv' /\ opl' = "real" /\ VoicesInv' /\ SoundInv'
    BY DEF RealInv
  <2>1. SeqNext \/ UNCHANGED seqVars
    BY ModStepsSequence DEF ModNext, modVars
  <2>2. /\ nchans \in Nat /\ nchans > 0 /\ nchans' = nchans /\ chan' \in 0 .. nchans
        /\ song' = song /\ song \in Songs /\ Playable(song)
    BY <2>1, SongKept, SongFacts DEF TypeInv, TypeOK
  <2>3. CASE ModUpdate
    <3>1. opl' = opl
      BY <2>3 DEF ModUpdate, ModTick, ModRow, ModControl, VoiceBecomes, chipVars
    <3>2. ChipInv'
      BY <2>2, <2>3, UpdateSelects
    <3> QED
      BY <2>2, <2>3, <3>1, <3>2, UpdateSounds
  <2>4. CASE ModRewind
    <3>1. opl' = opl
      BY <2>4 DEF ModRewind, VoicesRewound
    <3>2. ChipInv'
      BY <2>2, <2>4, RewindSelects
    <3> QED
      BY <2>2, <2>4, <3>1, <3>2, RewindSounds
  <2>5. CASE UNCHANGED modVars
    <3>1. UNCHANGED <<song, pc, chan, curchip, opl, selected, channel, regbd, fnum, level, bd>>
      BY <2>5 DEF modVars, seqVars, locals, voiceVars, chipVars
    <3>2. LastChip' = LastChip /\ ChipOf(chan - 1)' = ChipOf(chan - 1) /\ (InLoop' <=> InLoop)
      BY <2>2, <3>1 DEF LastChip, ChipOf, InLoop
    <3>3. ChipInv'
      BY <2>2, <3>1, <3>2 DEF ChipInv
    <3> QED
      BY <3>1, <3>3, StillSounds
  <2> QED
    BY <2>3, <2>4, <2>5 DEF ModNext
<1> QED
  BY <1>1, <1>2, ModImplementsSequencer, TypeInvHolds, PTL DEF ModSpec

(***************************************************************************)
(* The channels and registers keep their types (ModTypeOK): no effect of   *)
(* any command takes an octave, a volume or a waveform position out of its *)
(* range, whatever commands follow one another.                            *)
(***************************************************************************)
THEOREM ChannelsStayTyped ==
  ASSUME \A s \in Songs : Playable(s)
  PROVE  ModSpec => []ModTypeOK
<1>1. TypeInv /\ RealInv => ModTypeOK
  BY VoicesTyped DEF RealInv
<1> QED
  BY <1>1, ModInvHolds, ModImplementsSequencer, TypeInvHolds, PTL

(* A released channel is silent on its chip (ReleaseSounds).               *)
THEOREM ReleasesAreHeard ==
  ASSUME \A s \in Songs : Playable(s)
  PROVE  ModSpec => []ReleaseSounds
<1>1. TypeInv /\ RealInv => ReleaseSounds
  BY SoundInvSays DEF TypeInv, RealInv
<1> QED
  BY <1>1, ModInvHolds, ModImplementsSequencer, TypeInvHolds, PTL

(***************************************************************************)
(* The level registers hold the channels' volumes and key scaling          *)
(* (LevelsSound): every command that changes a volume writes it, and none  *)
(* lets 63 - volume run into the scaling bits.                             *)
(***************************************************************************)
THEOREM LevelsFollow ==
  ASSUME \A s \in Songs : Playable(s)
  PROVE  ModSpec => []LevelsSound
<1>1. TypeInv /\ RealInv => LevelsSound
  BY SoundInvSays DEF TypeInv, RealInv
<1> QED
  BY <1>1, ModInvHolds, ModImplementsSequencer, TypeInvHolds, PTL

(***************************************************************************)
(* A keyed channel sounds its octave and its frequency as far as ten bits  *)
(* hold it: no handler that moves the pitch forgets setfreq().             *)
(***************************************************************************)
THEOREM PitchFollows ==
  ASSUME \A s \in Songs : Playable(s)
  PROVE  ModSpec => []PitchInTenBits
<1>1. TypeInv /\ RealInv => PitchInTenBits
  BY SoundInvSays DEF TypeInv, RealInv
<1> QED
  BY <1>1, ModInvHolds, ModImplementsSequencer, TypeInvHolds, PTL

-----------------------------------------------------------------------------
(***************************************************************************)
(* The same under songlength() and seek().  songlength() plays on a silent *)
(* object and tears the channels from the chips; the types survive that,   *)
(* and the next rewind() or seek() on the real object mends the sound.     *)
(***************************************************************************)
LEMMA OperationsTear ==
  ASSUME [PlayerNext]_playerVars, OplInv, op = "songlength" => torn
  PROVE  /\ op' = "songlength" => torn'
         /\ \/ ModUpdate /\ torn' = torn
            \/ ModRewind /\ (op # "songlength" \/ torn')
            \/ UNCHANGED <<song, channel, regbd, fnum, level, bd>> /\ (torn' <=> torn)
            \/ UNCHANGED <<song, channel, regbd, fnum, level, bd>> /\ torn'
<1>1. CASE UNCHANGED playerVars
  <2>1. UNCHANGED <<song, channel, regbd, fnum, level, bd, op, torn>>
    BY <1>1 DEF playerVars, modVars, seqVars, voiceVars, chipVars, opVars
  <2> QED
    BY <2>1
<1>2. CASE FrontendTime \/ MeasureOn \/ SeekOn \/ SeekAdd \/ SeekReturn
  <2>1. UNCHANGED modVars /\ torn' = torn /\ (op' = op \/ op' = "none")
    BY <1>2 DEF FrontendTime, MeasureOn, SeekOn, SeekAdd, SeekReturn
  <2>2. UNCHANGED <<song, channel, regbd, fnum, level, bd>>
    BY <2>1 DEF modVars, seqVars, voiceVars, chipVars
  <2> QED
    BY <2>1, <2>2
<1>3. CASE FrontendUpdate \/ MeasureUpdate \/ SeekUpdate
  BY <1>3 DEF FrontendUpdate, MeasureUpdate, SeekUpdate, CallUpdate
<1>4. CASE FrontendRewind
  BY <1>4 DEF FrontendRewind
<1>5. CASE \E ms \in SeekTargets : Seek(ms)
  BY <1>5 DEF Seek
<1>6. CASE MeasureRewind \/ MeasureEnd
  BY <1>6 DEF MeasureRewind, MeasureEnd
<1>7. CASE SongLength
  <2>1. UNCHANGED <<song, channel, regbd, fnum, level, bd>> /\ torn'
    BY <1>7 DEF SongLength, seqVars, voiceVars
  <2> QED
    BY <2>1
<1>8. CASE MeasureReturn
  <2>1. UNCHANGED <<song, channel, regbd, fnum, level, bd>> /\ torn' = torn /\ op' = "none"
    BY <1>8 DEF MeasureReturn, seqVars, voiceVars
  <2> QED
    BY <2>1
<1> QED
  BY <1>1, <1>2, <1>3, <1>4, <1>5, <1>6, <1>7, <1>8 DEF PlayerNext, Operating

TornInv ==
  /\ op = "songlength" => torn
  /\ VoicesInv
  /\ ~torn => SoundInv

LEMMA TornInvHolds ==
  ASSUME \A s \in Songs : Playable(s)
  PROVE  PlayerSpec => []TornInv
<1>1. PlayerInit => TornInv
  <2> SUFFICES ASSUME PlayerInit PROVE TornInv
    OBVIOUS
  <2>1. ModInit /\ song \in Songs /\ op = "none"
    BY DEF PlayerInit, ModInit, SeqInit
  <2> QED
    BY <2>1, InitSounds DEF TornInv
<1>2. /\ TypeInv /\ TypeInv' /\ ChipInv /\ OplInv /\ TornInv /\ [PlayerNext]_playerVars
      => TornInv'
  <2> SUFFICES ASSUME TypeInv, TypeInv', ChipInv, OplInv, TornInv, [PlayerNext]_playerVars
               PROVE  TornInv'
    OBVIOUS
  <2>1. SeqNext \/ UNCHANGED seqVars
    BY PlayerSteps, ModStepsSequence DEF modVars, SongLength, MeasureReturn
  <2>2. /\ nchans' = nchans /\ chan' \in 0 .. nchans /\ song' = song /\ song \in Songs
        /\ Playable(song)
    BY <2>1, SongKept DEF TypeInv, TypeOK
  <2>3. VoicesInv /\ (~torn => SoundInv) /\ (op = "songlength" => torn)
    BY DEF TornInv
  <2>4. opl = "real" \/ torn
    BY <2>3 DEF OplInv
  <2>5. op' = "songlength" => torn'
    BY <2>3, OperationsTear
  <2>6. CASE ModUpdate /\ torn' = torn
    <3>1. VoicesInv' /\ (opl = "real" /\ SoundInv => SoundInv')
      BY <2>2, <2>3, <2>6, UpdateSounds
    <3>2. ~torn' => SoundInv'
      BY <2>3, <2>4, <2>6, <3>1
    <3> QED
      BY <2>5, <3>1, <3>2 DEF TornInv
  <2>7. CASE ModRewind /\ (op # "songlength" \/ torn')
    <3>1. VoicesInv' /\ (opl = "real" => SoundInv')
      BY <2>2, <2>3, <2>7, RewindSounds
    <3>2. op # "songlength" => opl = "real"
      BY DEF OplInv
    <3>3. ~torn' => SoundInv'
      BY <2>7, <3>1, <3>2
    <3> QED
      BY <2>5, <3>1, <3>3 DEF TornInv
  <2>8. CASE UNCHANGED <<song, channel, regbd, fnum, level, bd>> /\ ((torn' <=> torn) \/ torn')
    <3>1. VoicesInv' /\ (SoundInv => SoundInv')
      BY <2>3, <2>8, StillSounds
    <3>2. ~torn' => SoundInv'
      BY <2>3, <2>8, <3>1
    <3> QED
      BY <2>5, <3>1, <3>2 DEF TornInv
  <2> QED
    BY <2>3, <2>6, <2>7, <2>8, OperationsTear
<1> QED
  BY <1>1, <1>2, ChipInvHolds, PlayerImplementsSequencer, TypeInvHolds, PTL DEF PlayerSpec

(***************************************************************************)
(* SoundFollows of Player with PitchInTenBits for PitchSounds: through any *)
(* sequence of updates, rewinds, seeks and measurements the types hold,    *)
(* and while the channels are not torn from the chips the sound follows.   *)
(***************************************************************************)
THEOREM SoundFollowsOperations ==
  ASSUME \A s \in Songs : Playable(s)
  PROVE  PlayerSpec =>
           [](ModTypeOK /\ (~torn => ReleaseSounds /\ LevelsSound /\ PitchInTenBits))
<1>1. TypeInv /\ ChipInv /\ TornInv
      => ModTypeOK /\ (~torn => ReleaseSounds /\ LevelsSound /\ PitchInTenBits)
  BY VoicesTyped, SoundInvSays DEF TypeInv, TornInv
<1> QED
  BY <1>1, TornInvHolds, ChipInvHolds, PlayerImplementsSequencer, TypeInvHolds, PTL

-----------------------------------------------------------------------------
(***************************************************************************)
(* Gentle songs.  Retriggering is what the song may do to a channel whose  *)
(* note was released; Ranged is where a sounding channel's frequency is,   *)
(* Settled what a channel remembers of commands that slide or retrigger.   *)
(***************************************************************************)
Low(lo) == lo \in 16 .. Lowest

Ranged(c, lo) == c.freq \in lo .. 1023 /\ c.nextfreq \in lo .. 1023

Settled(c, lo) ==
  /\ 2 * c.portainfo <= lo
  /\ c.fx = 2 => 2 * InfoOf(c.info1, c.info2) <= lo
  /\ c.fx = 14 /\ c.info1 = 3 => Retriggering(song)

Heard(c) == c.note # 0 /\ (c.key = 1 \/ Retriggering(song))
Fits(c, lo) == Settled(c, lo) /\ (Heard(c) => Ranged(c, lo))

(* What the handlers of the tick loop do to a channel; transitive.         *)
Goes(c, d, lo) ==
  /\ d.note = c.note
  /\ d.key = 1 => c.key = 1 \/ Retriggering(song)
  /\ Settled(c, lo) => Settled(d, lo)
  /\ Settled(c, lo) /\ Ranged(c, lo) => Ranged(d, lo)

LEMMA GoesFits ==
  ASSUME NEW c, NEW d, NEW lo, Goes(c, d, lo), Fits(c, lo)
  PROVE  Fits(d, lo)
BY DEF Goes, Fits, Heard

LEMMA GoesOn ==
  ASSUME NEW c, NEW d, NEW e, NEW lo, Goes(c, d, lo), Goes(d, e, lo)
  PROVE  Goes(c, e, lo)
BY DEF Goes

LEMMA GoesItself == \A c, lo : Goes(c, c, lo)
BY DEF Goes

(* The members that slides leave alone.                                    *)
SameSettings(c, d) ==
  /\ d.note = c.note /\ d.key = c.key /\ d.fx = c.fx /\ d.info1 = c.info1 /\ d.info2 = c.info2
  /\ d.portainfo = c.portainfo

LEMMA SettingsGo ==
  ASSUME NEW c, NEW d, NEW lo, SameSettings(c, d),
         Settled(c, lo) /\ Ranged(c, lo) => Ranged(d, lo)
  PROVE  Goes(c, d, lo)
BY DEF SameSettings, Goes, Settled

LEMMA NoWrap == \A n \in Nat : n < 65536 => Wrapped(n) = n
BY SMTT(30) DEF Wrapped

LEMMA DownStays ==
  ASSUME NEW lo, Low(lo), NEW f \in lo .. 1023, NEW a \in Nat, 2 * a <= lo
  PROVE  /\ Wrapped(f - a) > Lowest => Wrapped(f - a) \in lo .. 1023
         /\ ~(Wrapped(f - a) > Lowest) => 2 * Wrapped(f - a) \in lo .. 1023
<1>1. lo \in Nat /\ f \in Nat /\ lo >= 16 /\ lo <= 342 /\ lo <= f /\ f <= 1023
  BY DEF Low, Lowest
<1>2. f - a \in Nat /\ f - a < 65536
  BY <1>1
<1>3. Wrapped(f - a) = f - a
  BY <1>2, NoWrap
<1> QED
  BY <1>1, <1>2, <1>3 DEF Lowest

LEMMA UpStays ==
  ASSUME NEW lo, Low(lo), NEW f \in lo .. 1023, NEW a \in Nat, a <= 255
  PROVE  /\ Wrapped(f + a) < Highest => Wrapped(f + a) \in lo .. 1023
         /\ ~(Wrapped(f + a) < Highest) => Wrapped(f + a) \div 2 \in lo .. 1023
<1>1. lo \in Nat /\ f \in Nat /\ lo >= 16 /\ lo <= 342 /\ lo <= f /\ f <= 1023
  BY DEF Low, Lowest
<1>2. f + a \in Nat /\ f + a < 65536 /\ f + a <= 1278
  BY <1>1
<1>3. Wrapped(f + a) = f + a
  BY <1>2, NoWrap
<1> QED
  BY <1>1, <1>2, <1>3 DEF Highest

LEMMA EndsStay == \A lo : Low(lo) => Lowest \in lo .. 1023 /\ Highest \in lo .. 1023
BY DEF Low, Lowest, Highest

LEMMA SlidesStay ==
  ASSUME NEW lo, Low(lo), NEW c \in GoodChannel, NEW a \in Nat
  PROVE  /\ SameSettings(c, slide_down(c, a)) /\ SameSettings(c, slide_up(c, a))
         /\ slide_down(c, a).nextfreq = c.nextfreq /\ slide_up(c, a).nextfreq = c.nextfreq
         /\ 2 * a <= lo /\ Ranged(c, lo) => Ranged(slide_down(c, a), lo)
         /\ a <= 255 /\ Ranged(c, lo) => Ranged(slide_up(c, a), lo)
<1> DEFINE Moved(d, g) == d.freq = g /\ SameSettings(c, d) /\ d.nextfreq = c.nextfreq
<1>1. ASSUME NEW g, NEW o
      PROVE  Moved([c EXCEPT !.freq = g], g) /\ Moved([c EXCEPT !.freq = g, !.oct = o], g)
  BY DEF GoodChannel, SameSettings
<1> HIDE DEF Moved
<1>2. PICK d, u : d = slide_down(c, a) /\ u = slide_up(c, a)
  OBVIOUS
<1>3. PICK m, n : m = Wrapped(c.freq - a) /\ n = Wrapped(c.freq + a)
  OBVIOUS
<1>4. \/ m > Lowest /\ Moved(d, m)
      \/ ~(m > Lowest) /\ Moved(d, 2 * m)
      \/ Moved(d, Lowest)
  <2>1. d = IF m > Lowest THEN [c EXCEPT !.freq = m]
            ELSE IF c.oct > 0 THEN [c EXCEPT !.freq = 2 * m, !.oct = c.oct - 1]
            ELSE [c EXCEPT !.freq = Lowest]
    BY <1>2, <1>3 DEF slide_down
  <2>2. CASE m > Lowest
    BY <1>1, <2>1, <2>2
  <2>3. CASE ~(m > Lowest) /\ c.oct > 0
    <3>1. PICK o : o = c.oct - 1
      OBVIOUS
    <3>2. d = [c EXCEPT !.freq = 2 * m, !.oct = o]
      BY <2>1, <2>3, <3>1
    <3> QED
      BY <1>1, <2>3, <3>2, Zenon
  <2>4. CASE ~(m > Lowest) /\ ~(c.oct > 0)
    BY <1>1, <2>1, <2>4
  <2> QED
    BY <2>2, <2>3, <2>4
<1>5. \/ n < Highest /\ Moved(u, n)
      \/ ~(n < Highest) /\ Moved(u, n \div 2)
      \/ Moved(u, Highest)
  <2>1. u = IF n < Highest THEN [c EXCEPT !.freq = n]
            ELSE IF c.oct < 7 THEN [c EXCEPT !.freq = n \div 2, !.oct = c.oct + 1]
            ELSE [c EXCEPT !.freq = Highest]
    BY <1>2, <1>3 DEF slide_up
  <2>2. CASE n < Highest
    BY <1>1, <2>1, <2>2
  <2>3. CASE ~(n < Highest) /\ c.oct < 7
    <3>1. PICK o : o = c.oct + 1
      OBVIOUS
    <3>2. u = [c EXCEPT !.freq = n \div 2, !.oct = o]
      BY <2>1, <2>3, <3>1
    <3> QED
      BY <1>1, <2>3, <3>2, Zenon
  <2>4. CASE ~(n < Highest) /\ ~(c.oct < 7)
    BY <1>1, <2>1, <2>4
  <2> QED
    BY <2>2, <2>3, <2>4
<1>6. /\ SameSettings(c, d) /\ d.nextfreq = c.nextfreq
      /\ SameSettings(c, u) /\ u.nextfreq = c.nextfreq
  BY <1>4, <1>5 DEF Moved
<1>7. ASSUME 2 * a <= lo, Ranged(c, lo) PROVE Ranged(d, lo)
  <2>1. c.freq \in lo .. 1023 /\ c.nextfreq \in lo .. 1023
    BY <1>7 DEF Ranged
  <2>2. /\ m > Lowest => m \in lo .. 1023
        /\ ~(m > Lowest) => 2 * m \in lo .. 1023
    <3>1. PICK f : f = c.freq
      OBVIOUS
    <3>2. f \in lo .. 1023 /\ m = Wrapped(f - a)
      BY <1>3, <2>1, <3>1
    <3> QED
      BY <1>7, <3>2, DownStays
  <2>3. d.freq \in lo .. 1023
    BY <1>4, <2>2, EndsStay DEF Moved
  <2> QED
    BY <1>6, <2>1, <2>3 DEF Ranged
<1>8. ASSUME a <= 255, Ranged(c, lo) PROVE Ranged(u, lo)
  <2>1. c.freq \in lo .. 1023 /\ c.nextfreq \in lo .. 1023
    BY <1>8 DEF Ranged
  <2>2. /\ n < Highest => n \in lo .. 1023
        /\ ~(n < Highest) => n \div 2 \in lo .. 1023
    <3>1. PICK f : f = c.freq
      OBVIOUS
    <3>2. f \in lo .. 1023 /\ n = Wrapped(f + a)
      BY <1>3, <2>1, <3>1
    <3>3. /\ Wrapped(f + a) < Highest => Wrapped(f + a) \in lo .. 1023
          /\ ~(Wrapped(f + a) < Highest) => Wrapped(f + a) \div 2 \in lo .. 1023
      BY <1>8, <3>2, UpStays
    <3> QED
      BY <3>2, <3>3
  <2>3. u.freq \in lo .. 1023
    BY <1>5, <2>2, EndsStay DEF Moved
  <2> QED
    BY <1>6, <2>1, <2>3 DEF Ranged
<1> QED
  BY <1>2, <1>6, <1>7, <1>8

(* What stays the same and where it was is kept by any number of steps.    *)
Holds(c, d, lo) == SameSettings(c, d) /\ (Ranged(c, lo) => Ranged(d, lo))

LEMMA HoldsOn ==
  ASSUME NEW c, NEW d, NEW e, NEW lo, Holds(c, d, lo), Holds(d, e, lo)
  PROVE  Holds(c, e, lo)
BY DEF Holds, SameSettings

LEMMA HoldsGoes ==
  ASSUME NEW c, NEW d, NEW lo, Holds(c, d, lo)
  PROVE  Goes(c, d, lo)
BY SettingsGo DEF Holds

LEMMA SlidesHold ==
  ASSUME NEW lo, Low(lo), NEW c \in GoodChannel, NEW a \in Nat
  PROVE  /\ 2 * a <= lo => Holds(c, slide_down(c, a), lo)
         /\ a <= 255 => Holds(c, slide_up(c, a), lo)
BY SlidesStay DEF Holds

LEMMA VibratoStepHolds ==
  ASSUME NEW lo, Low(lo), NEW c \in GoodChannel, NEW depth \in 1 .. 14
  PROVE  Holds(c, VibratoStep(c, depth), lo)
<1>1. PICK t : t = (c.trigger + 1) % 64
  OBVIOUS
<1>2. t \in 0 .. 63
  BY <1>1 DEF GoodChannel
<1>3. PICK d : d = [c EXCEPT !.trigger = t]
  OBVIOUS
<1>4. d \in GoodChannel
  BY <1>2, <1>3 DEF GoodChannel
<1>5. Holds(c, d, lo)
  BY <1>3 DEF GoodChannel, Holds, SameSettings, Ranged
<1>6. ASSUME NEW i \in Nat, i < 32
      PROVE  /\ vibratotab(i) \div (16 - depth) \in Nat
             /\ vibratotab(i) \div (16 - depth) <= 8
  <2>1. PICK x, y : x = vibratotab(i) /\ y = 16 - depth
    OBVIOUS
  <2>2. x \in 0 .. 16 /\ y \in 2 .. 15
    BY <1>6, <2>1 DEF vibratotab
  <2>3. x \div y \in Nat /\ x \div y <= 8
    BY <2>2
  <2> QED
    BY <2>1, <2>3
<1>7. VibratoStep(c, depth) = IF t \in 16 .. 47
                              THEN slide_down(d, vibratotab(t - 16) \div (16 - depth))
                              ELSE slide_up(d, vibratotab((t + 16) % 64) \div (16 - depth))
  BY <1>1, <1>3 DEF VibratoStep
<1>8. lo \in Nat /\ lo >= 16
  BY DEF Low, Lowest
<1>9. CASE t \in 16 .. 47
  <2>1. PICK a : a = vibratotab(t - 16) \div (16 - depth)
    OBVIOUS
  <2>2. a \in Nat /\ a <= 8 /\ VibratoStep(c, depth) = slide_down(d, a)
    BY <1>2, <1>6, <1>7, <1>9, <2>1
  <2>3. Holds(d, slide_down(d, a), lo)
    BY <1>4, <1>8, <2>2, SlidesHold
  <2> QED
    BY <1>5, <2>2, <2>3, HoldsOn
<1>10. CASE t \notin 16 .. 47
  <2>1. PICK a : a = vibratotab((t + 16) % 64) \div (16 - depth)
    OBVIOUS
  <2>2. (t + 16) % 64 \in Nat /\ (t + 16) % 64 < 32
    BY <1>2, <1>10
  <2>3. a \in Nat /\ a <= 8 /\ VibratoStep(c, depth) = slide_up(d, a)
    BY <1>6, <1>7, <1>10, <2>1, <2>2
  <2>4. Holds(d, slide_up(d, a), lo)
    BY <1>4, <2>3, SlidesHold
  <2> QED
    BY <1>5, <2>3, <2>4, HoldsOn
<1> QED
  BY <1>9, <1>10

LEMMA VibratosHold ==
  ASSUME NEW lo, Low(lo), NEW c \in GoodChannel, NEW turns \in Nat, NEW depth \in Nat \ {0}
  PROVE  Holds(c, vibrato(c, turns, depth), lo)
<1>1. PICK f : IsWave(f, c, turns, Least(depth, 14)) /\ vibrato(c, turns, depth) = f[turns]
  BY VibratoIsWave
<1>2. PICK d : d = Least(depth, 14)
  OBVIOUS
<1>3. d \in 1 .. 14
  BY <1>2 DEF Least
<1> DEFINE T == {k \in 0 .. turns : ~Holds(c, f[k], lo)}
<1>4. SUFFICES ASSUME T # {} PROVE FALSE
  BY <1>1, <1>4
<1>5. PICK m \in T : \A k \in T : m <= k
  <2>1. T \in SUBSET Nat
    OBVIOUS
  <2> HIDE DEF T
  <2> QED
    BY <1>4, <2>1, LeastNatural
<1>6. m \in 0 .. turns /\ ~Holds(c, f[m], lo)
  BY <1>5
<1>7. CASE m = 0
  BY <1>1, <1>6, <1>7 DEF IsWave, Holds, SameSettings
<1>8. CASE m # 0
  <2>1. m - 1 \in 0 .. turns /\ m - 1 \notin T
    BY <1>5, <1>6, <1>8
  <2>2. Holds(c, f[m - 1], lo)
    BY <2>1
  <2>3. f[m] = VibratoStep(f[m - 1], d) /\ f[m - 1] \in GoodChannel
    BY <1>1, <1>2, <1>6, <1>8, <2>1 DEF IsWave
  <2>4. Holds(f[m - 1], f[m], lo)
    BY <1>3, <2>3, VibratoStepHolds
  <2> QED
    BY <1>6, <2>2, <2>4, HoldsOn
<1> QED
  BY <1>7, <1>8

LEMMA TonePortamentosHold ==
  ASSUME NEW lo, Low(lo), NEW c \in GoodChannel, NEW info \in Nat, 2 * info <= lo
  PROVE  Holds(c, tone_portamento(c, info), lo)
<1> DEFINE Up(d) == IF Pitch(slide_up(d, info)) > Target(d) THEN AtTarget(slide_up(d, info))
                                                            ELSE slide_up(d, info)
           Down(d) == IF Pitch(slide_down(d, info)) < Target(d) THEN AtTarget(slide_down(d, info))
                                                                ELSE slide_down(d, info)
           risen == IF Pitch(c) < Target(c) THEN Up(c) ELSE c
<1>1. tone_portamento(c, info) = IF Pitch(risen) > Target(c) THEN Down(risen) ELSE risen
  BY DEF tone_portamento
<1>2. ASSUME NEW d \in GoodChannel PROVE Holds(d, AtTarget(d), lo)
  BY DEF GoodChannel, Holds, SameSettings, Ranged, AtTarget
<1>3. info <= 255
  BY DEF Low, Lowest
<1>4. ASSUME NEW d \in GoodChannel
      PROVE  Up(d) \in GoodChannel /\ Holds(d, Up(d), lo) /\ Holds(d, Down(d), lo)
  <2>1. slide_up(d, info) \in GoodChannel /\ Holds(d, slide_up(d, info), lo)
    BY <1>3, SlidesUp, SlidesHold
  <2>2. slide_down(d, info) \in GoodChannel /\ Holds(d, slide_down(d, info), lo)
    BY SlidesDown, SlidesHold
  <2>3. AtTarget(slide_up(d, info)) \in GoodChannel
    <3>1. PICK u : u = slide_up(d, info)
      OBVIOUS
    <3>2. u \in GoodChannel
      BY <2>1, <3>1
    <3>3. AtTarget(u) \in GoodChannel
      BY <3>2, ZenonT(60) DEF GoodChannel, AtTarget
    <3> QED
      BY <3>1, <3>3
  <2> QED
    BY <1>2, <2>1, <2>2, <2>3, HoldsOn
<1> HIDE DEF Up, Down
<1>5. risen \in GoodChannel /\ Holds(c, risen, lo)
  <2>1. Holds(c, c, lo)
    BY DEF Holds, SameSettings
  <2> QED
    BY <1>4, <2>1
<1> HIDE DEF risen
<1>6. Holds(c, Down(risen), lo)
  BY <1>4, <1>5, HoldsOn
<1> QED
  BY <1>1, <1>5, <1>6

-----------------------------------------------------------------------------
(* The handlers of the tick loop, on a song whose notes and slides allow   *)
(* the lower limit lo.                                                     *)
Tame(lo) == Low(lo) /\ GentleAbove(song, lo)

LEMMA ReleaseGoes ==
  ASSUME NEW c \in GoodChannel, NEW lo
  PROVE  Goes(c, [c EXCEPT !.key = 0], lo) /\ [c EXCEPT !.key = 0].key = 0
BY DEF GoodChannel, Goes, Settled, Ranged

LEMMA VoiceReleased ==
  ASSUME NEW v, IsVoice(v), NEW lo
  PROVE  LET w == setfreq([v EXCEPT !.ch.key = 0])
         IN  Goes(v.ch, w.ch, lo) /\ w.ch.key = 0
<1>1. PICK c : c = [v.ch EXCEPT !.key = 0]
  OBVIOUS
<1>2. c \in GoodChannel /\ c.vol1 = v.ch.vol1 /\ c.vol2 = v.ch.vol2 /\ c.inst = v.ch.inst
  BY <1>1, VoiceFields DEF GoodChannel
<1>3. setfreq([v EXCEPT !.ch.key = 0]) = Slide(v, c)
  BY <1>1 DEF Slide
<1>4. Slide(v, c).ch = c
  BY <1>2, SlideKeeps
<1>5. Goes(v.ch, c, lo) /\ c.key = 0
  BY <1>1, VoiceFields, ReleaseGoes
<1> QED
  BY <1>3, <1>4, <1>5

LEMMA NotesAbove ==
  ASSUME NEW lo, Tame(lo), NEW n \in 1 .. 96
  PROVE  /\ NoteFreq(notetable, n) \in lo .. 1023
         /\ \A i \in DOMAIN inst : NoteFreq(notetable, n) + inst[i].slide \in lo .. 1023
<1>1. PICK k : k = (n - 1) % 12
  OBVIOUS
<1>2. k \in 0 .. 11 /\ NoteFreq(notetable, n) = song.notetable[k]
  BY <1>1 DEF NoteFreq, notetable
<1> QED
  BY <1>2 DEF Tame, GentleAbove, inst

LEMMA SetNoteGoes ==
  ASSUME Playable(song), NEW lo, Tame(lo), NEW v, IsVoice(v), NEW n \in Nat
  PROVE  /\ Goes(v.ch, setnote(v, n).ch, lo)
         /\ n = 127 => setnote(v, n).ch.key = 0
         /\ n # 127 => setnote(v, n).ch.freq \in lo .. 1023
<1>1. CASE n = 127
  <2>1. setnote(v, n) = setfreq([v EXCEPT !.ch.key = 0])
    BY <1>1 DEF setnote
  <2> QED
    BY <1>1, <2>1, VoiceReleased
<1>2. CASE n # 127
  <2>1. PICK m : m = Greatest(1, Least(96, n))
    OBVIOUS
  <2>2. m \in 1 .. 96
    BY <2>1 DEF Greatest, Least
  <2>3. PICK g : g = NoteFreq(notetable, m) + Ins(v).slide
    OBVIOUS
  <2>4. g \in lo .. 1023
    BY <2>2, <2>3, NotesAbove DEF IsVoice, Ins
  <2>5. lo \in Nat
    BY DEF Tame, Low, Lowest
  <2>6. g \in Nat /\ g < 65536
    BY <2>4, <2>5
  <2>7. Wrapped(g) = g
    BY <2>6, NoWrap
  <2>8. PICK o : o = NoteOct(m)
    OBVIOUS
  <2>9. PICK c : c = [v.ch EXCEPT !.freq = g, !.oct = o]
    OBVIOUS
  <2>10. g \in Word /\ o \in 0 .. 7
    <3>1. o \in 0 .. 7
      BY <2>2, <2>8 DEF NoteOct
    <3>2. Wrapped(g) \in Word
      BY <2>6, WordFacts
    <3> QED
      BY <2>7, <3>1, <3>2
  <2>11. v.ch \in GoodChannel
    BY VoiceFields
  <2>12. c \in GoodChannel /\ c.inst \in DOMAIN inst
    <3>1. c \in GoodChannel
      BY <2>9, <2>10, <2>11, ZenonT(60) DEF GoodChannel
    <3>2. c.inst = v.ch.inst
      BY <2>9, <2>11 DEF GoodChannel
    <3> QED
      BY <3>1, <3>2, VoiceFields
  <2>13. setnote(v, n) = [v EXCEPT !.ch = c]
    <3>1. setnote(v, n) = [v EXCEPT !.ch.freq = g, !.ch.oct = o]
      BY <1>2, <2>1, <2>3, <2>7, <2>8 DEF setnote
    <3>2. [v EXCEPT !.ch.freq = g, !.ch.oct = o] = [v EXCEPT !.ch = c]
      BY <2>9 DEF IsVoice
    <3> QED
      BY <3>1, <3>2
  <2>14. setnote(v, n).ch = c
    BY <2>12, <2>13, Rechannelled
  <2>15. SameSettings(v.ch, c) /\ c.freq = g /\ c.nextfreq = v.ch.nextfreq
    BY <2>9, <2>11 DEF GoodChannel, SameSettings
  <2>16. Goes(v.ch, c, lo)
    BY <2>4, <2>15, SettingsGo DEF Ranged
  <2> QED
    BY <1>2, <2>4, <2>14, <2>15, <2>16
<1> QED
  BY <1>1, <1>2

LEMMA VolumeMovesHold ==
  ASSUME NEW lo, NEW c \in GoodChannel, NEW a, NEW both
  PROVE  Holds(c, VolumeUp(c, a, both), lo) /\ Holds(c, VolumeDown(c, a, both), lo)
<1>1. ASSUME NEW x, NEW y PROVE Holds(c, [c EXCEPT !.vol1 = x, !.vol2 = y], lo)
  BY DEF GoodChannel, Holds, SameSettings, Ranged
<1> QED
  BY <1>1 DEF VolumeUp, VolumeDown

(* A handler that ends in setfreq() or setvolume().                        *)
LEMMA SlideGoes ==
  ASSUME NEW lo, NEW v, IsVoice(v), NEW c \in GoodChannel, SameSound(v.ch, c), Goes(v.ch, c, lo)
  PROVE  Goes(v.ch, Slide(v, c).ch, lo)
BY SlidePlays

LEMMA VolumeGoes ==
  ASSUME Playable(song), NEW lo, NEW v, IsVoice(v), NEW c \in GoodChannel, SameTune(v.ch, c),
         Holds(v.ch, c, lo)
  PROVE  Goes(v.ch, Volume(v, c).ch, lo)
<1>1. c.inst \in DOMAIN inst
  BY VoiceFields DEF SameTune
<1>2. Volume(v, c).ch = c
  BY <1>1, VolumeKeeps DEF SameTune
<1> QED
  BY <1>2, HoldsGoes

LEMMA VolumeMoveGoes ==
  ASSUME Playable(song), NEW lo, NEW v, IsVoice(v), NEW a \in Nat, NEW both
  PROVE  /\ Goes(v.ch, Volume(v, VolumeUp(v.ch, a, both)).ch, lo)
         /\ Goes(v.ch, Volume(v, VolumeDown(v.ch, a, both)).ch, lo)
<1>1. PICK c, d : c = VolumeUp(v.ch, a, both) /\ d = VolumeDown(v.ch, a, both)
  OBVIOUS
<1>2. /\ c \in GoodChannel /\ d \in GoodChannel /\ SameTune(v.ch, c) /\ SameTune(v.ch, d)
      /\ Holds(v.ch, c, lo) /\ Holds(v.ch, d, lo)
  BY <1>1, ChannelNumbers, VolumesMove, VolumeMovesHold
<1> QED
  BY <1>1, <1>2, VolumeGoes

LEMMA VolumeSlideGoes ==
  ASSUME Playable(song), NEW lo, NEW v, IsVoice(v), NEW both
  PROVE  Goes(v.ch, VolumeSlide(v, both).ch, lo) /\ Goes(v.ch, SlowVolumeSlide(v, both).ch, lo)
<1>1. Goes(v.ch, VolumeSlide(v, both).ch, lo)
  <2>1. v.ch.info1 \in Nat /\ v.ch.info2 \in Nat
    BY ChannelNumbers
  <2>2. CASE v.ch.info1 > 0
    <3>1. VolumeSlide(v, both) = Volume(v, VolumeUp(v.ch, v.ch.info1, both))
      BY <2>2 DEF VolumeSlide
    <3> QED
      BY <2>1, <3>1, VolumeMoveGoes
  <2>3. CASE ~(v.ch.info1 > 0)
    <3>1. VolumeSlide(v, both) = Volume(v, VolumeDown(v.ch, v.ch.info2, both))
      BY <2>3 DEF VolumeSlide
    <3> QED
      BY <2>1, <3>1, VolumeMoveGoes
  <2> QED
    BY <2>2, <2>3
<1> QED
  BY <1>1, GoesItself DEF SlowVolumeSlide

LEMMA PlayNoteGoes ==
  ASSUME Playable(song), NEW v, IsVoice(v), NEW lo
  PROVE  /\ Settled(v.ch, lo) => Settled(playnote(v).ch, lo)
         /\ Ranged(v.ch, lo) => Ranged(playnote(v).ch, lo)
         /\ playnote(v).ch.note = v.ch.note
<1>1. PICK u : u = [v EXCEPT !.ch.key = 1, !.bd = Ins(v).misc]
  OBVIOUS
<1>2. PICK c : c = [v.ch EXCEPT !.key = 1]
  OBVIOUS
<1>3. v.ch \in GoodChannel
  BY VoiceFields
<1>4. DOMAIN u = {"ch", "regbd", "fnum", "level", "bd"} /\ u.ch = c
  BY <1>1, <1>2 DEF IsVoice
<1>5. DOMAIN setfreq(u) = {"ch", "regbd", "fnum", "level", "bd"} /\ setfreq(u).ch = c
  BY <1>4 DEF setfreq
<1>6. PICK k : k = setfreq(u)
  OBVIOUS
<1>7. PICK w : w = IF "Faust" \in flags THEN [k EXCEPT !.ch.vol1 = 63, !.ch.vol2 = 63] ELSE k
  OBVIOUS
<1>8. /\ DOMAIN w = {"ch", "regbd", "fnum", "level", "bd"}
      /\ \/ w.ch = c \/ w.ch = [c EXCEPT !.vol1 = 63, !.vol2 = 63]
  BY <1>5, <1>6, <1>7
<1>9. setvolume(w).ch = w.ch
  BY <1>8 DEF setvolume
<1>10. playnote(v) = setvolume(w)
  BY <1>1, <1>6, <1>7 DEF playnote
<1>11. PICK d : d = w.ch
  OBVIOUS
<1>12. /\ d.fx = v.ch.fx /\ d.info1 = v.ch.info1 /\ d.info2 = v.ch.info2
       /\ d.portainfo = v.ch.portainfo /\ d.note = v.ch.note
       /\ d.freq = v.ch.freq /\ d.nextfreq = v.ch.nextfreq
  <2>1. CASE d = c
    BY <1>2, <1>3, <2>1 DEF GoodChannel
  <2>2. CASE d = [c EXCEPT !.vol1 = 63, !.vol2 = 63]
    BY <1>2, <1>3, <2>2 DEF GoodChannel
  <2> QED
    BY <1>8, <1>11, <2>1, <2>2
<1> QED
  BY <1>9, <1>10, <1>11, <1>12 DEF Settled, Ranged

LEMMA ArpCommandGoes ==
  ASSUME Playable(song), song.arp \in [Byte -> [cmd : Byte, list : Byte]], NEW v, IsVoice(v),
         NEW lo
  PROVE  Goes(v.ch, ArpCommand(v).ch, lo)
<1>1. v.ch \in GoodChannel /\ v.ch.arppos \in Byte
  BY VoiceFields DEF GoodChannel
<1>2. PICK cmd, list : cmd = arpcmd(v.ch.arppos) /\ list = arplist(v.ch.arppos)
  OBVIOUS
<1>3. cmd \in Byte /\ list \in Byte
  BY <1>1, <1>2 DEF arpcmd, arplist
<1>4. CASE cmd = 252
  <2>1. PICK vol : vol = Least(63, list)
    OBVIOUS
  <2>2. vol \in 0 .. 63
    <3>1. list \in Nat
      BY <1>3, ByteFacts
    <3> QED
      BY <2>1, <3>1 DEF Least
  <2>3. PICK c : c = [v.ch EXCEPT !.vol1 = vol, !.vol2 = vol]
    OBVIOUS
  <2>4. c \in GoodChannel
    BY <1>1, <2>2, <2>3, ZenonT(60) DEF GoodChannel
  <2>5. SameTune(v.ch, c) /\ Holds(v.ch, c, lo)
    BY <1>1, <2>3 DEF GoodChannel, SameTune, Holds, SameSettings, Ranged
  <2>6. ArpCommand(v) = Volume(v, c)
    BY <1>2, <1>4, <2>1, <2>3 DEF ArpCommand
  <2> QED
    BY <2>4, <2>5, <2>6, VolumeGoes
<1>5. CASE cmd = 253
  <2>1. ArpCommand(v) = setfreq([v EXCEPT !.ch.key = 0])
    BY <1>2, <1>5 DEF ArpCommand
  <2> QED
    BY <2>1, VoiceReleased
<1>6. CASE cmd = 254
  <2>1. PICK c : c = [v.ch EXCEPT !.arppos = list]
    OBVIOUS
  <2>2. Holds(v.ch, c, lo)
    BY <1>1, <2>1 DEF GoodChannel, Holds, SameSettings, Ranged
  <2>3. ArpCommand(v) = [v EXCEPT !.ch = c]
    <3>1. ArpCommand(v) = [v EXCEPT !.ch.arppos = list]
      BY <1>2, <1>6 DEF ArpCommand
    <3> QED
      BY <2>1, <3>1
  <2>4. ArpCommand(v).ch = c
    BY <2>3 DEF IsVoice
  <2> QED
    BY <2>2, <2>4, HoldsGoes
<1>7. CASE cmd \notin {252, 253, 254}
  <2>1. ArpCommand(v) = v
    BY <1>2, <1>7 DEF ArpCommand
  <2> QED
    BY <2>1, GoesItself
<1> QED
  BY <1>4, <1>5, <1>6, <1>7

LEMMA SpecialArpeggioGoes ==
  ASSUME Playable(song), NEW lo, Tame(lo), NEW v, IsVoice(v)
  PROVE  Goes(v.ch, SpecialArpeggio(v).ch, lo)
<1>1. v.ch \in GoodChannel
  BY VoiceFields
<1>2. CASE song.arp = <<>> \/ Ins(v).arpstart = 0
  <2>1. SpecialArpeggio(v) = v
    BY <1>2 DEF SpecialArpeggio
  <2> QED
    BY <2>1, GoesItself
<1>3. CASE ~(song.arp = <<>> \/ Ins(v).arpstart = 0) /\ v.ch.arpspdcnt > 0
  <2>1. PICK c : c = [v.ch EXCEPT !.arpspdcnt = v.ch.arpspdcnt - 1]
    OBVIOUS
  <2>2. Holds(v.ch, c, lo)
    BY <1>1, <2>1 DEF GoodChannel, Holds, SameSettings, Ranged
  <2>3. SpecialArpeggio(v).ch = c
    <3>1. SpecialArpeggio(v) = [v EXCEPT !.ch.arpspdcnt = @ - 1]
      BY <1>3 DEF SpecialArpeggio
    <3> QED
      BY <2>1, <3>1 DEF IsVoice
  <2> QED
    BY <2>2, <2>3, HoldsGoes
<1>4. CASE /\ ~(song.arp = <<>> \/ Ins(v).arpstart = 0)
           /\ ~(v.ch.arpspdcnt > 0) /\ arpcmd(v.ch.arppos) = 255
  <2>1. SpecialArpeggio(v) = v
    BY <1>4 DEF SpecialArpeggio
  <2> QED
    BY <2>1, GoesItself
<1>5. CASE /\ ~(song.arp = <<>> \/ Ins(v).arpstart = 0)
           /\ ~(v.ch.arpspdcnt > 0) /\ arpcmd(v.ch.arppos) # 255
  <2>0. song.arp \in [Byte -> [cmd : Byte, list : Byte]]
    BY <1>5, Zenon DEF Playable
  <2>1. PICK a : a = ArpCommand(v)
    OBVIOUS
  <2>2. IsVoice(a) /\ Goes(v.ch, a.ch, lo)
    BY <2>0, <2>1, ArpCommandKeeps, ArpCommandGoes DEF Keeps
  <2>3. PICK n : n = ArpNote(a)
    OBVIOUS
  <2>4. IsVoice(n) /\ Goes(a.ch, n.ch, lo)
    <3>1. IsVoice(n)
      BY <2>0, <2>2, <2>3, ArpNoteKeeps DEF Keeps
    <3>2. n = a \/ \E m \in Nat : n = setnote(a, m)
      BY <2>0, <2>2, <2>3, ArpNoteSets
    <3> QED
      BY <2>2, <3>1, <3>2, SetNoteGoes, GoesItself
  <2>5. PICK p : p = setfreq(n)
    OBVIOUS
  <2>6. IsVoice(p) /\ p.ch = n.ch
    BY <2>4, <2>5, Refretted
  <2>9. PICK x, y : /\ x = IF arpcmd(p.ch.arppos) = 255 THEN p.ch.arppos
                                                     ELSE (p.ch.arppos + 1) % 256
                    /\ y = (Ins(v).arpspeed - 1) % 256
    OBVIOUS
  <2>10. p.ch \in GoodChannel
    BY <2>6, VoiceFields
  <2>12. PICK c : c = [p.ch EXCEPT !.arppos = x, !.arpspdcnt = y]
    OBVIOUS
  <2>13. Holds(p.ch, c, lo)
    BY <2>10, <2>12 DEF GoodChannel, Holds, SameSettings, Ranged
  <2>14. SpecialArpeggio(v).ch = c
    <3>1. SpecialArpeggio(v) = [p EXCEPT !.ch.arppos = x, !.ch.arpspdcnt = y]
      BY <1>5, <2>1, <2>3, <2>5, <2>9 DEF SpecialArpeggio
    <3>2. [p EXCEPT !.ch.arppos = x, !.ch.arpspdcnt = y].ch = c
      BY <2>6, <2>12 DEF IsVoice
    <3> QED
      BY <3>1, <3>2
  <2>15. Goes(n.ch, c, lo)
    BY <2>6, <2>13, HoldsGoes
  <2>16. Goes(v.ch, n.ch, lo)
    BY <2>2, <2>4, GoesOn
  <2> QED
    BY <2>14, <2>15, <2>16, GoesOn
<1> QED
  BY <1>2, <1>3, <1>4, <1>5

LEMMA ArpeggioGoes ==
  ASSUME Playable(song), NEW lo, Tame(lo), NEW v, IsVoice(v)
  PROVE  Goes(v.ch, Arpeggio(v).ch, lo)
<1>1. PICK t : t = IF v.ch.trigger < 2 THEN v.ch.trigger + 1 ELSE 0
  OBVIOUS
<1>2. t \in 0 .. 2
  BY <1>1, ChannelNumbers
<1>3. PICK c : c = [v.ch EXCEPT !.trigger = t]
  OBVIOUS
<1>4. /\ c \in GoodChannel /\ c.inst \in DOMAIN inst
      /\ Holds(v.ch, c, lo)
  <2>1. v.ch \in GoodChannel /\ t \in 0 .. 63 /\ v.ch.inst \in DOMAIN inst
    BY <1>2, VoiceFields
  <2> QED
    BY <1>3, <2>1 DEF GoodChannel, Holds, SameSettings, Ranged
<1>5. PICK u : u = [v EXCEPT !.ch = c]
  OBVIOUS
<1>6. IsVoice(u) /\ u.ch = c
  BY <1>4, <1>5, Rechannelled
<1>7. PICK n : n = v.ch.note + << 0, v.ch.info1, v.ch.info2 >>[t + 1]
  OBVIOUS
<1>8. n \in Nat
  <2>1. v.ch.note \in Nat /\ v.ch.info1 \in Nat /\ v.ch.info2 \in Nat
    BY ChannelNumbers
  <2>2. << 0, v.ch.info1, v.ch.info2 >>[t + 1] \in Nat
    BY <1>2, <2>1
  <2> QED
    BY <1>7, <2>1, <2>2
<1>9. PICK w : w = setnote(u, n)
  OBVIOUS
<1>10. IsVoice(w) /\ Goes(c, w.ch, lo)
  BY <1>6, <1>8, <1>9, SetNoteKeeps, SetNoteGoes DEF Keeps
<1>11. Arpeggio(v) = setfreq(w)
  <2>1. [v EXCEPT !.ch.trigger = t] = u
    BY <1>3, <1>5
  <2> QED
    BY <1>1, <1>7, <1>9, <2>1 DEF Arpeggio
<1>12. Arpeggio(v).ch = w.ch
  BY <1>10, <1>11, Refretted
<1> QED
  BY <1>4, <1>10, <1>12, HoldsGoes, GoesOn

LEMMA TonePortamentoGoes ==
  ASSUME NEW lo, Low(lo), NEW v, IsVoice(v), Settled(v.ch, lo)
  PROVE  Goes(v.ch, TonePortamento(v).ch, lo)
<1>1. PICK c : c = tone_portamento(v.ch, v.ch.portainfo)
  OBVIOUS
<1>2. c \in GoodChannel /\ SameSound(v.ch, c)
  BY <1>1, ChannelNumbers, TonePortamentos
<1>3. v.ch.portainfo \in Nat /\ 2 * v.ch.portainfo <= lo
  BY ChannelNumbers DEF Settled
<1>4. Holds(v.ch, c, lo)
  BY <1>1, <1>3, VoiceFields, TonePortamentosHold
<1>5. TonePortamento(v) = Slide(v, c)
  BY <1>1 DEF TonePortamento
<1> QED
  BY <1>2, <1>4, <1>5, SlideGoes, HoldsGoes

LEMMA VibratoGoes ==
  ASSUME NEW lo, Low(lo), NEW v, IsVoice(v)
  PROVE  Goes(v.ch, Vibrato(v).ch, lo)
<1>1. CASE v.ch.vibinfo1 = 0 \/ v.ch.vibinfo2 = 0
  BY <1>1, GoesItself DEF Vibrato
<1>2. CASE ~(v.ch.vibinfo1 = 0 \/ v.ch.vibinfo2 = 0)
  <2>1. PICK c : c = vibrato(v.ch, v.ch.vibinfo1, v.ch.vibinfo2)
    OBVIOUS
  <2>2. c \in GoodChannel /\ SameSound(v.ch, c)
    BY <2>1, ChannelNumbers, Vibratos
  <2>3. v.ch.vibinfo1 \in Nat /\ v.ch.vibinfo2 \in Nat \ {0} /\ v.ch \in GoodChannel
    BY <1>2, ChannelNumbers
  <2>4. Holds(v.ch, c, lo)
    BY <2>1, <2>3, VibratosHold
  <2>5. Vibrato(v) = Slide(v, c)
    BY <1>2, <2>1 DEF Vibrato
  <2> QED
    BY <2>2, <2>4, <2>5, SlideGoes, HoldsGoes
<1> QED
  BY <1>1, <1>2

(* Command 28 alters its own parameters as it slides.                      *)
SameButInfo(c, d) ==
  d.note = c.note /\ d.key = c.key /\ d.fx = c.fx /\ d.portainfo = c.portainfo

LEMMA FrameSlideGoes ==
  ASSUME NEW lo, Low(lo), NEW v, IsVoice(v), v.ch.fx = 28
  PROVE  Goes(v.ch, FrameSlide(v).ch, lo)
<1> DEFINE up(c) == IF c.info1 > 0 THEN [slide_up(c, 1) EXCEPT !.info1 = @ - 1] ELSE c
           down(c) == IF c.info2 > 0 THEN [slide_down(c, 1) EXCEPT !.info2 = @ - 1] ELSE c
           Moves(c, d) == /\ d \in GoodChannel /\ SameSound(c, d) /\ SameButInfo(c, d)
                          /\ Ranged(c, lo) => Ranged(d, lo)
<1>1. ASSUME NEW c \in GoodChannel, c.info1 > 0
      PROVE  Moves(c, [c EXCEPT !.info1 = @ - 1])
  <2>1. c.info1 - 1 \in Byte
    BY <1>1, ByteFacts DEF GoodChannel
  <2>2. [c EXCEPT !.info1 = @ - 1] \in GoodChannel /\ SameSound(c, [c EXCEPT !.info1 = @ - 1])
    BY <2>1 DEF GoodChannel, SameSound
  <2>3. /\ SameButInfo(c, [c EXCEPT !.info1 = @ - 1])
        /\ Ranged(c, lo) => Ranged([c EXCEPT !.info1 = @ - 1], lo)
    BY DEF GoodChannel, SameButInfo, Ranged
  <2> QED
    BY <2>2, <2>3
<1>2. ASSUME NEW c \in GoodChannel, c.info2 > 0
      PROVE  Moves(c, [c EXCEPT !.info2 = @ - 1])
  <2>1. c.info2 - 1 \in Byte
    BY <1>2, ByteFacts DEF GoodChannel
  <2>2. [c EXCEPT !.info2 = @ - 1] \in GoodChannel /\ SameSound(c, [c EXCEPT !.info2 = @ - 1])
    BY <2>1 DEF GoodChannel, SameSound
  <2>3. /\ SameButInfo(c, [c EXCEPT !.info2 = @ - 1])
        /\ Ranged(c, lo) => Ranged([c EXCEPT !.info2 = @ - 1], lo)
    BY DEF GoodChannel, SameButInfo, Ranged
  <2> QED
    BY <2>2, <2>3
<1>3. ASSUME NEW c, NEW d, NEW e, Moves(c, d), Moves(d, e)
      PROVE  Moves(c, e)
  BY <1>3 DEF SameSound, SameButInfo
<1>4. ASSUME NEW c \in GoodChannel
      PROVE  Moves(c, slide_up(c, 1)) /\ Moves(c, slide_down(c, 1)) /\ Moves(c, c)
  <2>1. 2 * 1 <= lo
    BY DEF Low
  <2>2. Holds(c, slide_up(c, 1), lo) /\ Holds(c, slide_down(c, 1), lo)
    BY <2>1, SlidesHold
  <2> QED
    BY <2>2, SlidesUp, SlidesDown DEF Holds, SameSettings, SameButInfo, SameSound
<1>5. ASSUME NEW c \in GoodChannel
      PROVE  /\ slide_up(c, 1).info1 = c.info1 /\ slide_down(c, 1).info2 = c.info2
  BY DEF GoodChannel, slide_up, slide_down
<1> HIDE DEF Moves
<1>6. ASSUME NEW c \in GoodChannel PROVE Moves(c, up(c))
  <2>1. PICK d : d = slide_up(c, 1)
    OBVIOUS
  <2>2. d \in GoodChannel /\ Moves(c, d) /\ d.info1 = c.info1
    BY <1>4, <1>5, <2>1 DEF Moves
  <2>3. CASE c.info1 > 0
    <3>1. Moves(d, [d EXCEPT !.info1 = @ - 1])
      BY <1>1, <2>2, <2>3
    <3> QED
      BY <1>3, <2>1, <2>2, <2>3, <3>1
  <2> QED
    BY <1>4, <2>3
<1>7. ASSUME NEW c \in GoodChannel PROVE Moves(c, down(c))
  <2>1. PICK d : d = slide_down(c, 1)
    OBVIOUS
  <2>2. d \in GoodChannel /\ Moves(c, d) /\ d.info2 = c.info2
    BY <1>4, <1>5, <2>1 DEF Moves
  <2>3. CASE c.info2 > 0
    <3>1. Moves(d, [d EXCEPT !.info2 = @ - 1])
      BY <1>2, <2>2, <2>3
    <3> QED
      BY <1>3, <2>1, <2>2, <2>3, <3>1
  <2> QED
    BY <1>4, <2>3
<1>8. FrameSlide(v) = Slide(v, down(up(v.ch)))
  BY DEF FrameSlide
<1> HIDE DEF up, down
<1>9. PICK c : c = up(v.ch)
  OBVIOUS
<1>10. PICK d : d = down(c)
  OBVIOUS
<1>11. Moves(v.ch, c) /\ c \in GoodChannel
  BY <1>6, <1>9, VoiceFields DEF Moves
<1>12. Moves(v.ch, d)
  BY <1>3, <1>7, <1>10, <1>11
<1>13. Goes(v.ch, d, lo)
  BY <1>12 DEF Moves, SameButInfo, Goes, Settled
<1>14. d \in GoodChannel /\ SameSound(v.ch, d)
  BY <1>12 DEF Moves
<1> QED
  BY <1>8, <1>9, <1>10, <1>13, <1>14, SlideGoes

LEMMA TickCommandGoes ==
  ASSUME Playable(song), NEW lo, Tame(lo), NEW v, IsVoice(v), Settled(v.ch, lo)
  PROVE  Goes(v.ch, TickCommand(v).ch, lo)
<1>1. PICK fx, info : fx = v.ch.fx /\ info = InfoOf(v.ch.info1, v.ch.info2)
  OBVIOUS
<1>2. fx \in Nat /\ info \in Nat /\ info <= 255
  <2>1. info \in Byte
    BY <1>1, ChannelNumbers, InfoIsNat
  <2> QED
    BY <1>1, <2>1, ChannelNumbers, ByteFacts DEF Byte
<1>0. Low(lo)
  BY DEF Tame
<1>3. CASE fx = 0
  <2>1. TickCommand(v) = IF info > 0 THEN Arpeggio(v) ELSE v
    BY <1>1, <1>3 DEF TickCommand
  <2> QED
    BY <2>1, ArpeggioGoes, GoesItself
<1>4. CASE fx \in {1, 2}
  <2>1. fx = 1 => TickCommand(v) = Slide(v, slide_up(v.ch, info))
    BY <1>1 DEF TickCommand
  <2>2. fx = 2 => TickCommand(v) = Slide(v, slide_down(v.ch, info))
    BY <1>1 DEF TickCommand
  <2>3. PICK c : c = IF fx = 1 THEN slide_up(v.ch, info) ELSE slide_down(v.ch, info)
    OBVIOUS
  <2>4. c \in GoodChannel /\ SameSound(v.ch, c)
    BY <1>2, <2>3, ChannelNumbers, SlidesUp, SlidesDown
  <2>5. TickCommand(v) = Slide(v, c)
    BY <1>4, <2>1, <2>2, <2>3
  <2>6. fx = 2 => 2 * info <= lo
    BY <1>1 DEF Settled
  <2>7. v.ch \in GoodChannel
    BY VoiceFields
  <2>8. Holds(v.ch, c, lo)
    BY <1>0, <1>2, <1>4, <2>3, <2>6, <2>7, SlidesHold
  <2> QED
    BY <2>4, <2>5, <2>8, SlideGoes, HoldsGoes
<1>5. CASE fx \in {3, 5}
  <2>1. fx = 3 => TickCommand(v) = TonePortamento(v)
    BY <1>1 DEF TickCommand
  <2>2. fx = 5 => TickCommand(v) = SlowVolumeSlide(TonePortamento(v), TRUE)
    BY <1>1 DEF TickCommand
  <2>3. PICK u : u = TonePortamento(v)
    OBVIOUS
  <2>4. Goes(v.ch, u.ch, lo) /\ IsVoice(u)
    BY <1>0, <2>3, TonePortamentoPlays, TonePortamentoGoes
  <2>5. Goes(v.ch, SlowVolumeSlide(u, TRUE).ch, lo)
    BY <2>4, VolumeSlideGoes, GoesOn
  <2> QED
    BY <1>5, <2>1, <2>2, <2>3, <2>4, <2>5
<1>6. CASE fx \in {4, 6}
  <2>1. fx = 4 => TickCommand(v) = Vibrato(v)
    BY <1>1 DEF TickCommand
  <2>2. fx = 6 => TickCommand(v) = SlowVolumeSlide(Vibrato(v), TRUE)
    BY <1>1 DEF TickCommand
  <2>3. PICK u : u = Vibrato(v)
    OBVIOUS
  <2>4. Goes(v.ch, u.ch, lo) /\ IsVoice(u)
    BY <1>0, <2>3, VibratoPlays, VibratoGoes
  <2>5. Goes(v.ch, SlowVolumeSlide(u, TRUE).ch, lo)
    BY <2>4, VolumeSlideGoes, GoesOn
  <2> QED
    BY <1>6, <2>1, <2>2, <2>3, <2>4, <2>5
<1>7. CASE fx \in {10, 16, 26}
  <2>1. fx = 10 => TickCommand(v) = SlowVolumeSlide(v, TRUE)
    BY <1>1 DEF TickCommand
  <2>2. fx = 16 => TickCommand(v) = SlowVolumeSlide(v, Additive(v))
    BY <1>1 DEF TickCommand
  <2>3. fx = 26 => TickCommand(v) = VolumeSlide(v, TRUE)
    BY <1>1 DEF TickCommand
  <2> QED
    BY <1>7, <2>1, <2>2, <2>3, VolumeSlideGoes
<1>8. CASE fx = 14
  <2>1. \/ TickCommand(v) = playnote(v) /\ v.ch.info1 = 3
        \/ TickCommand(v) = v
    BY <1>1, <1>8 DEF TickCommand
  <2>2. v.ch.info1 = 3 => Retriggering(song)
    BY <1>1, <1>8 DEF Settled
  <2> QED
    BY <2>1, <2>2, PlayNoteGoes, GoesItself DEF Goes
<1>9. CASE fx = 20
  <2>1. TickCommand(v) = Volume(v, IF info < 50 THEN VolumeDown(v.ch, info, Additive(v))
                                               ELSE VolumeUp(v.ch, info - 50, Additive(v)))
    BY <1>1, <1>9 DEF TickCommand
  <2>2. CASE info < 50
    BY <1>2, <2>1, <2>2, VolumeMoveGoes
  <2>3. CASE ~(info < 50)
    <3>1. info - 50 \in Nat
      BY <1>2, <2>3
    <3> QED
      BY <2>1, <2>3, <3>1, VolumeMoveGoes
  <2> QED
    BY <2>2, <2>3
<1>10. CASE fx = 28
  <2>1. TickCommand(v) = FrameSlide(v)
    BY <1>1, <1>10 DEF TickCommand
  <2> QED
    BY <1>0, <1>1, <1>10, <2>1, FrameSlideGoes
<1>11. CASE fx \notin {0, 1, 2, 3, 4, 5, 6, 10, 14, 16, 20, 26, 28}
  <2>1. TickCommand(v) = v
    BY <1>1, <1>11 DEF TickCommand
  <2> QED
    BY <2>1, GoesItself
<1> QED
  BY <1>3, <1>4, <1>5, <1>6, <1>7, <1>8, <1>9, <1>10, <1>11

-----------------------------------------------------------------------------
(* The handlers of the row loop, on a cell that the song plays.            *)
Played(cell) == GoodCell(cell) /\ cell \in PlayedCells(song)

LEMMA CellIsGentle ==
  ASSUME NEW lo, Tame(lo), NEW cell, Played(cell)
  PROVE  /\ cell.command \in {2, 3, 24} => 2 * InfoOf(cell.param1, cell.param2) <= lo
         /\ cell.command = 14 /\ cell.param1 = 7 => 2 * cell.param2 <= lo
         /\ cell.command = 14 /\ cell.param1 = 3 => Retriggering(song)
         /\ cell.note = 127 => Releasing(song)
<1>1. GentleCell(song, cell, lo)
  BY DEF Tame, GentleAbove, Played
<1>2. Amount(song, cell) = InfoOf(cell.param1, cell.param2)
  BY DEF Amount, InfoOf, flags
<1> QED
  BY <1>1, <1>2 DEF GentleCell, Played, Retriggering, Releasing

LEMMA LoadInstrumentHolds ==
  ASSUME Playable(song), NEW lo, NEW v, IsVoice(v), NEW cell, GoodCell(cell)
  PROVE  Holds(v.ch, LoadInstrument(v, cell).ch, lo)
<1>1. CASE cell.inst = 0
  BY <1>1 DEF LoadInstrument, Holds, SameSettings
<1>2. CASE cell.inst # 0
  <2>1. PICK i : i = cell.inst - 1
    OBVIOUS
  <2>2. PICK c : c = [v.ch EXCEPT !.inst = i]
    OBVIOUS
  <2>3. v.ch \in GoodChannel
    BY VoiceFields
  <2>4. Holds(v.ch, c, lo)
    BY <2>2, <2>3 DEF GoodChannel, Holds, SameSettings, Ranged
  <2>5. PICK u : u = [v EXCEPT !.ch = c]
    OBVIOUS
  <2>6. /\ u.ch = c /\ u = [v EXCEPT !.ch.inst = cell.inst - 1]
        /\ DOMAIN u = {"ch", "regbd", "fnum", "level", "bd"}
    BY <2>1, <2>2, <2>5 DEF IsVoice
  <2>7. CASE "Faust" \in flags
    <3>1. LoadInstrument(v, cell) = u
      BY <1>2, <2>6, <2>7 DEF LoadInstrument
    <3> QED
      BY <2>4, <2>6, <3>1
  <2>8. CASE "Faust" \notin flags
    <3>1. PICK x, y : x = 63 - Level(inst[i].data[10]) /\ y = 63 - Level(inst[i].data[9])
      OBVIOUS
    <3>2. PICK d : d = [c EXCEPT !.vol1 = x, !.vol2 = y]
      OBVIOUS
    <3>3. DOMAIN c = DOMAIN v.ch
      BY <2>2
    <3>4. Holds(c, d, lo)
      BY <2>2, <2>3, <3>2 DEF GoodChannel, Holds, SameSettings, Ranged
    <3>5. LoadInstrument(v, cell) = Volume(u, d)
      BY <1>2, <2>1, <2>6, <2>8, <3>1, <3>2 DEF LoadInstrument
    <3>6. Volume(u, d).ch = d
      BY <2>6 DEF Volume, setvolume
    <3> QED
      BY <2>4, <3>4, <3>5, <3>6, HoldsOn
  <2> QED
    BY <2>7, <2>8
<1> QED
  BY <1>1, <1>2

LEMMA StartNoteFits ==
  ASSUME Playable(song), NEW lo, Tame(lo), ~(Retriggering(song) /\ Releasing(song)),
         NEW v, IsVoice(v), Fits(v.ch, lo), NEW cell, Played(cell)
  PROVE  /\ Fits(StartNote(v, cell).ch, lo)
         /\ StartsNote(cell) /\ cell.note # 127 => Ranged(StartNote(v, cell).ch, lo)
<1>1. CASE ~StartsNote(cell)
  BY <1>1 DEF StartNote
<1>2. CASE StartsNote(cell)
  <2>1. PICK c : c = [v.ch EXCEPT !.note = cell.note]
    OBVIOUS
  <2>2. /\ v.ch \in GoodChannel /\ cell.note \in 0 .. 127 /\ cell.note \in Nat
        /\ v.ch.inst \in DOMAIN inst
    BY VoiceFields, CellFacts DEF Played
  <2>3. c \in GoodChannel /\ c.inst \in DOMAIN inst /\ (Settled(v.ch, lo) => Settled(c, lo))
    BY <2>1, <2>2 DEF GoodChannel, Settled
  <2>4. PICK u : u = [v EXCEPT !.ch = c]
    OBVIOUS
  <2>5. IsVoice(u) /\ u.ch = c
    BY <2>3, <2>4, Rechannelled
  <2>6. PICK n : n = setnote(u, cell.note)
    OBVIOUS
  <2>7. /\ IsVoice(n) /\ Goes(c, n.ch, lo)
        /\ cell.note = 127 => n.ch.key = 0
        /\ cell.note # 127 => n.ch.freq \in lo .. 1023
    BY <2>2, <2>5, <2>6, SetNoteKeeps, SetNoteGoes DEF Keeps
  <2>8. n.ch \in GoodChannel
    BY <2>7, VoiceFields
  <2>9. PICK f, o, a : f = n.ch.freq /\ o = n.ch.oct /\ a = Ins(v).arpstart
    OBVIOUS
  <2>10. PICK e : e = [n.ch EXCEPT !.nextfreq = f, !.nextoct = o]
    OBVIOUS
  <2>11. PICK d : d = [e EXCEPT !.arppos = a, !.arpspdcnt = 0]
    OBVIOUS
  <2>12. /\ d.note = n.ch.note /\ d.key = n.ch.key /\ d.fx = n.ch.fx
         /\ d.info1 = n.ch.info1 /\ d.info2 = n.ch.info2 /\ d.portainfo = n.ch.portainfo
         /\ d.freq = f /\ d.nextfreq = f
    <3>1. /\ e.note = n.ch.note /\ e.key = n.ch.key /\ e.fx = n.ch.fx
          /\ e.info1 = n.ch.info1 /\ e.info2 = n.ch.info2 /\ e.portainfo = n.ch.portainfo
          /\ e.freq = f /\ e.nextfreq = f /\ DOMAIN e = DOMAIN n.ch
      BY <2>8, <2>9, <2>10 DEF GoodChannel
    <3> QED
      BY <2>8, <2>11, <3>1 DEF GoodChannel
  <2>13. StartNote(v, cell).ch = d
    <3>1. [v EXCEPT !.ch.note = cell.note] = u
      BY <2>1, <2>4
    <3>2. StartNote(v, cell) = [n EXCEPT !.ch.nextfreq = f, !.ch.nextoct = o,
                                         !.ch.arppos = a, !.ch.arpspdcnt = 0]
      BY <1>2, <2>6, <2>9, <3>1 DEF StartNote
    <3>3. [n EXCEPT !.ch.nextfreq = f, !.ch.nextoct = o,
                    !.ch.arppos = a, !.ch.arpspdcnt = 0] = [n EXCEPT !.ch = d]
      BY <2>7, <2>10, <2>11 DEF IsVoice
    <3>4. [n EXCEPT !.ch = d].ch = d
      BY <2>7 DEF IsVoice
    <3> QED
      BY <3>2, <3>3, <3>4
  <2>14. Settled(d, lo)
    <3>1. Settled(n.ch, lo)
      BY <2>3, <2>7 DEF Fits, Goes
    <3> QED
      BY <2>12, <3>1 DEF Settled
  <2>15. CASE cell.note # 127
    <3>1. Ranged(d, lo)
      BY <2>7, <2>9, <2>12, <2>15 DEF Ranged
    <3> QED
      BY <2>13, <2>14, <3>1 DEF Fits
  <2>16. CASE cell.note = 127
    <3>1. ~Retriggering(song)
      BY <2>16, CellIsGentle
    <3>2. d.key = 0
      BY <2>7, <2>12, <2>16
    <3>3. ~Heard(d)
      BY <3>1, <3>2 DEF Heard
    <3> QED
      BY <2>13, <2>14, <2>16, <3>3 DEF Fits
  <2> QED
    BY <2>15, <2>16
<1> QED
  BY <1>1, <1>2

LEMMA SetCommandFits ==
  ASSUME NEW lo, Tame(lo), NEW v, IsVoice(v), Fits(v.ch, lo), NEW cell, Played(cell)
  PROVE  /\ Fits(SetCommand(v, cell).ch, lo)
         /\ Ranged(v.ch, lo) => Ranged(SetCommand(v, cell).ch, lo)
<1>1. PICK f, x, y : f = cell.command /\ x = cell.param1 /\ y = cell.param2
  OBVIOUS
<1>2. v.ch \in GoodChannel
  BY VoiceFields
<1>3. PICK e : e = [v.ch EXCEPT !.fx = f]
  OBVIOUS
<1>4. PICK d : d = [e EXCEPT !.info1 = x, !.info2 = y]
  OBVIOUS
<1>5. /\ d.fx = f /\ d.info1 = x /\ d.info2 = y
      /\ d.note = v.ch.note /\ d.key = v.ch.key /\ d.portainfo = v.ch.portainfo
      /\ d.freq = v.ch.freq /\ d.nextfreq = v.ch.nextfreq
  BY <1>2, <1>3, <1>4 DEF GoodChannel
<1>6. SetCommand(v, cell).ch = d
  <2>1. SetCommand(v, cell) = [v EXCEPT !.ch.fx = f, !.ch.info1 = x, !.ch.info2 = y]
    BY <1>1 DEF SetCommand
  <2>2. [v EXCEPT !.ch.fx = f, !.ch.info1 = x, !.ch.info2 = y] = [v EXCEPT !.ch = d]
    BY <1>3, <1>4 DEF IsVoice
  <2>3. [v EXCEPT !.ch = d].ch = d
    BY DEF IsVoice
  <2> QED
    BY <2>1, <2>2, <2>3
<1>7. Settled(d, lo)
  <2>1. /\ f = 2 => 2 * InfoOf(x, y) <= lo
        /\ f = 14 /\ x = 3 => Retriggering(song)
    BY <1>1, CellIsGentle
  <2> QED
    BY <1>5, <2>1 DEF Settled, Fits
<1>8. (Heard(d) => Heard(v.ch)) /\ (Ranged(v.ch, lo) => Ranged(d, lo))
  BY <1>5 DEF Heard, Ranged
<1> QED
  BY <1>6, <1>7, <1>8 DEF Fits

LEMMA PortamentoTargetHolds ==
  ASSUME NEW lo, Tame(lo), NEW v, IsVoice(v), NEW n \in Nat, n <= 96 \/ n = 127
  PROVE  Holds(v.ch, PortamentoTarget(v, n).ch, lo)
<1>1. v.ch \in GoodChannel
  BY VoiceFields
<1>2. ASSUME NEW f, NEW o, v.ch.freq \in lo .. 1023 => f \in lo .. 1023
      PROVE  Holds(v.ch, [v EXCEPT !.ch.nextfreq = f, !.ch.nextoct = o].ch, lo)
  <2>1. PICK c : c = [v.ch EXCEPT !.nextfreq = f, !.nextoct = o]
    OBVIOUS
  <2>2. Holds(v.ch, c, lo)
    BY <1>1, <1>2, <2>1 DEF GoodChannel, Holds, SameSettings, Ranged
  <2>3. [v EXCEPT !.ch.nextfreq = f, !.ch.nextoct = o].ch = c
    BY <2>1 DEF IsVoice
  <2> QED
    BY <2>2, <2>3
<1>3. CASE n = 0
  <2>1. PortamentoTarget(v, n) = v
    BY <1>3 DEF PortamentoTarget
  <2> QED
    BY <2>1 DEF Holds, SameSettings
<1>4. CASE n = 127
  <2>1. PICK f, o : f = v.ch.freq /\ o = v.ch.oct
    OBVIOUS
  <2>2. PortamentoTarget(v, n) = [v EXCEPT !.ch.nextfreq = f, !.ch.nextoct = o]
    BY <1>4, <2>1 DEF PortamentoTarget
  <2>3. v.ch.freq \in lo .. 1023 => f \in lo .. 1023
    BY <2>1
  <2>4. Holds(v.ch, [v EXCEPT !.ch.nextfreq = f, !.ch.nextoct = o].ch, lo)
    BY <1>2, <2>3, ZenonT(30)
  <2> QED
    BY <2>2, <2>4, Zenon
<1>5. CASE n # 0 /\ n # 127
  <2>1. PICK f, o : f = NoteFreq(notetable, n) /\ o = NoteOct(n)
    OBVIOUS
  <2>2. n \in 1 .. 96
    BY <1>5
  <2>3. f \in lo .. 1023
    BY <2>1, <2>2, NotesAbove
  <2>4. PortamentoTarget(v, n) = [v EXCEPT !.ch.nextfreq = f, !.ch.nextoct = o]
    BY <1>5, <2>1 DEF PortamentoTarget
  <2>5. Holds(v.ch, [v EXCEPT !.ch.nextfreq = f, !.ch.nextoct = o].ch, lo)
    BY <1>2, <2>3, ZenonT(30)
  <2> QED
    BY <2>4, <2>5, Zenon
<1> QED
  BY <1>3, <1>4, <1>5

LEMMA SlideMoveGoes ==
  ASSUME NEW lo, Low(lo), NEW v, IsVoice(v), NEW a \in Nat
  PROVE  /\ a <= 255 => Goes(v.ch, Slide(v, slide_up(v.ch, a)).ch, lo)
         /\ 2 * a <= lo => Goes(v.ch, Slide(v, slide_down(v.ch, a)).ch, lo)
<1>1. PICK c, d : c = slide_up(v.ch, a) /\ d = slide_down(v.ch, a)
  OBVIOUS
<1>2. v.ch \in GoodChannel
  BY VoiceFields
<1>3. c \in GoodChannel /\ d \in GoodChannel /\ SameSound(v.ch, c) /\ SameSound(v.ch, d)
  BY <1>1, <1>2, SlidesUp, SlidesDown
<1>4. (a <= 255 => Holds(v.ch, c, lo)) /\ (2 * a <= lo => Holds(v.ch, d, lo))
  BY <1>1, <1>2, SlidesHold
<1> QED
  BY <1>1, <1>3, <1>4, SlideGoes, HoldsGoes

LEMMA VolumeSetGoes ==
  ASSUME Playable(song), NEW lo, NEW v, IsVoice(v), NEW x \in 0 .. 63
  PROVE  /\ Goes(v.ch, Volume(v, [v.ch EXCEPT !.vol1 = x]).ch, lo)
         /\ Goes(v.ch, Volume(v, [v.ch EXCEPT !.vol2 = x]).ch, lo)
         /\ Goes(v.ch, Volume(v, [v.ch EXCEPT !.vol1 = x, !.vol2 = x]).ch, lo)
<1>1. v.ch \in GoodChannel
  BY VoiceFields
<1>2. PICK c, d, e : /\ c = [v.ch EXCEPT !.vol1 = x] /\ d = [v.ch EXCEPT !.vol2 = x]
                     /\ e = [v.ch EXCEPT !.vol1 = x, !.vol2 = x]
  OBVIOUS
<1>3. c \in GoodChannel /\ d \in GoodChannel
  BY <1>1, <1>2 DEF GoodChannel
<1>4. e \in GoodChannel
  BY <1>1, <1>2, ZenonT(60) DEF GoodChannel
<1>5. SameTune(v.ch, c) /\ SameTune(v.ch, d) /\ SameTune(v.ch, e)
  BY <1>1, <1>2 DEF GoodChannel, SameTune
<1>6. Holds(v.ch, c, lo) /\ Holds(v.ch, d, lo) /\ Holds(v.ch, e, lo)
  BY <1>1, <1>2 DEF GoodChannel, Holds, SameSettings, Ranged
<1> QED
  BY <1>2, <1>3, <1>4, <1>5, <1>6, VolumeGoes

LEMMA SetDepthGoes ==
  ASSUME NEW lo, NEW v, IsVoice(v), NEW tremolo, NEW vib
  PROVE  Goes(v.ch, SetDepth(v, tremolo, vib).ch, lo)
<1>1. SetDepth(v, tremolo, vib).ch = v.ch
  BY DEF SetDepth, IsVoice
<1> QED
  BY <1>1, GoesItself

LEMMA ExtendedCommandGoes ==
  ASSUME Playable(song), NEW lo, Low(lo), NEW v, IsVoice(v), NEW x \in Nat, NEW y \in Byte,
         x = 7 => 2 * y <= lo
  PROVE  Goes(v.ch, ExtendedCommand(v, x, y).ch, lo)
<1>0. y \in Nat /\ y <= 255
  BY ByteFacts DEF Byte
<1>1. CASE x \in {0, 1}
  <2>1. /\ x = 0 => ExtendedCommand(v, x, y) = SetDepth(v, y # 0, HasVibrato(v.regbd))
        /\ x = 1 => ExtendedCommand(v, x, y) = SetDepth(v, HasTremolo(v.regbd), y # 0)
    BY DEF ExtendedCommand
  <2> QED
    BY <1>1, <2>1, SetDepthGoes
<1>2. CASE x \in {4, 5}
  <2>1. /\ x = 4 => ExtendedCommand(v, x, y) = Volume(v, VolumeUp(v.ch, y, Additive(v)))
        /\ x = 5 => ExtendedCommand(v, x, y) = Volume(v, VolumeDown(v.ch, y, Additive(v)))
    BY DEF ExtendedCommand
  <2> QED
    BY <1>0, <1>2, <2>1, VolumeMoveGoes
<1>3. CASE x \in {6, 7}
  <2>1. /\ x = 6 => ExtendedCommand(v, x, y) = Slide(v, slide_up(v.ch, y))
        /\ x = 7 => ExtendedCommand(v, x, y) = Slide(v, slide_down(v.ch, y))
    BY DEF ExtendedCommand
  <2> QED
    BY <1>0, <1>3, <2>1, SlideMoveGoes
<1>4. CASE x \notin {0, 1, 4, 5, 6, 7}
  <2>1. ExtendedCommand(v, x, y) = v
    BY <1>4 DEF ExtendedCommand
  <2> QED
    BY <2>1, GoesItself
<1> QED
  BY <1>1, <1>2, <1>3, <1>4

LEMMA RowCommandGoes ==
  ASSUME Playable(song), NEW lo, Tame(lo), NEW v, IsVoice(v), NEW cell, Played(cell)
  PROVE  Goes(v.ch, RowCommand(v, cell).ch, lo)
<1>0. Low(lo) /\ GoodCell(cell)
  BY DEF Tame, Played
<1>1. PICK fx, x, y : fx = cell.command /\ x = cell.param1 /\ y = cell.param2
  OBVIOUS
<1>2. PICK info, vol : info = InfoOf(x, y) /\ vol = Least(63, info)
  OBVIOUS
<1>3. /\ fx \in Nat /\ x \in Nat /\ y \in Nat /\ x \in Byte /\ y \in Byte
      /\ cell.note \in Nat
  BY <1>0, <1>1, CellFacts
<1>4. info \in Nat /\ info <= 255
  <2>1. info \in Byte /\ info \in Nat
    BY <1>2, <1>3, InfoIsNat
  <2> QED
    BY <2>1 DEF Byte
<1>5. vol \in 0 .. 63
  BY <1>2, <1>4 DEF Least
<1>6. v.ch \in GoodChannel
  BY VoiceFields
<1>17. /\ fx \in {3, 24} => 2 * info <= lo
       /\ fx = 14 /\ x = 7 => 2 * y <= lo
  BY <1>1, <1>2, CellIsGentle
<1>7. CASE fx = 3
  <2>1. PICK u : u = PortamentoTarget(v, cell.note)
    OBVIOUS
  <2>2. IsVoice(u) /\ Goes(v.ch, u.ch, lo)
    <3>1. cell.note <= 96 \/ cell.note = 127
      BY <1>0, <1>1, <1>7 DEF GoodCell, PlayableCell
    <3>2. Holds(v.ch, PortamentoTarget(v, cell.note).ch, lo)
      BY <1>3, <3>1, PortamentoTargetHolds
    <3> QED
      BY <1>3, <2>1, <3>1, <3>2, PortamentoTargetPlays, HoldsGoes
  <2>3. RowCommand(v, cell) = IF info > 0 THEN [u EXCEPT !.ch.portainfo = info] ELSE u
    BY <1>1, <1>2, <1>7, <2>1 DEF RowCommand
  <2>4. PICK c : c = [u.ch EXCEPT !.portainfo = info]
    OBVIOUS
  <2>5. u.ch \in GoodChannel
    BY <2>2, VoiceFields
  <2>6. Goes(u.ch, c, lo)
    BY <1>7, <1>17, <2>4, <2>5 DEF GoodChannel, Goes, Settled, Ranged
  <2>7. [u EXCEPT !.ch.portainfo = info].ch = c
    BY <2>2, <2>4 DEF IsVoice
  <2>8. Goes(v.ch, c, lo)
    BY <2>2, <2>6, GoesOn
  <2> QED
    BY <2>2, <2>3, <2>7, <2>8
<1>8. CASE fx = 4
  <2>1. RowCommand(v, cell) = IF info > 0 THEN [v EXCEPT !.ch.vibinfo1 = x, !.ch.vibinfo2 = y]
                                          ELSE v
    BY <1>1, <1>2, <1>4, <1>8 DEF RowCommand
  <2>2. PICK c : c = [v.ch EXCEPT !.vibinfo1 = x, !.vibinfo2 = y]
    OBVIOUS
  <2>3. Holds(v.ch, c, lo)
    BY <1>6, <2>2 DEF GoodChannel, Holds, SameSettings, Ranged
  <2>4. [v EXCEPT !.ch.vibinfo1 = x, !.ch.vibinfo2 = y] = [v EXCEPT !.ch = c]
    BY <2>2 DEF IsVoice
  <2>5. [v EXCEPT !.ch = c].ch = c
    BY DEF IsVoice
  <2> QED
    BY <2>1, <2>3, <2>4, <2>5, HoldsGoes, GoesItself
<1>9. CASE fx = 8
  <2>1. RowCommand(v, cell) = setfreq([v EXCEPT !.ch.key = 0])
    BY <1>1, <1>9 DEF RowCommand
  <2> QED
    BY <2>1, VoiceReleased
<1>10. CASE fx = 9
  <2>1. x <= 9 /\ y <= 9
    BY <1>0, <1>1, <1>10 DEF GoodCell, PlayableCell
  <2>2. PICK a, b : a = (x * 7) % 256 /\ b = (y * 7) % 256
    OBVIOUS
  <2>3. a \in 0 .. 63 /\ b \in 0 .. 63
    BY <1>3, <2>1, <2>2
  <2>4. /\ x > 0 => RowCommand(v, cell) = Volume(v, [v.ch EXCEPT !.vol1 = a])
        /\ ~(x > 0) => RowCommand(v, cell) = Volume(v, [v.ch EXCEPT !.vol2 = b])
    BY <1>1, <1>10, <2>2 DEF RowCommand
  <2>5. /\ Goes(v.ch, Volume(v, [v.ch EXCEPT !.vol1 = a]).ch, lo)
        /\ Goes(v.ch, Volume(v, [v.ch EXCEPT !.vol2 = b]).ch, lo)
    BY <2>3, VolumeSetGoes
  <2> QED
    BY <2>4, <2>5
<1>11. CASE fx \in {12, 21, 22}
  <2>1. fx = 12 => RowCommand(v, cell) = Volume(v, [v.ch EXCEPT !.vol1 = vol, !.vol2 = vol])
    BY <1>1, <1>2 DEF RowCommand
  <2>2. fx = 21 => RowCommand(v, cell) = Volume(v, [v.ch EXCEPT !.vol2 = vol])
    BY <1>1, <1>2 DEF RowCommand
  <2>3. fx = 22 => RowCommand(v, cell) = Volume(v, [v.ch EXCEPT !.vol1 = vol])
    BY <1>1, <1>2 DEF RowCommand
  <2> QED
    BY <1>5, <1>11, <2>1, <2>2, <2>3, VolumeSetGoes
<1>12. CASE fx = 14
  <2>1. RowCommand(v, cell) = ExtendedCommand(v, x, y)
    BY <1>1, <1>12 DEF RowCommand
  <2> QED
    BY <1>0, <1>3, <1>12, <1>17, <2>1, ExtendedCommandGoes
<1>13. CASE fx = 17
  <2>1. /\ Additive(v) => RowCommand(v, cell) = Volume(v, [v.ch EXCEPT !.vol1 = vol, !.vol2 = vol])
        /\ ~Additive(v) => RowCommand(v, cell) = Volume(v, [v.ch EXCEPT !.vol1 = vol])
    <3>1. RowCommand(v, cell) = Volume(v, [v.ch EXCEPT !.vol1 = vol,
                                           !.vol2 = IF Additive(v) THEN vol ELSE @])
      BY <1>1, <1>2, <1>13 DEF RowCommand
    <3>2. [v.ch EXCEPT !.vol1 = vol, !.vol2 = v.ch.vol2] = [v.ch EXCEPT !.vol1 = vol]
      BY <1>6 DEF GoodChannel
    <3>3. Additive(v) => [v.ch EXCEPT !.vol1 = vol, !.vol2 = IF Additive(v) THEN vol ELSE @]
                         = [v.ch EXCEPT !.vol1 = vol, !.vol2 = vol]
      OBVIOUS
    <3>4. ~Additive(v) => [v.ch EXCEPT !.vol1 = vol, !.vol2 = IF Additive(v) THEN vol ELSE @]
                          = [v.ch EXCEPT !.vol1 = vol, !.vol2 = v.ch.vol2]
      BY <1>6 DEF GoodChannel
    <3> QED
      BY <3>1, <3>2, <3>3, <3>4
  <2> QED
    BY <1>5, <2>1, VolumeSetGoes
<1>14. CASE fx \in {23, 24}
  <2>1. fx = 23 => RowCommand(v, cell) = Slide(v, slide_up(v.ch, info))
    BY <1>1, <1>2 DEF RowCommand
  <2>2. fx = 24 => RowCommand(v, cell) = Slide(v, slide_down(v.ch, info))
    BY <1>1, <1>2 DEF RowCommand
  <2> QED
    BY <1>0, <1>4, <1>14, <1>17, <2>1, <2>2, SlideMoveGoes
<1>15. CASE fx = 27
  <2>1. RowCommand(v, cell) = SetDepth(v, x # 0, y # 0)
    BY <1>1, <1>15 DEF RowCommand
  <2> QED
    BY <2>1, SetDepthGoes
<1>16. CASE fx \notin {3, 4, 8, 9, 12, 14, 17, 21, 22, 23, 24, 27}
  <2>1. RowCommand(v, cell) = v
    BY <1>1, <1>16 DEF RowCommand
  <2> QED
    BY <2>1, GoesItself
<1> QED
  BY <1>7, <1>8, <1>9, <1>10, <1>11, <1>12, <1>13, <1>14, <1>15, <1>16

LEMMA PlayCellFits ==
  ASSUME Playable(song), NEW lo, Tame(lo), ~(Retriggering(song) /\ Releasing(song)),
         NEW v, IsVoice(v), Fits(v.ch, lo), NEW cell, Played(cell)
  PROVE  Fits(PlayCell(v, cell).ch, lo)
<1>0. GoodCell(cell)
  BY DEF Played
<1>1. PICK l : l = LoadInstrument(v, cell)
  OBVIOUS
<1>2. IsVoice(l) /\ Fits(l.ch, lo)
  BY <1>0, <1>1, LoadInstrumentPlays, LoadInstrumentHolds, HoldsGoes, GoesFits DEF Plays, Keeps
<1>3. PICK s : s = StartNote(l, cell)
  OBVIOUS
<1>4. /\ IsVoice(s) /\ Fits(s.ch, lo)
      /\ StartsNote(cell) /\ cell.note # 127 => Ranged(s.ch, lo)
  BY <1>0, <1>2, <1>3, StartNoteKeeps, StartNoteFits DEF Keeps
<1>5. PICK n : n = SetCommand(s, cell)
  OBVIOUS
<1>6. /\ IsVoice(n) /\ Fits(n.ch, lo)
      /\ StartsNote(cell) /\ cell.note # 127 => Ranged(n.ch, lo)
  BY <1>0, <1>4, <1>5, SetCommandPlays, SetCommandFits DEF Plays, Keeps
<1>7. PICK k : k = IF StartsNote(cell) /\ cell.note # 127 THEN playnote(n) ELSE n
  OBVIOUS
<1>8. IsVoice(k)
  BY <1>6, <1>7, PlayNoteKeeps DEF Keeps
<1>9. Fits(k.ch, lo)
  <2>1. CASE StartsNote(cell) /\ cell.note # 127
    <3>1. Settled(n.ch, lo) /\ Ranged(n.ch, lo)
      BY <1>6, <2>1 DEF Fits
    <3> QED
      BY <1>6, <1>7, <2>1, <3>1, PlayNoteGoes DEF Fits
  <2>2. CASE ~(StartsNote(cell) /\ cell.note # 127)
    BY <1>6, <1>7, <2>2
  <2> QED
    BY <2>1, <2>2
<1>10. PlayCell(v, cell) = RowCommand(k, cell)
  BY <1>1, <1>3, <1>5, <1>7 DEF PlayCell
<1> QED
  BY <1>8, <1>9, <1>10, RowCommandGoes, GoesFits

-----------------------------------------------------------------------------
(***************************************************************************)
(* All channels of a gentle song.  The invariant speaks of the channels    *)
(* alone, so that it holds whichever object the registers belong to.       *)
(***************************************************************************)
AllFit(lo) == \A c \in Channels : Fits(channel[c], lo)
PitchInv == \E lo : Tame(lo) /\ AllFit(lo)

LEMMA FitsKept ==
  ASSUME song' = song, channel' \in [Channels -> GoodChannel], NEW lo, Tame(lo),
         \A c \in Channels : Fits(channel'[c], lo)
  PROVE  PitchInv'
<1>1. Tame(lo)'
  BY DEF Tame, GentleAbove, PlayedCells, GentleCell, Amount
<1>2. Channels' = Channels
  BY DEF Channels, nchans
<1>3. ASSUME NEW d, Fits(d, lo) PROVE Fits(d, lo)'
  BY <1>3 DEF Fits, Settled, Heard, Ranged, InfoOf, flags, Retriggering, PlayedCells
<1>4. ASSUME NEW c \in Channels PROVE Fits(channel[c], lo)'
  <2>1. PICK d : d = channel'[c]
    OBVIOUS
  <2>2. Fits(d, lo)'
    BY <1>3, <2>1
  <2> QED
    BY <2>1, <2>2 DEF Fits, Settled, Heard, Ranged
<1>5. AllFit(lo)'
  BY <1>2, <1>4 DEF AllFit
<1> QED
  BY <1>1, <1>5 DEF PitchInv

LEMMA VoiceFits ==
  ASSUME NEW lo, AllFit(lo), channel \in [Channels -> GoodChannel], NEW c \in Channels, NEW w,
         VoiceBecomes(c, w), Fits(w.ch, lo)
  PROVE  \A d \in Channels : Fits(channel'[d], lo)
<1>1. channel' = [channel EXCEPT ![c] = w.ch]
  BY DEF VoiceBecomes
<1>2. ASSUME NEW d \in Channels PROVE channel'[d] = w.ch \/ channel'[d] = channel[d]
  BY <1>1
<1> QED
  BY <1>2 DEF AllFit

LEMMA UpdateFits ==
  ASSUME Playable(song), Gentle(song), TypeInv, ChipInv, VoicesInv, VoicesInv', PitchInv,
         ModUpdate, nchans' = nchans, chan' \in 0 .. nchans, song' = song
  PROVE  PitchInv'
<1>1. song \in Songs /\ nchans \in Nat /\ nchans > 0 /\ opl \in {"real", "silent"}
  BY SongFacts DEF TypeInv, ChipInv
<1>2. Voice(chan) = [ch |-> channel[chan], regbd |-> regbd,
                     fnum |-> fnum[selected'[opl]][chan % VoicesPerChip],
                     level |-> level[selected'[opl]][chan % VoicesPerChip],
                     bd |-> bd[selected'[opl]]]
  BY DEF Voice
<1>3. PICK lo : Tame(lo) /\ AllFit(lo)
  BY DEF PitchInv
<1>4. /\ channel \in [Channels -> GoodChannel] /\ channel' \in [Channels -> GoodChannel]
      /\ ~(Retriggering(song) /\ Releasing(song))
  BY DEF VoicesInv, Channels, nchans, Gentle
<1>5. SUFFICES \A c \in Channels : Fits(channel'[c], lo)
  BY <1>3, <1>4, FitsKept
<1>6. CASE ModTick
  <2>1. chan \in Channels /\ chan' = chan + 1 /\ InLoop
    BY <1>1, <1>6 DEF ModTick, TickChannel, InLoop, TypeInv, TypeOK, Channels
  <2>2. selected'[opl] = ChipOf(chan)
    BY <1>1, <2>1, UpdateSelects
  <2>3. Voice(chan) = VoiceAt(chan)
    BY <1>2, <2>2 DEF VoiceAt
  <2>4. PICK v : v = VoiceAt(chan)
    OBVIOUS
  <2>5. IsVoice(v) /\ Fits(v.ch, lo)
    BY <1>1, <1>3, <2>1, <2>4, VoiceIsVoice DEF AllFit, VoiceAt
  <2>6. PICK a : a = SpecialArpeggio(v)
    OBVIOUS
  <2>7. IsVoice(a) /\ Fits(a.ch, lo)
    BY <1>3, <2>5, <2>6, SpecialArpeggioPlays, SpecialArpeggioGoes, GoesFits DEF Plays, Keeps
  <2>8. PICK w : w = TickCommand(a)
    OBVIOUS
  <2>9. Goes(a.ch, w.ch, lo)
    BY <1>3, <2>7, <2>8, TickCommandGoes DEF Fits
  <2>10. Fits(w.ch, lo)
    BY <2>7, <2>9, GoesFits
  <2>11. VoiceBecomes(chan, w)
    BY <1>6, <2>3, <2>4, <2>6, <2>8 DEF ModTick
  <2> QED
    BY <1>3, <1>4, <2>1, <2>10, <2>11, VoiceFits
<1>7. CASE ModRow
  <2>1. RowChannel /\ set_opl_chip(chan)
    BY <1>7 DEF ModRow
  <2>2. AtRow /\ pc = "row" /\ chan < nchans /\ chan' = chan + 1
    BY <2>1, RowMoves DEF AtRow, NextChannel
  <2>3. chan \in Channels /\ InLoop
    BY <1>1, <2>2 DEF InLoop, TypeInv, TypeOK, Channels
  <2>4. selected'[opl] = ChipOf(chan)
    BY <1>1, <2>2, <2>3, UpdateSelects
  <2>5. CASE Skipped
    <3>1. channel' = channel
      BY <1>7, <2>5 DEF ModRow
    <3> QED
      BY <1>3, <3>1 DEF AllFit
  <2>6. CASE ~Skipped
    <3>1. Voice(chan) = VoiceAt(chan)
      BY <1>2, <2>4 DEF VoiceAt
    <3>2. PICK v : v = VoiceAt(chan)
      OBVIOUS
    <3>3. IsVoice(v) /\ Fits(v.ch, lo)
      BY <1>1, <1>3, <2>3, <3>2, VoiceIsVoice DEF AllFit, VoiceAt
    <3>4. PICK w : w = PlayCell(v, Cell)
      OBVIOUS
    <3>5. Played(Cell)
      BY <2>2, <2>6, PlayedCell DEF Played
    <3>6. PICK cell : cell = Cell
      OBVIOUS
    <3>7. Fits(w.ch, lo)
      BY <1>3, <1>4, <3>3, <3>4, <3>5, <3>6, PlayCellFits
    <3>8. VoiceBecomes(chan, w)
      BY <1>7, <2>6, <3>1, <3>2, <3>4 DEF ModRow
    <3> QED
      BY <1>3, <1>4, <2>3, <3>7, <3>8, VoiceFits
  <2> QED
    BY <2>5, <2>6
<1>8. CASE ModControl
  <2>1. channel' = channel
    BY <1>8 DEF ModControl, voiceVars, chipVars
  <2> QED
    BY <1>3, <2>1 DEF AllFit
<1> QED
  BY <1>6, <1>7, <1>8 DEF ModUpdate

LEMMA ZeroFits == \A lo : Low(lo) => Fits(ZeroChannel, lo)
<1>1. ZeroChannel.portainfo = 0 /\ ZeroChannel.fx = 0 /\ ZeroChannel.note = 0
  BY DEF ZeroChannel
<1>2. ASSUME NEW lo, Low(lo) PROVE 2 * 0 <= lo
  BY <1>2 DEF Low
<1> QED
  BY <1>1, <1>2 DEF Fits, Settled, Heard

LEMMA RewindFits ==
  ASSUME PitchInv, VoicesInv', ModRewind
  PROVE  PitchInv'
<1>1. song' = song /\ Channels' = Channels
  BY DEF ModRewind, SeqRewind, Channels, nchans
<1>2. channel' = [c \in Channels |-> ZeroChannel]
  BY DEF ModRewind, VoicesRewound, Channels
<1>3. PICK lo : Tame(lo)
  BY DEF PitchInv
<1>4. \A c \in Channels : Fits(channel'[c], lo)
  BY <1>2, <1>3, ZeroFits DEF Tame
<1> QED
  BY <1>1, <1>3, <1>4, FitsKept DEF VoicesInv

LEMMA StillFits ==
  ASSUME PitchInv, VoicesInv, UNCHANGED <<song, channel>>
  PROVE  PitchInv'
<1>1. PICK lo : Tame(lo) /\ AllFit(lo)
  BY DEF PitchInv
<1>2. \A c \in Channels : Fits(channel'[c], lo)
  BY <1>1 DEF AllFit
<1> QED
  BY <1>1, <1>2, FitsKept DEF VoicesInv

LEMMA InitFits ==
  ASSUME Gentle(song), ModInit
  PROVE  PitchInv
<1>1. PICK lo \in 16 .. Lowest : GentleAbove(song, lo)
  BY DEF Gentle
<1>2. Tame(lo)
  BY <1>1 DEF Tame, Low
<1>3. channel = [c \in Channels |-> ZeroChannel]
  BY DEF ModInit, Channels
<1>4. AllFit(lo)
  BY <1>2, <1>3, ZeroFits DEF AllFit, Tame
<1> QED
  BY <1>2, <1>4 DEF PitchInv

LEMMA PitchInvSays ==
  ASSUME Playable(song), song \in Songs, VoicesInv, SoundInv, PitchInv
  PROVE  PitchSounds
<1>1. PICK lo : Tame(lo) /\ AllFit(lo)
  BY DEF PitchInv
<1>2. PitchInTenBits
  BY SoundInvSays
<1>3. ASSUME NEW c \in Channels, channel[c].key = 1, channel[c].note # 0
      PROVE  channel[c].freq < 1024
  <2>1. channel[c].freq \in lo .. 1023
    BY <1>1, <1>3 DEF AllFit, Fits, Heard, Ranged
  <2> QED
    BY <1>1, <2>1 DEF Tame, Low
<1> QED
  BY <1>2, <1>3 DEF PitchSounds, PitchInTenBits

(***************************************************************************)
(* PitchSounds for every gentle song: a channel that plays a note sounds   *)
(* exactly its frequency and octave, because no slide leads it out of the  *)
(* ten bits that setfreq() writes.                                         *)
(***************************************************************************)
THEOREM GentlePitchSounds ==
  ASSUME \A s \in Songs : Playable(s) /\ Gentle(s)
  PROVE  ModSpec => []PitchSounds
<1>1. ModInit => PitchInv
  BY InitFits DEF ModInit, SeqInit
<1>2. /\ TypeInv /\ TypeInv' /\ RealInv /\ RealInv' /\ PitchInv /\ [ModNext]_modVars
      => PitchInv'
  <2> SUFFICES ASSUME TypeInv, TypeInv', ChipInv, VoicesInv, VoicesInv', PitchInv,
                      [ModNext]_modVars
               PROVE  PitchInv'
    BY DEF RealInv
  <2>1. SeqNext \/ UNCHANGED seqVars
    BY ModStepsSequence DEF ModNext, modVars
  <2>2. /\ nchans' = nchans /\ chan' \in 0 .. nchans
        /\ song' = song /\ Playable(song) /\ Gentle(song)
    BY <2>1, SongKept DEF TypeInv, TypeOK
  <2>3. CASE UNCHANGED modVars
    <3>1. UNCHANGED <<song, channel>>
      BY <2>3 DEF modVars, seqVars, voiceVars
    <3> QED
      BY <3>1, StillFits
  <2> QED
    BY <2>2, <2>3, UpdateFits, RewindFits DEF ModNext
<1>3. \A s \in Songs : Playable(s)
  OBVIOUS
<1>4. ModSpec => []RealInv
  BY <1>3, ModInvHolds
<1>5. TypeInv /\ RealInv /\ PitchInv => PitchSounds
  BY PitchInvSays DEF TypeInv, RealInv
<1> QED
  BY <1>1, <1>2, <1>4, <1>5, ModImplementsSequencer, TypeInvHolds, PTL DEF ModSpec

(***************************************************************************)
(* SoundFollows for gentle songs: through updates, rewinds, seeks and      *)
(* measurements the chips sound exactly what the channels say, unless      *)
(* songlength() has torn them apart and nothing has rewound them since.    *)
(***************************************************************************)
THEOREM GentleSoundFollows ==
  ASSUME \A s \in Songs : Playable(s) /\ Gentle(s)
  PROVE  PlayerSpec => []SoundFollows
<1>1. PlayerInit => PitchInv
  BY InitFits DEF PlayerInit, ModInit, SeqInit
<1>2. /\ TypeInv /\ TypeInv' /\ ChipInv /\ OplInv /\ TornInv /\ TornInv' /\ PitchInv
      /\ [PlayerNext]_playerVars
      => PitchInv'
  <2> SUFFICES ASSUME TypeInv, TypeInv', ChipInv, OplInv, TornInv, TornInv', PitchInv,
                      [PlayerNext]_playerVars
               PROVE  PitchInv'
    OBVIOUS
  <2>0. VoicesInv /\ VoicesInv'
    BY DEF TornInv
  <2>1. SeqNext \/ UNCHANGED seqVars
    BY PlayerSteps, ModStepsSequence DEF modVars, SongLength, MeasureReturn
  <2>2. /\ nchans' = nchans /\ chan' \in 0 .. nchans
        /\ song' = song /\ Playable(song) /\ Gentle(song)
    BY <2>1, SongKept DEF TypeInv, TypeOK
  <2>3. ModUpdate \/ ModRewind \/ UNCHANGED <<song, channel>>
    BY OperationsTear DEF TornInv
  <2> QED
    BY <2>0, <2>2, <2>3, UpdateFits, RewindFits, StillFits
<1>3. \A s \in Songs : Playable(s)
  OBVIOUS
<1>4. PlayerSpec => []TornInv
  BY <1>3, TornInvHolds
<1>5. TypeInv /\ TornInv /\ PitchInv => SoundFollows
  BY PitchInvSays, SoundInvSays DEF TypeInv, TornInv, SoundFollows
<1> QED
  BY <1>1, <1>2, <1>4, <1>5, ChipInvHolds, PlayerImplementsSequencer, TypeInvHolds, PTL
     DEF PlayerSpec
=============================================================================
