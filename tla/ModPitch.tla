------------------------------ MODULE ModPitch ------------------------------
(***************************************************************************)
(* The arithmetic of CmodPlayer's channels: frequency slides, tone         *)
(* portamento, vibrato and volume slides, as operators that map a channel  *)
(* record to the changed one.  freq is an unsigned short and wraps; the    *)
(* volumes and oct are unsigned chars that never need to.                  *)
(***************************************************************************)
EXTENDS Integers

Least(a, b) == IF a < b THEN a ELSE b
Greatest(a, b) == IF a > b THEN a ELSE b

Wrapped(freq) == freq % 65536   \* an unsigned short

Lowest == 342           \* frequency number below which a slide changes octave
Highest == 686          \* and above which

slide_down(ch, amount) ==
  LET f == Wrapped(ch.freq - amount)
  IN  IF f > Lowest THEN [ch EXCEPT !.freq = f]
      ELSE IF ch.oct > 0 THEN [ch EXCEPT !.freq = 2 * f, !.oct = ch.oct - 1]
      ELSE [ch EXCEPT !.freq = Lowest]

slide_up(ch, amount) ==
  LET f == Wrapped(ch.freq + amount)
  IN  IF f < Highest THEN [ch EXCEPT !.freq = f]
      ELSE IF ch.oct < 7 THEN [ch EXCEPT !.freq = f \div 2, !.oct = ch.oct + 1]
      ELSE [ch EXCEPT !.freq = Highest]

(* tone_portamento() compares pitches as one number, octave first.         *)
Pitch(ch) == ch.freq + 1024 * ch.oct
Target(ch) == ch.nextfreq + 1024 * ch.nextoct
AtTarget(ch) == [ch EXCEPT !.freq = ch.nextfreq, !.oct = ch.nextoct]

tone_portamento(ch, info) ==
  LET Up(c) == LET u == slide_up(c, info)
               IN  IF Pitch(u) > Target(c) THEN AtTarget(u) ELSE u
      Down(c) == LET d == slide_down(c, info)
                 IN  IF Pitch(d) < Target(c) THEN AtTarget(d) ELSE d
      risen == IF Pitch(ch) < Target(ch) THEN Up(ch) ELSE ch
  IN  IF Pitch(risen) > Target(ch) THEN Down(risen) ELSE risen

vibratotab(i) == IF i < 16 THEN i + 1 ELSE 32 - i

(* One step of the waveform: down in the middle half of the 64 positions.  *)
VibratoStep(ch, depth) ==
  LET t == (ch.trigger + 1) % 64
      moved == [ch EXCEPT !.trigger = t]
      By(i) == vibratotab(i) \div (16 - depth)
  IN  IF t \in 16 .. 47 THEN slide_down(moved, By(t - 16))
      ELSE slide_up(moved, By((t + 16) % 64))

vibrato(ch, speed, depth) ==
  LET step[i \in 0 .. speed] ==
        IF i = 0 THEN ch ELSE VibratoStep(step[i - 1], Least(depth, 14))
  IN  IF depth = 0 THEN ch ELSE step[speed]

(* The `_alt' forms move the modulator only if the instrument is additive. *)
VolumeUp(ch, amount, both) ==
  LET Up(v) == Least(63, v + amount)
  IN  [ch EXCEPT !.vol1 = Up(ch.vol1), !.vol2 = IF both THEN Up(ch.vol2) ELSE ch.vol2]

VolumeDownUnchecked(ch, amount, both) ==   \* faulty variant: no lower limit
  [ch EXCEPT !.vol1 = @ - amount, !.vol2 = IF both THEN @ - amount ELSE @]

VolumeDown(ch, amount, both) ==
  LET Down(v) == Greatest(0, v - amount)
  IN  [ch EXCEPT !.vol1 = Down(ch.vol1), !.vol2 = IF both THEN Down(ch.vol2) ELSE ch.vol2]

(* What setnote() makes of a note that is no key-off, and command 3 of it. *)
NoteFreq(notetable, note) == notetable[(note - 1) % 12]
NoteOct(note) == (note - 1) \div 12
=============================================================================
