----------------------------- MODULE ReplayAdl -----------------------------
(***************************************************************************)
(* Westwood ADL (adl.cpp): a driver for the sounds of a game.  A program   *)
(* is queued, then runs on the channel it names; it starts programs on     *)
(* other channels, stops them and waits for them.  Channel 9 has no voice. *)
(* An instruction is a record with its kind k; a place in the sound data   *)
(* is <<program, instruction>>, and Unset where the data has none.  The    *)
(* effects on frequencies and levels between two notes are left out.       *)
(***************************************************************************)
EXTENDS ReplayVoices

CONSTANTS AdlVoices,  \* channels: 0..9 in the code
          AdlBytes    \* values of durations and timers: 256 in the code

ASSUME AdlVoicesAssumption == AdlVoices \subseteq 0..9

AdlTop == AdlBytes - 1
AdlByte(i) == i % AdlBytes
Drums == {"BD", "HH", "SD", "TT", "CY"}

\* initChannel(): opExtraLevel2 is kept, it is in extraLevel2.
AdlChannel == [data |-> Unset, duration |-> 0, repeatCounter |-> 0, stack |-> <<>>,
               repeating |-> FALSE, priority |-> 0, tempo |-> AdlTop, timer |-> 0,
               tempoReset |-> FALSE, spacing1 |-> 1, spacing2 |-> 0,
               fractionalSpacing |-> 0, durationRandomness |-> 1, on |-> FALSE]

\* What the constructor sets and no rewind() does.
AdlConstructed ==
  [globalTempo : {0}, callbackTimer : {AdlTop},
   beat : {[divider |-> 0, count |-> 0, counter |-> 0, waiting |-> 0]},
   rhythmBits : {{}}, depthBits : {{}}, drumLevels : {[d \in Drums |-> <<0, 0, 0>>]},
   extraLevel2 : {Each(AdlVoices, 0)}]

\* init(), stopAllChannels(), and the program of the subsong is queued.
AdlFresh(s, q) ==
  LET track == IF s < Len(song.tracks) THEN s + 1 ELSE 1
  IN  [ch |-> Each(AdlVoices, AdlChannel), rnd |-> 4660,
       programQueue |-> song.tracks[track], programStartTimeout |-> 0,
       reads |-> FALSE, globalTempo |-> q.globalTempo,
       callbackTimer |-> q.callbackTimer, beat |-> q.beat,
       rhythmBits |-> q.rhythmBits, depthBits |-> q.depthBits,
       drumLevels |-> q.drumLevels, extraLevel2 |-> q.extraLevel2]

AdlRewind == \E s \in Subsongs : MayRewind("adl", s) /\ Rewound(s, AdlFresh(s, p))

Program(number) == song.programs[number]
HasProgram(number) == number \in DOMAIN song.programs

\* A program takes its channel from one of a lower priority.
AdlStart(q, number) ==
  LET c == Program(number).chan
      started == [AdlChannel EXCEPT !.priority = Program(number).priority,
                                    !.data = <<number, 1>>, !.timer = AdlTop, !.duration = 1]
  IN  IF Program(number).priority < q.ch[c].priority THEN q
      ELSE [q EXCEPT !.ch[c] = started, !.programStartTimeout = 2]

\* setupPrograms(): what is queued was queued by rewind().
AdlQueue ==
  LET q == [p EXCEPT !.programQueue = 0]
  IN  CASE p.programStartTimeout > 0 -> [p EXCEPT !.programStartTimeout = @ - 1]
        [] p.programStartTimeout = 0 /\ HasProgram(p.programQueue) -> AdlStart(q, p.programQueue)
        [] p.programStartTimeout = 0 /\ ~HasProgram(p.programQueue) -> q

\* The channel after channel c that has a program, down to 0; then the beat.
AdlGo(q, c) ==
  Within([q EXCEPT !.reads = FALSE],
         Max({d + 1 : d \in {v \in AdlVoices : v < c /\ q.ch[v].data # Unset}} \union {-1}))

AdlBegin == MayUpdate("adl") /\ AdlGo(AdlQueue, 10)

InAdl(reads) == In("adl") /\ pc > 0 /\ p.reads = reads
Me == pc - 1

\* With the rhythm section on, channels 6 to 8 are the section's.
AdlOff(q, c) ==
  IF c = 9 \/ (q.rhythmBits # {} /\ c >= 6) THEN q ELSE [q EXCEPT !.ch[c].on = FALSE]
AdlOn(q, c) == IF c = 9 THEN q ELSE [q EXCEPT !.ch[c].on = TRUE]

\* A tick of the channel is one at which its timer wraps round.
AdlTick ==
  /\ InAdl(FALSE)
  /\ LET c == Me
         tempo == IF p.ch[c].tempoReset THEN p.globalTempo ELSE p.ch[c].tempo
         timer == AdlByte(p.ch[c].timer + tempo)
         left == AdlByte(p.ch[c].duration - 1)
         q == [p EXCEPT !.ch[c].tempo = tempo, !.ch[c].timer = timer]
         r == [q EXCEPT !.ch[c].duration = left]
         off == left = p.ch[c].spacing2 \/ left = p.ch[c].spacing1
     IN  IF timer >= p.ch[c].timer THEN AdlGo(q, c)
         ELSE IF left # 0 THEN AdlGo(IF off THEN AdlOff(r, c) ELSE r, c)
         ELSE Within([r EXCEPT !.reads = TRUE], pc)

----------------------------------------------------------------------------
\* The instructions.  Each returns the fields and a result: 0 goes on with
\* the next one, 1 and 2 end the channel's turn.
Result(q, r) == [q |-> q, result |-> r]

\* getRandomNr()
AdlRandom(q) == LET low == (q.rnd + 37448) % 65536 IN (low \div 8) + 8192 * (low % 8)

\* setupDuration(); a random duration does not change the note spacing.
AdlDuration(q, c, duration) ==
  LET rnd == AdlRandom(q)
  IN  IF q.ch[c].durationRandomness > 1
      THEN [q EXCEPT !.rnd = rnd,
                     !.ch[c].duration = AdlByte(duration + (rnd % q.ch[c].durationRandomness))]
      ELSE [q EXCEPT !.ch[c].duration = duration,
                     !.ch[c].spacing2 = IF q.ch[c].fractionalSpacing > 0
                                        THEN (duration \div 8) * q.ch[c].fractionalSpacing ELSE @]

\* Notes, rests and pauses; one with no duration is followed at once.
AdlNote(q, c, e) ==
  LET sounding == CASE e.k = "note" -> AdlOn(q, c)
                    [] e.k = "rest" -> AdlOff(q, c)
                    [] e.k = "pause" -> q
  IN  Result(AdlDuration(sounding, c, e.arg), IF e.arg = 0 THEN 0 ELSE 1)

AdlRepeat(q, c, e) ==
  LET left == AdlByte(q.ch[c].repeatCounter - 1)
      again == [q EXCEPT !.ch[c].repeatCounter = left,
                         !.ch[c].data = IF left # 0 /\ e.to # Unset THEN e.to ELSE @]
  IN  Result(IF e.k = "repeat" THEN [q EXCEPT !.ch[c].repeatCounter = e.arg] ELSE again, 0)

\* A program that a program starts on its own channel keeps its place.
AdlSetup(q, c, e) ==
  LET r == AdlStart(q, e.arg)
  IN  Result(IF HasProgram(e.arg) THEN [r EXCEPT !.ch[c].data = q.ch[c].data] ELSE q, 0)

AdlStop(q, c) == Result(AdlOff([q EXCEPT !.ch[c].priority = 0, !.ch[c].data = Unset], c), 2)

\* A channel repeats that jumps back.  Version 1 jumps to an offset in the
\* sound data, which is positive.
AdlJump(q, c, e) ==
  IF e.to = Unset THEN AdlStop(q, c)
  ELSE Result([q EXCEPT !.ch[c].data = e.to,
                        !.ch[c].repeating = @ \/ (e.back /\ song.version # 1)], 0)

AdlSubroutine(q, c, e) ==
  LET stack == q.ch[c].stack
  IN  IF Len(stack) = 4 \/ e.to = Unset THEN Result(q, 0)
      ELSE Result([q EXCEPT !.ch[c].stack = Append(stack, q.ch[c].data), !.ch[c].data = e.to], 0)

AdlReturn(q, c) ==
  LET stack == q.ch[c].stack
  IN  IF stack = <<>> THEN AdlStop(q, c)
      ELSE Result([q EXCEPT !.ch[c].data = Last(stack), !.ch[c].stack = Front(stack)], 0)

\* Both stop a channel, whose note goes on; clear silences its voice.
AdlStopOther(q, c, e) ==
  LET stopped == [q EXCEPT !.ch[e.arg].duration = 0, !.ch[e.arg].priority = 0,
                           !.ch[e.arg].data = Unset]
      r == IF e.k = "clear" THEN [stopped EXCEPT !.extraLevel2[e.arg] = 0] ELSE stopped
  IN  Result(IF e.arg \in AdlVoices THEN [r EXCEPT !.ch[c].data = q.ch[c].data] ELSE q, 0)

\* The place of the instruction before the next one.
Back(q, c) == [q EXCEPT !.ch[c].data[2] = @ - 1]

\* The instruction is read again when the duration, 0 now, wraps round.
AdlWait(q, c, e) ==
  LET other == Program(e.arg).chan
  IN  IF ~HasProgram(e.arg) \/ q.ch[other].data = Unset THEN Result(q, 0)
      ELSE Result(Back([q EXCEPT !.ch[c].repeating = @ \/ q.ch[other].repeating], c), 2)

\* arg is the bit of the beat counter to wait for.
AdlBeat(q, c, e) ==
  LET set == (q.beat.counter \div e.arg) % 2 = 1
      waits == [q EXCEPT !.beat.waiting = IF set THEN @ ELSE AdlByte(@ + 1),
                         !.ch[c].duration = 1]
  IN  IF set /\ q.beat.waiting > 0 THEN Result([q EXCEPT !.beat.waiting = 0], 0)
      ELSE Result(Back(waits, c), 2)

AdlSetBeat(q, e) ==
  [q EXCEPT !.callbackTimer = AdlTop,
            !.beat = [divider |-> e.arg \div 2, count |-> e.arg \div 2, counter |-> 0, waiting |-> 0]]

\* The tempo of the driver and of the channel.
AdlTempo(q, c, e) ==
  CASE e.k = "tempo"        -> [q EXCEPT !.globalTempo = e.arg]
    [] e.k = "channelTempo" -> [q EXCEPT !.ch[c].tempo = e.arg]
    [] e.k = "resetTempo"   -> [q EXCEPT !.ch[c].tempo = q.globalTempo]
    [] e.k = "changeTempo"  -> [q EXCEPT !.ch[c].tempo = Max({1, Min({AdlTop, @ + e.arg})})]
    [] e.k = "tempoReset"   -> [q EXCEPT !.ch[c].tempoReset = e.arg # 0]

AdlSpacing(q, c, e) ==
  CASE e.k = "spacing"    -> [q EXCEPT !.ch[c].spacing1 = e.arg]
    [] e.k = "fractional" -> [q EXCEPT !.ch[c].fractionalSpacing = e.arg % 8]
    [] e.k = "random"     -> [q EXCEPT !.ch[c].durationRandomness = e.arg]
    [] e.k = "priority"   -> [q EXCEPT !.ch[c].priority = e.arg]

\* The extra level of any channel.
AdlLevel2(q, e) ==
  CASE e.voice \notin AdlVoices -> q
    [] e.voice \in AdlVoices /\ e.k = "level2" -> [q EXCEPT !.extraLevel2[e.voice] = e.arg]
    [] e.voice \in AdlVoices /\ e.k = "changeLevel2" ->
         [q EXCEPT !.extraLevel2[e.voice] = Byte(@ + e.arg)]

\* Tremolo and vibrato depth.
AdlDepth(q, e) == [q EXCEPT !.depthBits = IF e.arg = 0 THEN @ \ {e.k} ELSE @ \union {e.k}]

\* The section takes three instruments, of one level here, and the frequency
\* and key bits of its channels.
AdlRhythm(q, e) ==
  [q EXCEPT !.rhythmBits = {"section"},
            !.drumLevels = [d \in Drums |-> <<e.arg, q.drumLevels[d][2], q.drumLevels[d][3]>>],
            !.ch = [c \in AdlVoices |-> IF c \in 6..8 THEN [q.ch[c] EXCEPT !.on = c \in e.keys] ELSE q.ch[c]]]

AdlDrums(q, e) ==
  IF e.k = "drums" THEN [q EXCEPT !.rhythmBits = @ \union {"section"} \union e.arg]
  ELSE [q EXCEPT !.rhythmBits = {}]

\* Two extra levels for each drum; a change adds up all of them.
AdlDrumLevels(q, e) ==
  LET Clip(v) == Max({0, Min({63, v})})
      After(l) == CASE e.k = "drumLevel1" -> <<l[1], e.arg, l[3]>>
                    [] e.k = "drumLevel2" -> <<l[1], l[2], e.arg>>
                    [] e.k = "changeDrum1" -> <<l[1], Clip(e.arg + l[1] + l[2] + l[3]), l[3]>>
  IN  [q EXCEPT !.drumLevels = [d \in Drums |-> IF d \in e.drums THEN After(q.drumLevels[d]) ELSE q.drumLevels[d]]]

AdlInstruction(q, c, e) ==
  CASE e.k \in {"note", "rest", "pause"}  -> AdlNote(q, c, e)
    [] e.k \in {"repeat", "again"}        -> AdlRepeat(q, c, e)
    [] e.k = "program"                    -> AdlSetup(q, c, e)
    [] e.k = "jump"                       -> AdlJump(q, c, e)
    [] e.k = "sub"                        -> AdlSubroutine(q, c, e)
    [] e.k = "return"                     -> AdlReturn(q, c)
    [] e.k = "stop"                       -> AdlStop(q, c)
    [] e.k \in {"stopOther", "clear"}     -> AdlStopOther(q, c, e)
    [] e.k = "waitForEnd"                 -> AdlWait(q, c, e)
    [] e.k = "waitForBeat"                -> AdlBeat(q, c, e)
    [] e.k = "beat"                       -> Result(AdlSetBeat(q, e), 0)
    [] e.k \in {"tempo", "channelTempo", "resetTempo", "changeTempo", "tempoReset"} ->
         Result(AdlTempo(q, c, e), 0)
    [] e.k \in {"spacing", "fractional", "random", "priority"} -> Result(AdlSpacing(q, c, e), 0)
    [] e.k \in {"level2", "changeLevel2"} -> Result(AdlLevel2(q, e), 0)
    [] e.k \in {"tremolo", "vibrato"}     -> Result(AdlDepth(q, e), 0)
    [] e.k = "rhythm"                     -> Result(AdlRhythm(q, e), 0)
    [] e.k \in {"drums", "noRhythm"}      -> Result(AdlDrums(q, e), 0)
    [] e.k \in {"drumLevel1", "drumLevel2", "changeDrum1"} -> Result(AdlDrumLevels(q, e), 0)
    [] OTHER -> Result(q, 0)

\* A program whose data ends stops.
AdlRead ==
  /\ InAdl(TRUE)
  /\ LET c == Me
         at == p.ch[c].data
         code == Program(at[1]).code
         q == [p EXCEPT !.ch[c].data[2] = @ + 1]
         a == IF at[2] > Len(code) THEN AdlStop(p, c) ELSE AdlInstruction(q, c, code[at[2]])
     IN  IF a.result = 0 THEN Within(a.q, pc) ELSE AdlGo(a.q, c)

\* The beat goes on; the song plays while a channel does that has not
\* jumped back.
AdlEnd ==
  /\ In("adl") /\ pc < 0
  /\ LET timer == AdlByte(p.callbackTimer + p.globalTempo)
         count == AdlByte(p.beat.count - 1)
         beat == IF timer >= p.callbackTimer THEN p.beat
                 ELSE IF count # 0 THEN [p.beat EXCEPT !.count = count]
                 ELSE [p.beat EXCEPT !.count = p.beat.divider, !.counter = AdlByte(@ + 1)]
     IN  Updated([p EXCEPT !.callbackTimer = timer, !.beat = beat], {},
                 \E c \in AdlVoices : p.ch[c].data # Unset /\ ~p.ch[c].repeating)

AdlUpdate == AdlBegin \/ AdlTick \/ AdlRead \/ AdlEnd
=============================================================================
