----------------------------- MODULE TapeProofs -----------------------------
(***************************************************************************)
(* Proofs about Tape, for any recording and any captured files; and, from  *)
(* Marks on, that a recording made by CDiskopl is played back by CrawPlayer *)
(* as it was made: for any number of channels, any refresh rates up to the *)
(* longest that a wait command can express, any sequence of calls, and a   *)
(* recording of any length, as long as no player writes to the registers   *)
(* 0, 2 and 255, which are commands of the format.                         *)
(***************************************************************************)
EXTENDS Tape, SequenceTheorems, TLAPS

(* What makes a reported end final: it is recorded in songend, or nothing  *)
(* is left to play.                                                        *)
EndInv ==
  /\ stage = "record" => ret
  /\ ~ret => songend \/ pos >= Len(data)

THEOREM EndInvHolds == TapeSpec => []EndInv
<1>1. TapeInit => EndInv
  BY DEF TapeInit, EndInv
<1>2. EndInv /\ [TapeNext]_tapeVars => EndInv'
  <2> SUFFICES ASSUME EndInv, [TapeNext]_tapeVars PROVE EndInv'
    OBVIOUS
  <2> USE DEF EndInv
  <2>1. CASE Record
    BY <2>1 DEF Record, rawVars
  <2>2. CASE LoadRecording \/ LoadCapture
    BY <2>2 DEF LoadRecording, LoadCapture, load
  <2>3. CASE PlayAgain
    BY <2>3 DEF PlayAgain, rewind
  <2>4. CASE PlayOn
    <3>1. stage # "record" /\ stage' = stage
      BY <2>4 DEF PlayOn
    <3>2. CASE Exhausted \/ SongOver
      BY <3>1, <3>2 DEF Exhausted, AtEnd, SongOver
    <3>3. CASE Idle \/ Delay
      <4>1. ret' = ~songend /\ songend' = songend
        BY <3>3 DEF Idle, Delay, Return
      <4>2. ~ret' => songend'
        BY <4>1, Zenon
      <4> QED
        BY <3>1, <4>2
    <3>4. CASE Begin
      BY <3>1, <3>4 DEF Begin, AtEnd
    <3>5. CASE SetSpeed
      BY <3>1, <3>5 DEF SetSpeed, ReturnFalse, Fetching, AtEnd
    <3>6. CASE SelectChip \/ NoWord \/ WriteRegister
      BY <3>1, <3>6 DEF SelectChip, NoWord, WriteRegister, Fetching, AtEnd
    <3> QED
      BY <2>4, <3>2, <3>3, <3>4, <3>5, <3>6 DEF PlayOn, rawupdate
  <2>5. CASE UNCHANGED tapeVars
    BY <2>5 DEF tapeVars, rawVars
  <2> QED
    BY <2>1, <2>2, <2>3, <2>4, <2>5 DEF TapeNext
<1> QED
  BY <1>1, <1>2, PTL DEF TapeSpec

(* Once update() has returned false it does so until rewind()              *)
(* (RawEndIsSticky), in every pass over the song.                          *)
THEOREM RawEndStays == TapeSpec => RawEndIsSticky
<1>1. EndInv /\ [TapeNext]_tapeVars => [~ret /\ ret' => rewind]_tapeVars
  <2> SUFFICES ASSUME EndInv, TapeNext, ~ret, ret' PROVE rewind
    OBVIOUS
  <2>1. stage # "record"
    BY DEF EndInv
  <2>2. PlayOn \/ PlayAgain
    BY <2>1 DEF TapeNext, Record, LoadRecording, LoadCapture
  <2>3. ~PlayOn
    <3>1. ~Exhausted /\ ~SongOver
      BY DEF Exhausted, SongOver, ReturnFalse
    <3>2. ~Idle
      BY DEF Idle, AtEnd, Return, EndInv
    <3>3. ~Delay
      BY DEF Delay, Fetching, AtEnd, Return, EndInv
    <3>4. ~(Begin \/ SelectChip \/ NoWord \/ WriteRegister)
      BY DEF Begin, SelectChip, NoWord, WriteRegister
    <3>5. ~SetSpeed
      BY DEF SetSpeed, ReturnFalse
    <3> QED
      BY <3>1, <3>2, <3>3, <3>4, <3>5 DEF PlayOn, rawupdate
  <2> QED
    BY <2>2, <2>3 DEF PlayAgain
<1> QED
  BY <1>1, EndInvHolds, PTL DEF TapeSpec, RawEndIsSticky

-----------------------------------------------------------------------------
(* What update() goes on from, as one value, and the state that its next   *)
(* step leaves, for any state before the end of the data that is not at an *)
(* end marker.                                                             *)
State(p, d, s, c, w, t, at) ==
  [pos |-> p, del |-> d, speed |-> s, chip |-> c, writes |-> w, time |-> t, pc |-> at]

Now == State(pos, del, speed, selected, sounded, time, pc)
AtStart == State(0, 0, clock, 0, <<>>, 0, "ready")

Over(s) == s.pc = "fetch" /\ data[s.pos + 1] = EndMarker

TickAt(s) == IF s.speed = 0 THEN 65535 ELSE s.speed

Advance(s) ==
  LET w == data[s.pos + 1]
      more == s.pos + 1
  IN  IF s.pc = "ready"
      THEN IF s.del = 0
           THEN State(s.pos, s.del, s.speed, s.chip, s.writes, s.time, "fetch")
           ELSE State(s.pos, s.del - 1, s.speed, s.chip, s.writes, s.time + TickAt(s), "ready")
      ELSE IF w[2] = 0
      THEN State(more, (w[1] - 1) % 256, s.speed, s.chip, s.writes, s.time + TickAt(s), "ready")
      ELSE IF w[2] = 2 /\ w[1] = 0
      THEN IF more >= Len(data)
           THEN State(more, s.del, s.speed, s.chip, s.writes, s.time, "ready")
           ELSE State(s.pos + 2, s.del, data[s.pos + 2][1] + 256 * data[s.pos + 2][2],
                      s.chip, s.writes, s.time, s.pc)
      ELSE IF w[2] = 2
      THEN State(more, s.del, s.speed, IF w[1] \in {1, 2} THEN w[1] - 1 ELSE s.chip,
                 s.writes, s.time, s.pc)
      ELSE IF w[2] = 255
      THEN State(more, s.del, s.speed, s.chip, s.writes, s.time, s.pc)
      ELSE State(more, s.del, s.speed, s.chip,
                 Append(s.writes, [chip |-> s.chip, reg |-> w[2], val |-> w[1], at |-> s.time]),
                 s.time, s.pc)

(* A path of n steps from the start of the song.                           *)
Path(s, n) ==
  /\ s[0] = AtStart
  /\ \A i \in 0 .. (n - 1) : ~Over(s[i]) /\ s[i + 1] = Advance(s[i])

(* While words are left, the replayer is on a path from the start, which   *)
(* once a pass is complete leads to where that pass ended.                 *)
OnPath(s, n, k) ==
  /\ k <= n /\ Path(s, n) /\ Now = s[k]
  /\ \/ k = n /\ lastpass = NoPass
     \/ Over(s[n]) /\ lastpass = [writes |-> s[n].writes, length |-> s[n].time]

PassInv ==
  stage # "record" /\ ~AtEnd => \E n \in Nat, k \in Nat : \E s : OnPath(s, n, k)

LEMMA StateFields ==
  ASSUME NEW p, NEW d, NEW s, NEW c, NEW w, NEW t, NEW at
  PROVE  /\ State(p, d, s, c, w, t, at).pos = p /\ State(p, d, s, c, w, t, at).del = d
         /\ State(p, d, s, c, w, t, at).speed = s /\ State(p, d, s, c, w, t, at).chip = c
         /\ State(p, d, s, c, w, t, at).writes = w /\ State(p, d, s, c, w, t, at).time = t
         /\ State(p, d, s, c, w, t, at).pc = at
  BY DEF State

(* update() is deterministic.                                              *)
LEMMA StepsAdvance ==
  ASSUME Idle \/ Begin \/ Delay \/ SetSpeed \/ SelectChip \/ NoWord \/ WriteRegister
  PROVE  ~Over(Now) /\ Now' = Advance(Now)
<1>1. /\ Now.pos = pos /\ Now.del = del /\ Now.speed = speed /\ Now.chip = selected
      /\ Now.writes = sounded /\ Now.time = time /\ Now.pc = pc
  BY StateFields DEF Now
<1>2. Now' = State(pos', del', speed', selected', sounded', time', pc')
  BY DEF Now
<1>3. data[Now.pos + 1] = Word /\ Word[1] = Param /\ Word[2] = Command /\ TickAt(Now) = Tick
  BY <1>1, SMT DEF Word, Param, Command, TickAt, Tick
<1>4. Over(Now) => pc = "fetch" /\ Command = 255 /\ Param = 255
  BY <1>1, <1>3 DEF Over, EndMarker
<1>5. CASE Idle
  <2>1. /\ pc = "ready" /\ del # 0 /\ del' = del - 1 /\ pc' = "ready" /\ time' = time + Tick
        /\ UNCHANGED <<speed, pos, selected, sounded>>
    BY <1>5 DEF Idle, Return
  <2> QED
    BY <1>1, <1>2, <1>3, <1>4, <2>1 DEF Advance
<1>6. CASE Begin
  <2>1. /\ pc = "ready" /\ del = 0 /\ pc' = "fetch"
        /\ UNCHANGED <<speed, pos, del, selected, sounded, time>>
    BY <1>6 DEF Begin
  <2> QED
    BY <1>1, <1>2, <1>3, <1>4, <2>1 DEF Advance
<1>7. CASE Delay
  <2>1. /\ pc = "fetch" /\ Command = 0 /\ del' = (Param - 1) % 256 /\ pos' = pos + 1
        /\ pc' = "ready" /\ time' = time + Tick
        /\ UNCHANGED <<speed, selected, sounded>>
    BY <1>7 DEF Delay, Fetching, Return
  <2> QED
    BY <1>1, <1>2, <1>3, <1>4, <2>1 DEF Advance
<1>8. CASE SetSpeed
  <2>1. pc = "fetch" /\ Command = 2 /\ Param = 0 /\ UNCHANGED <<del, selected, sounded, time>>
    BY <1>8 DEF SetSpeed, Fetching
  <2>2. CASE pos + 1 >= Len(data)
    <3>1. pos' = pos + 1 /\ pc' = "ready" /\ speed' = speed
      BY <1>8, <2>2 DEF SetSpeed, ReturnFalse
    <3> QED
      BY <1>1, <1>2, <1>3, <1>4, <2>1, <2>2, <3>1 DEF Advance
  <2>3. CASE ~(pos + 1 >= Len(data))
    <3>1. /\ speed' = data[pos + 2][1] + 256 * data[pos + 2][2]
          /\ pos' = pos + 2 /\ pc' = pc
      BY <1>8, <2>3 DEF SetSpeed
    <3> QED
      BY <1>1, <1>2, <1>3, <1>4, <2>1, <2>3, <3>1 DEF Advance
  <2> QED
    BY <2>2, <2>3
<1>9. CASE SelectChip
  <2>1. /\ pc = "fetch" /\ Command = 2 /\ Param # 0 /\ pos' = pos + 1
        /\ selected' = IF Param \in {1, 2} THEN Param - 1 ELSE selected
        /\ UNCHANGED <<speed, del, pc, sounded, time>>
    BY <1>9 DEF SelectChip, Fetching
  <2> QED
    BY <1>1, <1>2, <1>3, <1>4, <2>1 DEF Advance
<1>10. CASE NoWord
  <2>1. /\ pc = "fetch" /\ Command = 255 /\ Param # 255 /\ pos' = pos + 1
        /\ UNCHANGED <<speed, del, selected, pc, sounded, time>>
    BY <1>10 DEF NoWord, Fetching
  <2> QED
    BY <1>1, <1>2, <1>3, <1>4, <2>1 DEF Advance
<1>11. CASE WriteRegister
  <2>1. /\ pc = "fetch" /\ Command \notin {0, 2, 255} /\ pos' = pos + 1
        /\ sounded' = Append(sounded, [chip |-> selected, reg |-> Command, val |-> Param, at |-> time])
        /\ UNCHANGED <<speed, del, selected, pc, time>>
    BY <1>11 DEF WriteRegister, Fetching
  <2> QED
    BY <1>1, <1>2, <1>3, <1>4, <2>1 DEF Advance
<1> QED
  BY <1>5, <1>6, <1>7, <1>8, <1>9, <1>10, <1>11

(* Nothing but the place in a pass matters to the rest of it.              *)
THEOREM PassInvHolds == TapeSpec => []PassInv
<1>1. TapeInit => PassInv
  BY DEF TapeInit, PassInv
<1>2. PassInv /\ [TapeNext]_tapeVars => PassInv'
  <2> SUFFICES ASSUME PassInv, [TapeNext]_tapeVars, stage' # "record", ~AtEnd'
               PROVE  PassInv'
    BY DEF PassInv
  <2>1. CASE Record
    BY <2>1 DEF Record
  <2>2. ASSUME Now' = AtStart', lastpass' = NoPass PROVE PassInv'
    <3>1. PICK z : z = AtStart'
      OBVIOUS
    <3>2. PICK s : s[0] = z
      <4>1. [i \in {0} |-> z][0] = z
        OBVIOUS
      <4> QED
        BY <4>1
    <3>3. PICK n \in Nat : n = 0
      OBVIOUS
    <3>4. \A i \in 0 .. (n - 1) : FALSE
      BY <3>3
    <3>5. Path(s, n)'
      BY <3>1, <3>2, <3>4 DEF Path
    <3>6. n <= n /\ Now' = s[n]
      BY <2>2, <3>1, <3>2, <3>3
    <3>7. OnPath(s, n, n)'
      BY <2>2, <3>5, <3>6 DEF OnPath
    <3> QED
      BY <3>7 DEF PassInv
  <2>3. CASE LoadRecording \/ LoadCapture \/ PlayAgain
    <3>1. /\ lastpass' = NoPass /\ pc' = "ready" /\ pos' = 0 /\ del' = 0 /\ speed' = clock'
          /\ selected' = 0 /\ sounded' = <<>> /\ time' = 0
      <4>1. ASSUME NEW capture, load(capture)
            PROVE  /\ lastpass' = NoPass /\ pc' = "ready" /\ pos' = 0 /\ del' = 0
                   /\ speed' = clock' /\ selected' = 0 /\ sounded' = <<>> /\ time' = 0
        BY <4>1 DEF load, Rewound
      <4>2. CASE PlayAgain
        BY <4>2 DEF PlayAgain, rewind, Rewound
      <4> QED
        BY <2>3, <4>1, <4>2 DEF LoadRecording, LoadCapture
    <3>2. Now' = AtStart'
      BY <3>1 DEF Now, AtStart
    <3> QED
      BY <2>2, <3>1, <3>2
  <2>4. CASE PlayOn
    <3>1. rawupdate /\ stage # "record" /\ data' = data /\ clock' = clock
      <4>1. rawupdate => data' = data /\ clock' = clock
        BY DEF rawupdate, Exhausted, Idle, Begin, Delay, SetSpeed, SelectChip, SongOver,
               NoWord, WriteRegister
      <4> QED
        BY <2>4, <4>1 DEF PlayOn
    <3>2. ~Exhausted
      BY <3>1 DEF Exhausted, AtEnd
    <3>3. ~AtEnd
      BY <3>1, <3>2 DEF rawupdate, Idle, Begin, Delay, SetSpeed, SelectChip, SongOver,
                        NoWord, WriteRegister, Fetching
    <3>3a. PICK n \in Nat, k \in Nat : \E s : OnPath(s, n, k)
      BY <3>1, <3>3 DEF PassInv
    <3>4. PICK s :
            /\ k <= n /\ Path(s, n) /\ Now = s[k]
            /\ \/ k = n /\ lastpass = NoPass
               \/ Over(s[n]) /\ lastpass = [writes |-> s[n].writes, length |-> s[n].time]
      BY <3>3a DEF OnPath
    <3>5. Path(s, n)' /\ Over(s[n])' = Over(s[n])
      BY <3>1, <3>4 DEF Path, AtStart, Over, Advance, TickAt
    <3>6. Over(Now) => k = n
      BY <3>4 DEF Path
    <3>7. CASE SongOver
      <4>1. /\ pos' = 0 /\ del' = 0 /\ speed' = clock /\ selected' = 0 /\ sounded' = <<>>
            /\ time' = 0 /\ pc' = "ready" /\ lastpass' = [writes |-> sounded, length |-> time]
            /\ pc = "fetch" /\ Word = EndMarker
        BY <3>7 DEF SongOver, Rewound, ReturnFalse, Fetching
      <4>2. Now.pos = pos /\ Now.pc = pc /\ Now.writes = sounded /\ Now.time = time
        BY StateFields DEF Now
      <4>3. Over(Now) /\ k = n
        BY <3>6, <4>1, <4>2 DEF Over, Word
      <4>4. Now' = s[0]
        BY <3>1, <3>4, <4>1 DEF Now, Path, AtStart
      <4>5. Over(s[n]) /\ lastpass' = [writes |-> s[n].writes, length |-> s[n].time]
        BY <3>4, <4>1, <4>2, <4>3
      <4>6. OnPath(s, n, 0)'
        BY <3>5, <4>4, <4>5 DEF OnPath
      <4> QED
        BY <4>6 DEF PassInv
    <3>8. CASE ~SongOver
      <4>1. /\ Idle \/ Begin \/ Delay \/ SetSpeed \/ SelectChip \/ NoWord \/ WriteRegister
            /\ lastpass' = lastpass
        BY <3>1, <3>2, <3>8 DEF rawupdate, Idle, Begin, Delay, SetSpeed, SelectChip,
                                NoWord, WriteRegister
      <4>2. ~Over(Now) /\ Now' = Advance(Now)
        BY <4>1, StepsAdvance
      <4>3. CASE k = n
        <5>0. PICK q : q = Advance(Now)
          OBVIOUS
        <5>1. n + 1 \in Nat /\ n + 1 <= n + 1 /\ lastpass' = NoPass
          BY <3>4, <4>1, <4>2, <4>3
        <5>2. PICK r : r[n + 1] = q /\ \A i \in 0 .. n : r[i] = s[i]
          <6> DEFINE longer == [i \in 0 .. (n + 1) |-> IF i <= n THEN s[i] ELSE q]
          <6>1. longer[n + 1] = q /\ \A i \in 0 .. n : longer[i] = s[i]
            OBVIOUS
          <6> QED
            BY <6>1
        <5>3. r[n + 1] = Advance(s[n]) /\ ~Over(s[n])
          BY <3>4, <4>2, <4>3, <5>0, <5>2
        <5>4. Path(r, n + 1)
          <6>1. r[0] = AtStart
            BY <3>4, <5>2 DEF Path
          <6>2. ASSUME NEW i \in 0 .. n PROVE ~Over(r[i]) /\ r[i + 1] = Advance(r[i])
            <7>1. CASE i = n
              BY <5>2, <5>3, <7>1
            <7>2. CASE i # n
              <8>1. i \in 0 .. (n - 1) /\ i + 1 \in 0 .. n
                BY <7>2
              <8> QED
                BY <3>4, <5>2, <8>1 DEF Path
            <7> QED
              BY <7>1, <7>2
          <6>3. \A i \in 0 .. ((n + 1) - 1) : ~Over(r[i]) /\ r[i + 1] = Advance(r[i])
            BY <6>2
          <6> QED
            BY <6>1, <6>3 DEF Path
        <5>5. Path(r, n + 1)'
          BY <3>1, <5>4 DEF Path, AtStart, Over, Advance, TickAt
        <5>6. Now' = r[n + 1]
          BY <4>2, <5>0, <5>2
        <5>7. OnPath(r, n + 1, n + 1)'
          BY <5>1, <5>5, <5>6 DEF OnPath
        <5> QED
          BY <5>1, <5>7 DEF PassInv
      <4>4. CASE k # n
        <5>1. k + 1 \in Nat /\ k + 1 <= n /\ k \in 0 .. (n - 1)
          BY <3>4, <4>4
        <5>2. Now' = s[k + 1]
          BY <3>4, <4>2, <5>1 DEF Path
        <5>3. OnPath(s, n, k + 1)'
          BY <3>4, <3>5, <4>1, <4>4, <5>1, <5>2 DEF OnPath
        <5> QED
          BY <5>1, <5>3 DEF PassInv
      <4> QED
        BY <4>3, <4>4
    <3> QED
      BY <3>7, <3>8
  <2>5. CASE UNCHANGED tapeVars
    <3>1. /\ UNCHANGED <<data, clock, lastpass, stage>> /\ Now' = Now /\ ~AtEnd
      BY <2>5 DEF tapeVars, rawVars, Now, AtEnd
    <3>1a. PICK n \in Nat, k \in Nat : \E s : OnPath(s, n, k)
      BY <3>1 DEF PassInv
    <3>2. PICK s : OnPath(s, n, k)
      BY <3>1a
    <3>3. OnPath(s, n, k)'
      BY <3>1, <3>2, SMTT(30) DEF OnPath, Path, AtStart, Over, Advance, TickAt
    <3> QED
      BY <3>3 DEF PassInv
  <2> QED
    BY <2>1, <2>3, <2>4, <2>5 DEF TapeNext
<1> QED
  BY <1>1, <1>2, PTL DEF TapeSpec

(* A song that returns to its start sounds the same in every pass          *)
(* (EveryPassTheSame): nothing is left over from the last one.             *)
THEOREM PassesAreTheSame == TapeSpec => EveryPassTheSame
<1>1. PassInv /\ [TapeNext]_tapeVars
        => [SongOver /\ lastpass # NoPass => lastpass' = lastpass]_tapeVars
  <2> SUFFICES ASSUME PassInv, TapeNext, SongOver, lastpass # NoPass
               PROVE  lastpass' = lastpass
    OBVIOUS
  <2>1. stage # "record"
    <3>1. pc = "fetch" /\ pc' = "ready" /\ songend'
      BY DEF SongOver, Fetching, ReturnFalse
    <3>2. ~Record
      BY <3>1 DEF Record, rawVars
    <3>3. ~LoadRecording /\ ~LoadCapture
      BY <3>1 DEF LoadRecording, LoadCapture, load
    <3> QED
      BY <3>2, <3>3 DEF TapeNext, PlayOn, PlayAgain
  <2>2. ~AtEnd /\ Word = EndMarker /\ pc = "fetch"
        /\ lastpass' = [writes |-> sounded, length |-> time]
    BY DEF SongOver, Fetching
  <2>2a. PICK n \in Nat, k \in Nat : \E s : OnPath(s, n, k)
    BY <2>1, <2>2 DEF PassInv
  <2>3. PICK s :
          /\ k <= n /\ Path(s, n) /\ Now = s[k]
          /\ Over(s[n]) /\ lastpass = [writes |-> s[n].writes, length |-> s[n].time]
    BY <2>2, <2>2a DEF OnPath
  <2>4. Now.pos = pos /\ Now.pc = pc /\ Now.writes = sounded /\ Now.time = time
    BY StateFields DEF Now
  <2>5. Over(Now)
    BY <2>2, <2>4 DEF Over, Word
  <2>6. k = n
    BY <2>3, <2>5 DEF Path
  <2> QED
    BY <2>2, <2>3, <2>4, <2>6
<1> QED
  BY <1>1, PassInvHolds, PTL DEF TapeSpec, EveryPassTheSame

----------------------------------------------------------------------------
(* A replay is what was recorded.  Every place in the file has a mark, the *)
(* state in which a replay comes to that place.  The recorder adds words   *)
(* and marks at the end; the replayer moves along them.                    *)

Kinds == {"command", "length"}
FileClock == 65535              \* the length of a tick in the header

(* What a replay has done when it comes to a place in the file: writes     *)
(* made, time passed, chip and length of a tick; whether the word there is *)
(* a command or the length of a tick; and, behind a wait command, how much   *)
(* of its time is not in the tick that update() returns with.              *)
Marks == [count : Nat, at : Nat, chip : Chips, speed : Nat, word : Kinds, due : Nat]

Mark(n, t, c, s, g, d) ==
  [count |-> n, at |-> t, chip |-> c, speed |-> s, word |-> g, due |-> d]

Start == Mark(0, 0, 0, 65535, "command", 0)

ByteValue == 0 .. 255
Words == ByteValue \X ByteValue
Heard == [chip : Chips, reg : ByteValue, val : ByteValue, at : Nat, slack : Nat]
CommandRegisters == {0, 2, 255}

-----------------------------------------------------------------------------
(* From mark a, past word w, to mark b; hs is what was recorded, and bad   *)
(* says that chips were misplaced.                                         *)

WriteWord(a, w, b, hs, bad) ==
  /\ w[2] \notin CommandRegisters /\ a.count + 1 <= Len(hs)
  /\ hs[a.count + 1].reg = w[2] /\ hs[a.count + 1].val = w[1]
  /\ InTime(a.at, hs[a.count + 1].at, hs[a.count + 1].slack)
  /\ ~bad => a.chip = hs[a.count + 1].chip
  /\ b = Mark(a.count + 1, a.at, a.chip, a.speed, "command", 0)

WaitWord(a, w, b) ==
  LET delay == ((w[1] - 1) % 256) * a.speed
  IN  /\ w[2] = 0 /\ a.speed # 0
      /\ b = Mark(a.count, a.at + delay + a.speed, a.chip, a.speed, "command", delay)

SpeedWord(a, w, b) ==
  w = <<0, 2>> /\ b = Mark(a.count, a.at, a.chip, a.speed, "length", 0)

SpeedArgument(a, w, b) ==
  b = Mark(a.count, a.at, a.chip, w[1] + 256 * w[2], "command", 0)

ChipWord(a, w, b) ==
  w \in {<<1, 2>>, <<2, 2>>} /\ b = Mark(a.count, a.at, w[1] - 1, a.speed, "command", 0)

Past(a, w, b, hs, bad) ==
  IF a.word = "length" THEN SpeedArgument(a, w, b)
  ELSE \/ WriteWord(a, w, b, hs, bad) \/ WaitWord(a, w, b)
       \/ SpeedWord(a, w, b) \/ ChipWord(a, w, b)

Marked(m, f, hs, bad) ==
  /\ m \in [0 .. Len(f) -> Marks]
  /\ m[0] = Start
  /\ \A i \in 0 .. (Len(f) - 1) : Past(m[i], f[i + 1], m[i + 1], hs, bad)

(* A replay of the words f comes to their end with the mark last.          *)
Reaches(f, hs, bad, last) == \E m : Marked(m, f, hs, bad) /\ m[Len(f)] = last

(* The recorder between two calls: the last mark is where it is itself.    *)
LastMark(last) ==
  /\ last.count = Len(heard) /\ last.chip = fileChip /\ last.word = "command"
  /\ InTime(last.at, now, slack)
  /\ old_freq # 0 => last.speed = Clock(old_freq)
  /\ last.due <= old_freq

DiskInv ==
  /\ file \in Seq(Words) /\ heard \in Seq(Heard)
  /\ currChip \in Chips /\ fileChip \in Chips /\ nowrite \in BOOLEAN /\ misplaced \in BOOLEAN
  /\ now \in Nat /\ slack \in Nat
  /\ old_freq \in Periods \cup {0}
  /\ old_freq # 0 => diskDel = Wait(old_freq)
  /\ \E last \in Marks : Reaches(file, heard, misplaced, last) /\ LastMark(last)

-----------------------------------------------------------------------------
(* Division by a positive number, as the two bounds it lies between.       *)
LEMMA Division ==
  ASSUME NEW x \in Nat, NEW d \in Nat \ {0}
  PROVE  /\ x \div d \in Nat
         /\ d * (x \div d) <= x
         /\ x < d * (x \div d) + d
  OBVIOUS

(* Ticks of a period as the file has them: Wait(p) of them and one more,   *)
(* each of the length Clock(p), together the period or less of it by no    *)
(* more than Wait(p).  They fit their bytes.                               *)
LEMMA TicksOfPeriod ==
  ASSUME NEW p \in Periods
  PROVE  /\ p \in Nat /\ p # 0
         /\ Wait(p) \in 0 .. 255
         /\ Clock(p) \in Nat /\ Clock(p) # 0 /\ Clock(p) < 65535
         /\ Wait(p) * Clock(p) + Clock(p) <= p
         /\ p <= Wait(p) * Clock(p) + Clock(p) + Wait(p)
<1>1. p \in Nat /\ 1 <= p /\ p <= 65535 * 256 - 1
  <2>1. p \in 1 .. MaxPeriod
    BY DiskAssumption, SMT
  <2>2. MaxPeriod \in Int
    BY SMT DEF MaxPeriod
  <2>3. p \in Nat /\ 1 <= p /\ p <= MaxPeriod
    BY <2>1, <2>2, SMT
  <2> QED
    BY <2>3, SMT DEF MaxPeriod
<1> DEFINE w == p \div 65535
           c == p \div (w + 1)
<1>2. w \in Nat /\ 65535 * w <= p /\ p < 65535 * w + 65535
  BY <1>1
<1>3. w <= 255
  BY <1>1, <1>2
<1> HIDE DEF w
<1>4. c \in Nat /\ (w + 1) * c <= p /\ p < (w + 1) * c + (w + 1)
  <2>1. w + 1 \in Nat \ {0}
    BY <1>2
  <2>2. \A d \in Nat \ {0} : p \div d \in Nat /\ d * (p \div d) <= p /\ p < d * (p \div d) + d
    BY <1>1, Division
  <2> QED
    BY <2>1, <2>2
<1> HIDE DEF c
<1>5. (w + 1) * c = w * c + c
  BY <1>2, <1>4
<1>6. c # 0
  <2>1. ASSUME c = 0 PROVE FALSE
    <3>1. p < w + 1
      BY <1>2, <1>4, <2>1
    <3> QED
      BY <1>1, <1>2, <3>1
  <2> QED
    BY <2>1
<1>7. c < 65535
  <2>1. ASSUME c >= 65535 PROVE FALSE
    <3>1. (w + 1) * c >= (w + 1) * 65535
      BY <1>2, <1>4, <2>1
    <3> QED
      BY <1>1, <1>2, <1>4, <3>1
  <2> QED
    BY <1>4, <2>1
<1>8. c % 65536 = c
  BY <1>4, <1>7
<1>9. Wait(p) = w /\ Clock(p) = c
  BY <1>8 DEF Wait, Clock, w, c
<1>10. w \in 0 .. 255
  BY <1>2, <1>3
<1>11. w * c + c <= p /\ p <= w * c + c + w
  <2>1. w * c \in Int
    BY <1>2, <1>4
  <2> HIDE DEF w, c
  <2> QED
    BY <1>1, <1>2, <1>4, <1>5, <2>1
<1> QED
  BY <1>1, <1>4, <1>6, <1>7, <1>9, <1>10, <1>11

(* A mark is what its fields say.                                          *)
LEMMA MarkFields ==
  ASSUME NEW n \in Nat, NEW t \in Nat, NEW c \in Chips, NEW s \in Nat,
         NEW g \in Kinds, NEW d \in Nat
  PROVE  /\ Mark(n, t, c, s, g, d) \in Marks
         /\ Mark(n, t, c, s, g, d).count = n /\ Mark(n, t, c, s, g, d).at = t
         /\ Mark(n, t, c, s, g, d).chip = c /\ Mark(n, t, c, s, g, d).speed = s
         /\ Mark(n, t, c, s, g, d).word = g /\ Mark(n, t, c, s, g, d).due = d
  BY DEF Mark, Marks

LEMMA FieldsOfMark ==
  ASSUME NEW a \in Marks
  PROVE  /\ a.count \in Nat /\ a.at \in Nat /\ a.chip \in Chips /\ a.speed \in Nat
         /\ a.word \in Kinds /\ a.due \in Nat
         /\ a = Mark(a.count, a.at, a.chip, a.speed, a.word, a.due)
  BY DEF Mark, Marks

(* What is recorded later does not disturb the words before it.            *)
LEMMA PastStays ==
  ASSUME NEW a \in Marks, NEW b \in Marks, NEW w \in Words,
         NEW hs \in Seq(Heard), NEW more \in Seq(Heard),
         NEW bad \in BOOLEAN, NEW worse \in BOOLEAN, bad => worse,
         Past(a, w, b, hs, bad)
  PROVE  Past(a, w, b, hs \o more, worse)
<1>1. CASE a.word = "length"
  BY <1>1 DEF Past
<1>2. CASE a.word # "length" /\ WriteWord(a, w, b, hs, bad)
  <2> DEFINE k == a.count + 1
  <2>1. k \in 1 .. Len(hs) /\ Len(hs) \in Nat /\ Len(more) \in Nat
    BY <1>2 DEF WriteWord, Marks
  <2>2. Len(hs \o more) = Len(hs) + Len(more) /\ (hs \o more)[k] = hs[k]
    BY <2>1, ConcatProperties
  <2>3. WriteWord(a, w, b, hs \o more, worse)
    BY <1>2, <2>1, <2>2 DEF WriteWord
  <2> QED
    BY <1>2, <2>3 DEF Past
<1>3. CASE a.word # "length" /\ (WaitWord(a, w, b) \/ SpeedWord(a, w, b) \/ ChipWord(a, w, b))
  BY <1>3 DEF Past
<1> QED
  BY <1>1, <1>2, <1>3 DEF Past

(* Words with their marks are added at the end of a marked file.           *)
LEMMA Extended ==
  ASSUME NEW f \in Seq(Words), NEW g \in Seq(Words),
         NEW hs \in Seq(Heard), NEW more \in Seq(Heard),
         NEW bad \in BOOLEAN, NEW worse \in BOOLEAN, bad => worse,
         NEW e \in [0 .. Len(g) -> Marks], Reaches(f, hs, bad, e[0]),
         \A k \in 0 .. (Len(g) - 1) : Past(e[k], g[k + 1], e[k + 1], hs \o more, worse)
  PROVE  Reaches(f \o g, hs \o more, worse, e[Len(g)])
<1>1. PICK m : Marked(m, f, hs, bad) /\ m[Len(f)] = e[0]
  BY DEF Reaches
<1> DEFINE all == f \o g
           n == [i \in 0 .. Len(all) |-> IF i <= Len(f) THEN m[i] ELSE e[i - Len(f)]]
<1>2. Len(f) \in Nat /\ Len(g) \in Nat /\ all \in Seq(Words) /\ Len(all) = Len(f) + Len(g)
  BY ConcatProperties
<1>3. \A i \in 1 .. Len(all) : all[i] = IF i <= Len(f) THEN f[i] ELSE g[i - Len(f)]
  BY ConcatProperties
<1>4. m \in [0 .. Len(f) -> Marks] /\ m[0] = Start
  BY <1>1 DEF Marked
<1> HIDE DEF all
<1>5. n \in [0 .. Len(all) -> Marks]
  <2>1. ASSUME NEW i \in 0 .. Len(all) PROVE n[i] \in Marks
    <3>1. CASE i <= Len(f)
      <4>1. i \in 0 .. Len(f) /\ n[i] = m[i]
        BY <1>2, <3>1
      <4> QED
        BY <1>4, <4>1
    <3>2. CASE ~(i <= Len(f))
      <4>1. i - Len(f) \in 0 .. Len(g)
        BY <1>2, <3>2
      <4> QED
        BY <3>2, <4>1
    <3> QED
      BY <3>1, <3>2
  <2> QED
    BY <2>1
<1>6. n[0] = Start /\ n[Len(all)] = e[Len(g)]
  <2>1. n[0] = m[0]
    BY <1>2
  <2>2. CASE Len(g) = 0
    BY <1>1, <1>2, <1>4, <2>1, <2>2
  <2>3. CASE Len(g) # 0
    BY <1>2, <1>4, <2>1, <2>3
  <2> QED
    BY <2>2, <2>3
<1>7. ASSUME NEW i \in 0 .. (Len(all) - 1)
      PROVE  Past(n[i], all[i + 1], n[i + 1], hs \o more, worse)
  <2>1. i \in 0 .. Len(all) /\ i + 1 \in 0 .. Len(all) /\ i + 1 \in 1 .. Len(all)
    BY <1>2
  <2>2. CASE i < Len(f)
    <3>1. n[i] = m[i] /\ n[i + 1] = m[i + 1] /\ all[i + 1] = f[i + 1]
      <4>1. i <= Len(f) /\ i + 1 <= Len(f)
        BY <1>2, <2>1, <2>2
      <4>2. n[i] = m[i]
        BY <2>1, <4>1
      <4>3. n[i + 1] = m[i + 1]
        BY <2>1, <4>1
      <4>4. all[i + 1] = f[i + 1]
        BY <1>3, <2>1, <4>1
      <4> QED
        BY <4>2, <4>3, <4>4
    <3>2. Past(m[i], f[i + 1], m[i + 1], hs, bad)
      BY <1>1, <1>2, <2>2 DEF Marked
    <3>3. m[i] \in Marks /\ m[i + 1] \in Marks /\ f[i + 1] \in Words
      <4>1. i \in 0 .. Len(f) /\ i + 1 \in 0 .. Len(f) /\ i + 1 \in 1 .. Len(f)
        BY <1>2, <2>2
      <4> QED
        BY <1>4, <4>1, ElementOfSeq
    <3> QED
      BY <3>1, <3>2, <3>3, PastStays
  <2>3. CASE ~(i < Len(f))
    <3> DEFINE k == i - Len(f)
    <3>1. k \in 0 .. (Len(g) - 1)
      BY <1>2, <2>3
    <3>2. n[i + 1] = e[k + 1] /\ all[i + 1] = g[k + 1]
      BY <1>2, <1>3, <2>1, <2>3
    <3>3. n[i] = e[k]
      <4>1. CASE i = Len(f)
        BY <1>1, <1>2, <2>1, <4>1
      <4>2. CASE i # Len(f)
        BY <1>2, <2>1, <2>3, <4>2
      <4> QED
        BY <4>1, <4>2
    <3> QED
      BY <3>1, <3>2, <3>3
  <2> QED
    BY <2>2, <2>3
<1> QED
  <2>1. Marked(n, all, hs \o more, worse)
    BY <1>5, <1>6, <1>7 DEF Marked
  <2> QED
    BY <1>6, <2>1 DEF Reaches, all

-----------------------------------------------------------------------------
(* Each call of the recorder.                                              *)

(* The mark k writes behind another.                                       *)
Later(a, k) ==
  Mark(a.count + k, a.at, a.chip, a.speed, a.word, IF k = 0 THEN a.due ELSE 0)

LEMMA LaterMark ==
  ASSUME NEW a \in Marks, a.word = "command", NEW k \in Nat
  PROVE  /\ Later(a, k) \in Marks
         /\ Later(a, k).count = a.count + k
         /\ Later(a, k).due = IF k = 0 THEN a.due ELSE 0
         /\ Later(a, k).at = a.at /\ Later(a, k).chip = a.chip
         /\ Later(a, k).speed = a.speed /\ Later(a, k).word = "command"
         /\ Later(a, 0) = a
         /\ Later(a, k + 1) = Mark(Later(a, k).count + 1, Later(a, k).at, Later(a, k).chip,
                                   Later(a, k).speed, "command", 0)
<1> DEFINE due == IF k = 0 THEN a.due ELSE 0
<1>1. /\ a.count + k \in Nat /\ due \in Nat
      /\ a.count \in Nat /\ a.at \in Nat /\ a.chip \in Chips /\ a.speed \in Nat
      /\ a.word = "command" /\ a.count + 0 = a.count /\ a.count + (k + 1) = (a.count + k) + 1
      /\ k + 1 # 0
  BY FieldsOfMark
<1>2. Later(a, k) = Mark(a.count + k, a.at, a.chip, a.speed, "command", due)
  BY <1>1 DEF Later
<1> HIDE DEF due
<1>3. /\ Later(a, k) \in Marks
      /\ Later(a, k).count = a.count + k /\ Later(a, k).due = due
      /\ Later(a, k).at = a.at /\ Later(a, k).chip = a.chip
      /\ Later(a, k).speed = a.speed /\ Later(a, k).word = "command"
  <2>1. "command" \in Kinds
    BY DEF Kinds
  <2> QED
    BY <1>1, <1>2, <2>1 DEF Mark, Marks
<1>4. Later(a, 0) = a
  BY <1>1, FieldsOfMark DEF Later
<1>5. Later(a, k + 1) = Mark((a.count + k) + 1, a.at, a.chip, a.speed, "command", 0)
  BY <1>1 DEF Later
<1> QED
  BY <1>3, <1>4, <1>5 DEF due

(* Writes: as many marks as words, each with one more write made.          *)
LEMMA WritesMarked ==
  ASSUME DiskInv, NEW words \in Seq(Words), diskwrite(words),
         \A i \in 1 .. Len(words) : words[i][2] \notin CommandRegisters
  PROVE  DiskInv'
<1> DEFINE more == [i \in DOMAIN words |->
                      [chip |-> currChip, reg |-> words[i][2], val |-> words[i][1],
                       at |-> now, slack |-> slack]]
<1>1. PICK last \in Marks : Reaches(file, heard, misplaced, last) /\ LastMark(last)
  BY DEF DiskInv
<1>2. /\ file' = file \o words /\ heard' = heard \o more
      /\ misplaced' = (misplaced \/ fileChip # currChip)
      /\ UNCHANGED <<currChip, old_freq, diskDel, nowrite, now, slack, fileChip>>
  BY DEF diskwrite, Hears
<1>3. /\ file \in Seq(Words) /\ heard \in Seq(Heard) /\ Len(heard) \in Nat
      /\ currChip \in Chips /\ now \in Nat /\ slack \in Nat /\ misplaced \in BOOLEAN
      /\ old_freq \in Nat
  BY TicksOfPeriod DEF DiskInv
<1>4. Len(words) \in Nat /\ DOMAIN words = 1 .. Len(words)
  BY LenProperties
<1>5. more \in Seq(Heard) /\ Len(more) = Len(words)
  <2>1. \A i \in 1 .. Len(words) : words[i][1] \in ByteValue /\ words[i][2] \in ByteValue
    BY <1>4, ElementOfSeq DEF Words
  <2>2. more \in [1 .. Len(words) -> Heard]
    BY <1>3, <1>4, <2>1 DEF Heard
  <2>3. more \in Seq(Heard)
    BY <1>4, <2>2, IsASeq
  <2> QED
    BY <1>4, <2>2, <2>3, LenProperties
<1>6. \A i \in 1 .. Len(words) : more[i] = [chip |-> currChip, reg |-> words[i][2],
                                   val |-> words[i][1], at |-> now, slack |-> slack]
  BY <1>4
<1> HIDE DEF more
<1>7. heard' \in Seq(Heard) /\ file' \in Seq(Words) /\ Len(heard') = Len(heard) + Len(words)
  BY ZenonT(60), <1>2, <1>3, <1>5, ConcatProperties
<1> DEFINE e == [k \in 0 .. Len(words) |-> Later(last, k)]
<1>8. last.count = Len(heard) /\ last.count \in Nat /\ last.due \in Nat /\ last.word = "command"
  BY <1>1, FieldsOfMark DEF LastMark
<1>9. \A k \in Nat :
             /\ Later(last, k) \in Marks
             /\ Later(last, k).count = last.count + k
             /\ Later(last, k).due = IF k = 0 THEN last.due ELSE 0
             /\ Later(last, k).at = last.at /\ Later(last, k).chip = last.chip
             /\ Later(last, k).speed = last.speed /\ Later(last, k).word = "command"
             /\ Later(last, 0) = last
             /\ Later(last, k + 1) = Mark(Later(last, k).count + 1, Later(last, k).at,
                                    Later(last, k).chip, Later(last, k).speed, "command", 0)
  BY <1>8, LaterMark
<1>10. last \in Marks
  BY <1>1
<1>11. e \in [0 .. Len(words) -> Marks] /\ e[0] = last
  <2>1. \A k \in 0 .. Len(words) : Later(last, k) \in Marks
    BY <1>4, <1>9
  <2>2. 0 \in 0 .. Len(words) /\ Later(last, 0) = last
    BY <1>4, <1>9
  <2> QED
    BY <2>1, <2>2
<1>12. ASSUME NEW k \in 0 .. (Len(words) - 1)
       PROVE  Past(e[k], words[k + 1], e[k + 1], heard \o more, misplaced')
  <2>1. k \in 0 .. Len(words) /\ k + 1 \in 0 .. Len(words) /\ k + 1 \in 1 .. Len(words)
    BY <1>4
  <2>2. e[k] = Later(last, k) /\ e[k + 1] = Later(last, k + 1) /\ k \in Nat
    BY <2>1
  <2> HIDE DEF e
  <2>3. Later(last, k).count + 1 = Len(heard) + (k + 1)
    <3>1. Later(last, k).count = Len(heard) + k
      BY <1>8, <1>9, <2>2
    <3> QED
      BY <1>3, <2>2, <3>1
  <2>4. (heard \o more)[Len(heard) + (k + 1)] = more[k + 1]
    BY <1>3, <1>5, <2>1, ConcatProperties
  <2>5. Later(last, k).count + 1 <= Len(heard \o more)
    BY <1>3, <1>5, <2>1, <2>3, ConcatProperties
  <2>6. InTime(Later(last, k).at, now, slack)
    BY <1>1, <1>9, <2>2 DEF LastMark
  <2>7. ~misplaced' => Later(last, k).chip = currChip
    BY <1>1, <1>2, <1>9, <2>2 DEF LastMark
  <2>8. words[k + 1][2] \notin CommandRegisters
    BY <2>1
  <2>9. Later(last, k + 1) = Mark(Later(last, k).count + 1, Later(last, k).at,
                              Later(last, k).chip, Later(last, k).speed, "command", 0)
    BY <1>9, <2>2
  <2> DEFINE h == (heard \o more)[Later(last, k).count + 1]
  <2>10. h.chip = currChip /\ h.reg = words[k + 1][2] /\ h.val = words[k + 1][1]
         /\ h.at = now /\ h.slack = slack
    <3>1. h = more[k + 1]
      BY <2>3, <2>4
    <3>2. more[k + 1] = [chip |-> currChip, reg |-> words[k + 1][2], val |-> words[k + 1][1],
                         at |-> now, slack |-> slack]
      BY <1>6, <2>1
    <3> HIDE DEF h
    <3> QED
      BY <3>1, <3>2
  <2>11. WriteWord(Later(last, k), words[k + 1], Later(last, k + 1), heard \o more, misplaced')
    BY <2>5, <2>6, <2>7, <2>8, <2>9, <2>10 DEF WriteWord
  <2> QED
    BY <1>9, <2>2, <2>11 DEF Past
<1>13. e[Len(words)] = Later(last, Len(words))
  BY <1>4
<1>14. LastMark(Later(last, Len(words)))'
  <2> DEFINE l == Later(last, Len(words))
  <2>1. l.count = Len(heard') /\ l.chip = fileChip' /\ l.word = "command"
    BY <1>1, <1>2, <1>4, <1>7, <1>8, <1>9 DEF LastMark
  <2>2. InTime(l.at, now', slack') /\ (old_freq' # 0 => l.speed = Clock(old_freq'))
    BY <1>1, <1>2, <1>4, <1>9 DEF LastMark
  <2>3. l.due <= old_freq'
    <3>1. l.due \in {last.due, 0}
      BY <1>4, <1>9
    <3>2. last.due <= old_freq /\ old_freq' = old_freq
      BY <1>1, <1>2 DEF LastMark
    <3> HIDE DEF l
    <3> QED
      BY <1>3, <3>1, <3>2
  <2> QED
    BY <2>1, <2>2, <2>3 DEF LastMark
<1>15. misplaced' \in BOOLEAN /\ (misplaced => misplaced')
  BY <1>2, <1>3
<1> HIDE DEF e
<1>16. Reaches(file', heard', misplaced', Later(last, Len(words)))
  <2>1. Reaches(file, heard, misplaced, e[0])
    BY <1>1, <1>11
  <2>2. Reaches(file \o words, heard \o more, misplaced', e[Len(words)])
    BY <1>3, <1>5, <1>11, <1>12, <1>15, <2>1, Extended
  <2> QED
    BY <1>2, <1>13, <2>2
<1>17. Later(last, Len(words)) \in Marks
  BY <1>4, <1>9
<1> QED
  BY <1>2, <1>7, <1>14, <1>15, <1>16, <1>17 DEF DiskInv

(* One word more.                                                          *)
LEMMA OneMore ==
  ASSUME NEW f \in Seq(Words), NEW w \in Words, NEW hs \in Seq(Heard),
         NEW bad \in BOOLEAN, NEW a \in Marks, NEW b \in Marks,
         Reaches(f, hs, bad, a), Past(a, w, b, hs, bad)
  PROVE  Reaches(f \o <<w>>, hs, bad, b)
<1> DEFINE g == <<w>>
           e == [k \in 0 .. Len(g) |-> IF k = 0 THEN a ELSE b]
<1>1. g \in Seq(Words) /\ Len(g) = 1 /\ g[1] = w
  OBVIOUS
<1>2. <<>> \in Seq(Heard) /\ hs \o <<>> = hs
  BY ConcatEmptySeq
<1>3. e \in [0 .. Len(g) -> Marks] /\ e[0] = a /\ e[1] = b /\ e[Len(g)] = b
  BY <1>1
<1>4. ASSUME NEW k \in 0 .. (Len(g) - 1)
      PROVE  Past(e[k], g[k + 1], e[k + 1], hs \o <<>>, bad)
  <2>1. k = 0 /\ k + 1 = 1
    BY <1>1
  <2> QED
    BY <1>1, <1>2, <1>3, <2>1
<1> HIDE DEF e, g
<1>5. Reaches(f, hs, bad, e[0])
  BY <1>3
<1>6. Reaches(f \o g, hs \o <<>>, bad, e[Len(g)])
  BY <1>1, <1>2, <1>3, <1>4, <1>5, Extended
<1> QED
  BY <1>2, <1>3, <1>6 DEF g

(* A chip is selected, in the file unless it is hidden from it.            *)
LEMMA ChipMarked ==
  ASSUME DiskInv, NEW n \in Chips, setchip(n)
  PROVE  DiskInv'
<1>1. PICK last \in Marks : Reaches(file, heard, misplaced, last) /\ LastMark(last)
  BY DEF DiskInv
<1>2. /\ currChip' = n
      /\ UNCHANGED <<old_freq, diskDel, nowrite, heard, now, slack, misplaced>>
  BY DEF setchip
<1>3. CASE nowrite
  <2>1. UNCHANGED <<file, fileChip>>
    BY <1>3 DEF setchip
  <2> QED
    BY <1>1, <1>2, <2>1 DEF DiskInv, LastMark
<1>4. CASE ~nowrite
  <2> DEFINE w == <<n + 1, 2>>
             b == Mark(last.count, last.at, w[1] - 1, last.speed, "command", 0)
  <2>1. file' = Append(file, w) /\ fileChip' = n
    BY <1>4 DEF setchip
  <2>2. n \in 0 .. 1 /\ w[1] - 1 = n /\ w \in Words /\ w \in {<<1, 2>>, <<2, 2>>} /\ w[2] = 2
    BY DEF Chips, Words, ByteValue
  <2>3. file' = file \o <<w>> /\ file' \in Seq(Words)
    <3>1. file \in Seq(Words) /\ w \in Words
      BY <2>2 DEF DiskInv
    <3> HIDE DEF w
    <3>2. Append(file, w) = file \o <<w>> /\ Append(file, w) \in Seq(Words)
      BY <3>1, AppendIsConcat, AppendProperties
    <3> QED
      BY <2>1, <3>2
  <2>4. /\ last.count \in Nat /\ last.at \in Nat /\ last.speed \in Nat
        /\ last.word = "command" /\ "command" \in Kinds
    BY <1>1, FieldsOfMark DEF LastMark, Kinds
  <2>5. ChipWord(last, w, b)
    BY <2>2 DEF ChipWord
  <2> HIDE DEF w
  <2>6. /\ b \in Marks /\ b.count = last.count /\ b.at = last.at /\ b.chip = n
        /\ b.speed = last.speed /\ b.word = "command" /\ b.due = 0
    BY <2>2, <2>4 DEF Mark, Marks
  <2> HIDE DEF b
  <2>7. Past(last, w, b, heard, misplaced)
    BY <2>4, <2>5 DEF Past
  <2>8. Reaches(file \o <<w>>, heard, misplaced, b)
    BY <1>1, <2>2, <2>6, <2>7, OneMore DEF DiskInv
  <2>9. 0 <= old_freq
    BY TicksOfPeriod DEF DiskInv
  <2>10. LastMark(b)'
    BY <1>1, <1>2, <2>1, <2>6, <2>9 DEF LastMark
  <2> QED
    BY <1>2, <2>1, <2>3, <2>6, <2>8, <2>10 DEF DiskInv
<1> QED
  BY <1>3, <1>4

(* A tick of the player: the length of its ticks if it is a new one, and   *)
(* the wait unless it is hidden from the file.                             *)
LEMMA TickMarked ==
  ASSUME DiskInv, NEW period \in Periods, update(period)
  PROVE  DiskInv'
<1>1. PICK last \in Marks : Reaches(file, heard, misplaced, last) /\ LastMark(last)
  BY DEF DiskInv
<1>2. /\ period \in Nat /\ period # 0 /\ Wait(period) \in 0 .. 255 /\ Clock(period) \in Nat
      /\ Clock(period) # 0 /\ Clock(period) < 65535
  BY TicksOfPeriod
<1>3. /\ last.count \in Nat /\ last.at \in Nat /\ last.chip \in Chips /\ last.speed \in Nat
      /\ last.due \in Nat /\ last.word = "command" /\ "command" \in Kinds /\ "length" \in Kinds
  BY <1>1, FieldsOfMark DEF LastMark, Kinds
<1> DEFINE f1 == file \o (IF period # old_freq THEN SpeedWords(period) ELSE <<>>)
           w == DelayWord(Wait(period))
<1>4. /\ old_freq' = period /\ diskDel' = Wait(period)
      /\ file' = f1 \o (IF nowrite THEN <<>> ELSE <<w>>)
      /\ IF nowrite THEN UNCHANGED <<now, slack>>
         ELSE now' = now + period /\ slack' = slack + Wait(period)
      /\ UNCHANGED <<currChip, nowrite, heard, fileChip, misplaced>>
  <2>1. Wait(period) % 256 = Wait(period)
    BY <1>2
  <2>2. period = old_freq => diskDel = Wait(period)
    BY <1>2 DEF DiskInv
  <2> QED
    BY <2>1, <2>2 DEF update
<1>5. f1 \in Seq(Words) /\ \E m \in Marks :
         /\ Reaches(f1, heard, misplaced, m)
         /\ m.count = last.count /\ m.at = last.at /\ m.chip = last.chip
         /\ m.speed = Clock(period) /\ m.word = "command" /\ m.due <= period
  <2>1. CASE period = old_freq
    <3>1. f1 = file
      BY <2>1, ConcatEmptySeq DEF DiskInv
    <3>2. last.speed = Clock(period) /\ last.due <= period
      BY <1>1, <1>2, <2>1 DEF LastMark
    <3> QED
      BY <1>1, <1>3, <3>1, <3>2 DEF DiskInv
  <2>2. CASE period # old_freq
    <3> DEFINE w1 == <<0, 2>>
               w2 == <<Clock(period) % 256, Clock(period) \div 256>>
               m1 == Mark(last.count, last.at, last.chip, last.speed, "length", 0)
               m2 == Mark(last.count, last.at, last.chip, w2[1] + 256 * w2[2], "command", 0)
    <3>1. w1 \in Words
      BY DEF Words, ByteValue
    <3>2. w2 \in Words /\ w2[1] + 256 * w2[2] = Clock(period)
      <4>1. /\ Clock(period) % 256 \in 0 .. 255 /\ Clock(period) \div 256 \in 0 .. 255
            /\ (Clock(period) % 256) + 256 * (Clock(period) \div 256) = Clock(period)
        BY <1>2, SMT
      <4> QED
        BY <4>1 DEF Words, ByteValue
    <3>3. f1 = (file \o <<w1>>) \o <<w2>>
      <4>1. SpeedWords(period) = <<w1>> \o <<w2>>
        BY DEF SpeedWords
      <4>2. <<w1>> \in Seq(Words) /\ <<w2>> \in Seq(Words) /\ file \in Seq(Words)
        BY <3>1, <3>2 DEF DiskInv
      <4> HIDE DEF w1, w2
      <4> QED
        BY <2>2, <4>1, <4>2, ConcatAssociative
    <3>4. SpeedWord(last, w1, m1)
      BY DEF SpeedWord
    <3>5. SpeedArgument(m1, w2, m2)
      BY DEF SpeedArgument, Mark
    <3> HIDE DEF w1, w2
    <3>6. m1 \in Marks /\ m1.word = "length"
      BY <1>3 DEF Mark, Marks
    <3>7. /\ m2 \in Marks /\ m2.count = last.count /\ m2.at = last.at /\ m2.chip = last.chip
          /\ m2.speed = Clock(period) /\ m2.word = "command" /\ m2.due = 0
      BY <1>2, <1>3, <3>2 DEF Mark, Marks
    <3> HIDE DEF m1, m2
    <3>8. Past(last, w1, m1, heard, misplaced) /\ Past(m1, w2, m2, heard, misplaced)
      BY <1>3, <3>4, <3>5, <3>6 DEF Past
    <3>9. file \o <<w1>> \in Seq(Words) /\ f1 \in Seq(Words)
      <4>1. <<w1>> \in Seq(Words) /\ <<w2>> \in Seq(Words) /\ file \in Seq(Words)
        BY <3>1, <3>2 DEF DiskInv
      <4>2. file \o <<w1>> \in Seq(Words)
        BY <4>1, ConcatProperties
      <4> HIDE DEF f1
      <4> QED
        BY <3>3, <4>1, <4>2, ConcatProperties
    <3>10. Reaches(file \o <<w1>>, heard, misplaced, m1)
      BY <1>1, <3>1, <3>6, <3>8, OneMore DEF DiskInv
    <3>11. Reaches((file \o <<w1>>) \o <<w2>>, heard, misplaced, m2)
      BY <3>2, <3>6, <3>7, <3>8, <3>9, <3>10, OneMore, ZenonT(60) DEF DiskInv
    <3> HIDE DEF f1
    <3>12. m2.due <= period
      BY <1>2, <3>7
    <3> QED
      BY <3>3, <3>7, <3>9, <3>11, <3>12
  <2> QED
    BY <2>1, <2>2
<1> HIDE DEF f1
<1>6. PICK m \in Marks :
         /\ Reaches(f1, heard, misplaced, m)
         /\ m.count = last.count /\ m.at = last.at /\ m.chip = last.chip
         /\ m.speed = Clock(period) /\ m.word = "command" /\ m.due <= period
  BY <1>5
<1>7. CASE nowrite
  <2>1. file' = f1
    BY <1>4, <1>5, <1>7, ConcatEmptySeq
  <2>2. LastMark(m)'
    BY <1>1, <1>4, <1>6, <1>7 DEF LastMark
  <2>3. now' \in Nat /\ slack' \in Nat
    BY <1>4, <1>7 DEF DiskInv
  <2> QED
    BY <1>4, <1>5, <1>6, <2>1, <2>2, <2>3 DEF DiskInv
<1>8. CASE ~nowrite
  <2> DEFINE d == Wait(period)
             c == Clock(period)
             b == Mark(m.count, m.at + d * c + c, m.chip, c, "command", d * c)
  <2>1. now' = now + period /\ slack' = slack + d /\ now \in Nat /\ slack \in Nat
    BY <1>4, <1>8 DEF DiskInv
  <2>2. d * c \in Nat
    BY <1>2
  <2>3. d * c + c <= period /\ period <= d * c + c + d
    BY TicksOfPeriod
  <2>4. w \in Words /\ w[2] = 0 /\ (w[1] - 1) % 256 = d
    <3>1. (d + 1) % 256 \in 0 .. 255 /\ (((d + 1) % 256) - 1) % 256 = d
      BY <1>2
    <3> QED
      BY <3>1 DEF DelayWord, Words, ByteValue
  <2>5. WaitWord(m, w, b)
    BY <1>2, <1>6, <2>4 DEF WaitWord
  <2>6. d \in Nat /\ c \in Nat
    BY <1>2
  <2> HIDE DEF w, d, c
  <2>7. /\ b \in Marks /\ b.count = last.count /\ b.at = last.at + d * c + c
        /\ b.chip = last.chip /\ b.speed = c /\ b.word = "command" /\ b.due = d * c
    <3>1. last.at + d * c + c \in Nat
      BY <1>3, <2>2, <2>6
    <3> QED
      BY <1>3, <1>6, <2>2, <2>6, <3>1 DEF Mark, Marks
  <2> HIDE DEF b
  <2>8. Past(m, w, b, heard, misplaced)
    BY <1>6, <2>5 DEF Past
  <2>9. Reaches(f1 \o <<w>>, heard, misplaced, b) /\ file' = f1 \o <<w>>
    BY <1>4, <1>5, <1>6, <1>8, <2>4, <2>7, <2>8, OneMore DEF DiskInv
  <2>10. file' \in Seq(Words)
    <3>1. <<w>> \in Seq(Words)
      BY <2>4
    <3> QED
      BY <1>5, <2>9, <3>1, ConcatProperties
  <2>11. InTime(b.at, now', slack')
    <3> DEFINE x == d * c
    <3>1. last.at <= now /\ now - slack <= last.at
      BY <1>1 DEF LastMark, InTime
    <3>2. x \in Nat /\ x + c <= period /\ period <= x + c + d /\ b.at = last.at + x + c
      BY <2>2, <2>3, <2>7
    <3> HIDE DEF x
    <3> QED
      BY <1>2, <1>3, <2>1, <2>6, <3>1, <3>2 DEF InTime
  <2>12. b.due <= period
    BY <1>2, <2>2, <2>3, <2>6, <2>7
  <2>13. LastMark(b)'
    <3>1. old_freq' = period /\ b.speed = Clock(period)
      BY <1>4, <2>7 DEF c
    <3>2. b.count = Len(heard') /\ b.chip = fileChip' /\ b.word = "command"
      BY <1>1, <1>4, <2>7 DEF LastMark
    <3> QED
      BY <2>11, <2>12, <3>1, <3>2 DEF LastMark
  <2>14. now' \in Nat /\ slack' \in Nat
    BY <1>2, <2>1, <2>6
  <2> QED
    BY <1>4, <2>7, <2>9, <2>10, <2>13, <2>14 DEF DiskInv
<1> QED
  BY <1>7, <1>8

(* init() writes to no register that is a command.                         *)
LEMMA StopsAreWrites ==
  LET words == Append(StopInstruments, <<0, 189>>)
  IN  /\ words \in Seq(Words)
      /\ \A i \in 1 .. Len(words) : words[i][2] \notin CommandRegisters
<1> DEFINE words == Append(StopInstruments, <<0, 189>>)
           n == 2 * Channels
<1>1. n \in 2 .. 18 /\ n \in Nat
  BY DiskAssumption
<1>2. ASSUME NEW i \in 1 .. n
      PROVE  StopInstruments[i] \in Words /\ StopInstruments[i][2] \in 128 .. 184
  <2>1. i \in 1 .. 18 /\ i \in Nat
    BY <1>1
  <2>2. CASE i % 2 = 1
    <3>1. StopInstruments[i] = <<0, 176 + i \div 2>>
      BY <2>2 DEF StopInstruments
    <3>2. 176 + i \div 2 \in 176 .. 184
      BY <2>1, <2>2
    <3> QED
      BY <3>1, <3>2 DEF Words, ByteValue
  <2>3. CASE i % 2 # 1
    <3>1. StopInstruments[i] = <<255, 128 + op_table[i \div 2]>>
      BY <2>3 DEF StopInstruments
    <3>2. i \div 2 \in 1 .. 9
      BY <2>1, <2>3
    <3>3. op_table[i \div 2] \in 0 .. 18
      BY <3>2 DEF op_table
    <3>4. 128 + op_table[i \div 2] \in 128 .. 146
      BY <3>3
    <3> QED
      BY <3>1, <3>4 DEF Words, ByteValue
  <2> QED
    BY <2>2, <2>3
<1>3. StopInstruments \in Seq(Words) /\ Len(StopInstruments) = n
  <2>1. StopInstruments \in [1 .. n -> Words]
    BY <1>2 DEF StopInstruments
  <2> QED
    BY <1>1, <2>1, IsASeq, LenProperties
<1>4. <<0, 189>> \in Words /\ <<0, 189>>[2] = 189
  BY DEF Words, ByteValue
<1>5. /\ words \in Seq(Words) /\ Len(words) = n + 1
      /\ \A i \in 1 .. n : words[i] = StopInstruments[i]
      /\ words[n + 1] = <<0, 189>>
  BY <1>3, <1>4, AppendProperties
<1> HIDE DEF words
<1>6. ASSUME NEW i \in 1 .. Len(words) PROVE words[i][2] \notin CommandRegisters
  <2> DEFINE r == words[i][2]
  <2>1. CASE i \in 1 .. n
    <3>1. r = StopInstruments[i][2]
      BY <1>5, <2>1
    <3> HIDE DEF r
    <3>2. r \in 128 .. 184
      BY <1>2, <2>1, <3>1
    <3>3. r \notin CommandRegisters
      BY <3>2 DEF CommandRegisters
    <3> QED
      BY <3>3 DEF r
  <2>2. CASE i = n + 1
    <3>1. r = 189
      BY <1>4, <1>5, <2>2
    <3> HIDE DEF r
    <3>2. r \notin CommandRegisters
      BY <3>1 DEF CommandRegisters
    <3> QED
      BY <3>2 DEF r
  <2> QED
    BY <1>1, <1>5, <2>1, <2>2
<1> QED
  BY <1>5, <1>6 DEF words

LEMMA RecordingStarts == DiskInit => DiskInv
<1> SUFFICES ASSUME DiskInit PROVE DiskInv
  OBVIOUS
<1> DEFINE m == [i \in 0 .. 0 |-> Start]
<1>1. "command" \in Kinds /\ 0 \in Chips
  BY DEF Kinds, Chips
<1>2. /\ Start \in Marks /\ Start.count = 0 /\ Start.at = 0 /\ Start.chip = 0
      /\ Start.word = "command" /\ Start.due = 0
  BY <1>1, SMT DEF Start, Mark, Marks
<1>3. Reaches(<<>>, <<>>, FALSE, Start)
  <2> DEFINE f == <<>>
  <2>1. Len(f) = 0
    OBVIOUS
  <2>2. m \in [0 .. 0 -> Marks] /\ m[0] = Start
    BY <1>2
  <2> HIDE DEF f, m
  <2>3. \A i \in 0 .. (Len(f) - 1) : FALSE
    BY <2>1
  <2>4. Marked(m, f, <<>>, FALSE)
    BY <2>1, <2>2, <2>3 DEF Marked
  <2>5. Reaches(f, <<>>, FALSE, Start)
    BY <2>1, <2>2, <2>4 DEF Reaches
  <2> QED
    BY <2>5 DEF f
<1>4. LastMark(Start)
  BY <1>2 DEF DiskInit, LastMark, InTime
<1>5. \E last \in Marks : Reaches(file, heard, misplaced, last) /\ LastMark(last)
  BY <1>2, <1>3, <1>4 DEF DiskInit
<1>6. file \in Seq(Words) /\ heard \in Seq(Heard) /\ misplaced \in BOOLEAN
  BY EmptySeq DEF DiskInit
<1>7. /\ currChip \in Chips /\ fileChip \in Chips /\ nowrite \in BOOLEAN
      /\ now \in Nat /\ slack \in Nat /\ old_freq = 0
  BY <1>1 DEF DiskInit
<1> QED
  BY <1>5, <1>6, <1>7 DEF DiskInv

LEMMA RecordingGoesOn ==
  ASSUME Registers \cap CommandRegisters = {}, DiskInv, DiskNext
  PROVE  DiskInv'
<1>1. ASSUME NEW reg \in Registers, NEW val \in Values, write(reg, val) PROVE DiskInv'
  <2>1. CASE nowrite
    <3>1. UNCHANGED diskVars
      BY <1>1, <2>1 DEF write
    <3> QED
      BY <3>1 DEF diskVars, DiskInv, LastMark
  <2>2. CASE ~nowrite
    <3> DEFINE words == << <<val, reg>> >>
    <3>1. reg \in ByteValue /\ val \in ByteValue /\ reg \notin CommandRegisters
      BY DiskAssumption DEF ByteValue
    <3>2. words \in Seq(Words) /\ Len(words) = 1 /\ words[1][2] = reg
      BY <3>1 DEF Words
    <3>3. diskwrite(words)
      BY <1>1, <2>2 DEF write
    <3> HIDE DEF words
    <3>4. \A i \in 1 .. Len(words) : words[i][2] \notin CommandRegisters
      BY <3>1, <3>2
    <3> QED
      BY <3>2, <3>3, <3>4, WritesMarked
  <2> QED
    BY <2>1, <2>2
<1>2. CASE diskinit
  <2> DEFINE words == Append(StopInstruments, <<0, 189>>)
  <2>1. diskwrite(words)
    BY <1>2 DEF diskinit
  <2>2. words \in Seq(Words) /\ \A i \in 1 .. Len(words) : words[i][2] \notin CommandRegisters
    BY StopsAreWrites
  <2> HIDE DEF words
  <2> QED
    BY <2>1, <2>2, WritesMarked
<1>3. ASSUME NEW n \in Chips, setchip(n) PROVE DiskInv'
  BY <1>3, ChipMarked
<1>4. ASSUME NEW nw \in BOOLEAN, setnowrite(nw) PROVE DiskInv'
  BY <1>4 DEF setnowrite, DiskInv, LastMark
<1>5. ASSUME NEW period \in Periods, update(period) PROVE DiskInv'
  BY <1>5, TickMarked
<1> QED
  BY <1>1, <1>2, <1>3, <1>4, <1>5 DEF DiskNext

-----------------------------------------------------------------------------
(* The replayer is at a place of the file when it is in the state that the *)
(* mark there names, but for the ticks that update() still has to idle.    *)
Sounds == [chip : Chips, reg : ByteValue, val : ByteValue, at : Nat]

At(here) ==
  /\ here.word = "command" /\ here.count = Len(sounded)
  /\ here.chip = selected /\ here.speed = speed
  /\ here.at = time + del * speed /\ del * speed <= here.due

Matches(s, h) ==
  /\ s.reg = h.reg /\ s.val = h.val /\ InTime(s.at, h.at, h.slack)
  /\ ~misplaced => s.chip = h.chip

ReplayInv ==
  /\ data = file /\ clock = FileClock /\ songend = FALSE
  /\ pos \in 0 .. Len(file) /\ del \in Nat /\ time \in Nat /\ speed \in Nat
  /\ del # 0 => speed # 0
  /\ pc = "fetch" => del = 0
  /\ ~ret => pos = Len(file)
  /\ sounded \in Seq(Sounds) /\ Len(sounded) <= Len(heard)
  /\ \A i \in 1 .. Len(sounded) : Matches(sounded[i], heard[i])
  /\ \E m : Marked(m, file, heard, misplaced) /\ LastMark(m[Len(file)]) /\ At(m[pos])

TapeInv == DiskInv /\ (stage = "replay" => ReplayInv)

LEMMA MarksOfWord ==
  ASSUME DiskInv, NEW m, Marked(m, file, heard, misplaced), NEW i \in 0 .. (Len(file) - 1)
  PROVE  /\ file[i + 1] \in Words /\ m[i] \in Marks /\ m[i + 1] \in Marks
         /\ Past(m[i], file[i + 1], m[i + 1], heard, misplaced)
<1>1. file \in Seq(Words) /\ Len(file) \in Nat
  BY DEF DiskInv
<1>2. i \in 0 .. Len(file) /\ i + 1 \in 0 .. Len(file) /\ i + 1 \in 1 .. Len(file)
  BY <1>1
<1> QED
  BY <1>1, <1>2, ElementOfSeq DEF Marked

(* From the start of a song, after load() and after rewind().              *)
LEMMA ReplayStarts ==
  ASSUME DiskInv, UNCHANGED diskVars, Rewound(FileClock),
         data' = file, clock' = FileClock, songend' = FALSE, pc' = "ready", ret' = TRUE
  PROVE  ReplayInv'
<1>1. PICK m : Marked(m, file, heard, misplaced) /\ LastMark(m[Len(file)])
  BY DEF DiskInv, Reaches
<1>2. /\ pos' = 0 /\ del' = 0 /\ speed' = 65535 /\ selected' = 0 /\ sounded' = <<>> /\ time' = 0
      /\ UNCHANGED <<file, heard, misplaced, fileChip, now, slack, old_freq>>
  BY SMT DEF Rewound, diskVars, FileClock
<1>3. /\ m[0] = Start
      /\ Start.count = 0 /\ Start.at = 0 /\ Start.chip = 0 /\ Start.speed = 65535
      /\ Start.word = "command" /\ Start.due = 0
  BY <1>1, SMT DEF Marked, Start, Mark
<1>4. At(m[0])'
  BY <1>2, <1>3, SMT DEF At
<1>5. Marked(m, file, heard, misplaced)' /\ LastMark(m[Len(file)])'
  BY <1>1, <1>2 DEF Marked, LastMark
<1>6. /\ sounded' \in Seq(Sounds) /\ Len(sounded') = 0 /\ Len(heard') \in Nat
      /\ Len(file') \in Nat
  BY <1>2, EmptySeq DEF DiskInv
<1>7. \A i \in 1 .. Len(sounded') : Matches(sounded[i], heard[i])'
  BY <1>6
<1>8. 65535 \in Nat
  BY SMT
<1> QED
  BY <1>2, <1>4, <1>5, <1>6, <1>7, <1>8 DEF ReplayInv

(* A step of update() that comes to no word of the file.                   *)
LEMMA ReplayIdles ==
  ASSUME DiskInv, ReplayInv, UNCHANGED diskVars, Exhausted \/ Idle \/ Begin
  PROVE  ReplayInv'
<1>1. PICK m : Marked(m, file, heard, misplaced) /\ LastMark(m[Len(file)]) /\ At(m[pos])
  BY DEF ReplayInv
<1>2. /\ UNCHANGED <<data, clock, speed, pos, songend, selected, sounded>>
      /\ UNCHANGED <<file, heard, misplaced, fileChip, now, slack, old_freq>>
  <2>1. CASE Exhausted
    BY <2>1 DEF Exhausted, diskVars
  <2>2. CASE Idle
    BY <2>2 DEF Idle, diskVars
  <2>3. CASE Begin
    BY <2>3 DEF Begin, diskVars
  <2> QED
    BY <2>1, <2>2, <2>3
<1>3. /\ Marked(m, file, heard, misplaced)' /\ LastMark(m[Len(file)])'
      /\ \A i \in 1 .. Len(sounded') : Matches(sounded[i], heard[i])'
  <2>1. Marked(m, file, heard, misplaced)' /\ LastMark(m[Len(file)])'
    BY <1>1, <1>2 DEF Marked, LastMark
  <2>2. \A i \in 1 .. Len(sounded) : Matches(sounded[i], heard[i])
    BY DEF ReplayInv
  <2>3. \A i \in 1 .. Len(sounded') : Matches(sounded[i], heard[i])'
    BY <1>2, <2>2 DEF Matches
  <2> QED
    BY <2>1, <2>3
<1>4. CASE Exhausted
  <2>1. del' = del /\ time' = time /\ pc' = "ready" /\ pos = Len(file)
    BY <1>4 DEF Exhausted, ReturnFalse, AtEnd, ReplayInv, DiskInv
  <2>2. At(m[pos])'
    BY <1>1, <1>2, <2>1 DEF At
  <2> QED
    BY <1>2, <1>3, <2>1, <2>2 DEF ReplayInv
<1>5. CASE Idle
  <2>1. /\ del # 0 /\ del' = del - 1 /\ pc' = "ready" /\ ret' = TRUE
        /\ time' = time + speed /\ speed # 0
    <3>1. /\ del # 0 /\ del' = del - 1 /\ pc' = "ready" /\ ret' = ~songend
          /\ time' = time + Tick
      BY <1>5 DEF Idle, Return
    <3>2. songend = FALSE /\ speed # 0
      BY <3>1 DEF ReplayInv
    <3>3. Tick = speed
      BY <3>2 DEF Tick
    <3> QED
      BY <3>1, <3>2, <3>3
  <2>2. del' \in Nat /\ time' \in Nat /\ del * speed = (del - 1) * speed + speed
    BY <2>1 DEF ReplayInv
  <2>3. (del - 1) * speed \in Nat /\ del * speed \in Nat
    <3>1. del - 1 \in Nat
      BY <2>1 DEF ReplayInv
    <3> QED
      BY <3>1 DEF ReplayInv
  <2>4. At(m[pos])'
    <3>1. m[pos]' = m[pos]
      BY <1>2
    <3> DEFINE x == del * speed
               y == (del - 1) * speed
    <3>2. x = y + speed /\ x \in Nat /\ y \in Nat
      BY <2>2, <2>3
    <3>3. m[pos].at = time + x /\ x <= m[pos].due /\ m[pos].due \in Nat
      <4>1. m[pos] \in Marks
        BY <1>1 DEF Marked, ReplayInv
      <4> QED
        BY <1>1, <4>1, FieldsOfMark DEF At
    <3>4. del' * speed' = y
      BY <1>2, <2>1
    <3> HIDE DEF x, y
    <3>5. m[pos].at = time' + y /\ y <= m[pos].due
      BY <2>1, <3>2, <3>3 DEF ReplayInv
    <3> QED
      BY <1>1, <1>2, <3>1, <3>4, <3>5 DEF At
  <2> QED
    BY <1>2, <1>3, <2>1, <2>2, <2>4 DEF ReplayInv
<1>6. CASE Begin
  <2>1. del = 0 /\ del' = del /\ time' = time /\ pc' = "fetch" /\ ret' = ret
    BY <1>6 DEF Begin
  <2>2. At(m[pos])'
    BY <1>1, <1>2, <2>1 DEF At
  <2> QED
    BY <1>2, <1>3, <2>1, <2>2 DEF ReplayInv
<1> QED
  BY <1>4, <1>5, <1>6

(* A step of update() that reads a word of the file.                       *)
LEMMA ReplayReads ==
  ASSUME DiskInv, ReplayInv, UNCHANGED diskVars,
         Delay \/ SetSpeed \/ SelectChip \/ SongOver \/ NoWord \/ WriteRegister
  PROVE  ReplayInv'
<1>1. PICK m : Marked(m, file, heard, misplaced) /\ LastMark(m[Len(file)]) /\ At(m[pos])
  BY DEF ReplayInv
<1>2. /\ UNCHANGED <<file, heard, misplaced, fileChip, now, slack, old_freq>>
      /\ file \in Seq(Words) /\ Len(file) \in Nat /\ data = file
  BY DEF diskVars, DiskInv, ReplayInv
<1>3. Fetching
  BY DEF Delay, SetSpeed, SelectChip, SongOver, NoWord, WriteRegister
<1>4. pos \in 0 .. (Len(file) - 1) /\ pos + 1 \in 0 .. Len(file) /\ pc = "fetch" /\ del = 0
  BY <1>2, <1>3 DEF ReplayInv, Fetching, AtEnd
<1> DEFINE w == file[pos + 1]
           a == m[pos]
           b == m[pos + 1]
<1>5. w \in Words /\ a \in Marks /\ b \in Marks /\ Past(a, w, b, heard, misplaced)
  BY <1>1, <1>4, MarksOfWord
<1>6. Word = w /\ Param = w[1] /\ Command = w[2] /\ w[1] \in 0 .. 255 /\ w[2] \in 0 .. 255
  BY <1>2, <1>5 DEF Word, Param, Command, Words, ByteValue
<1>7. /\ a.word = "command" /\ a.count = Len(sounded) /\ a.chip = selected /\ a.speed = speed
      /\ a.at = time /\ time \in Nat /\ speed \in Nat /\ selected \in Chips
      /\ Len(sounded) \in Nat
  <2>1. del * speed = 0
    BY <1>4 DEF ReplayInv
  <2>2. a.chip \in Chips
    BY <1>5, FieldsOfMark
  <2> QED
    BY <1>1, <2>1, <2>2 DEF At, ReplayInv
<1>8. a.word # "length"
  BY <1>7
<1> HIDE DEF w, a, b
<1>9. \/ WriteWord(a, w, b, heard, misplaced) \/ WaitWord(a, w, b)
      \/ SpeedWord(a, w, b) \/ ChipWord(a, w, b)
  BY <1>5, <1>8 DEF Past
<1>10. Marked(m, file, heard, misplaced)' /\ LastMark(m[Len(file)])'
  BY <1>1, <1>2 DEF Marked, LastMark
<1>11. w[2] # 255
  BY <1>9 DEF WriteWord, WaitWord, SpeedWord, ChipWord, CommandRegisters
<1>12. ~SongOver /\ ~NoWord
  BY <1>6, <1>11 DEF SongOver, NoWord, EndMarker
<1>13. sounded' = sounded => \A i \in 1 .. Len(sounded') : Matches(sounded[i], heard[i])'
  BY <1>2 DEF ReplayInv, Matches
<1>14. CASE Delay
  <2> DEFINE d == (w[1] - 1) % 256
             x == d * speed
  <2>1. /\ del' = d /\ pos' = pos + 1 /\ pc' = "ready" /\ ret' = ~songend
        /\ time' = time + Tick /\ w[2] = 0
        /\ UNCHANGED <<data, clock, speed, songend, selected, sounded>>
    BY <1>6, <1>14 DEF Delay, Return
  <2>2. WaitWord(a, w, b)
    BY <1>9, <2>1 DEF WriteWord, SpeedWord, ChipWord, CommandRegisters
  <2>3. speed # 0 /\ Tick = speed
    BY <1>7, <2>2 DEF WaitWord, Tick
  <2>4. d \in Nat
    BY <1>6
  <2>5. x \in Nat
    BY <1>7, <2>4
  <2>6. /\ b.count = a.count /\ b.at = a.at + x + speed /\ b.chip = a.chip
        /\ b.speed = speed /\ b.word = "command" /\ b.due = x
    BY <1>7, <2>2 DEF WaitWord, Mark
  <2> HIDE DEF d
  <2>7. m[pos]' = b /\ del' * speed' = x
    BY <2>1 DEF b
  <2> HIDE DEF x
  <2>8. b.at = time' + x /\ x <= b.due /\ time' \in Nat
    BY <1>7, <2>1, <2>3, <2>5, <2>6
  <2>9. At(m[pos])'
    BY <1>7, <2>1, <2>6, <2>7, <2>8 DEF At
  <2>10. ret' = TRUE /\ songend' = FALSE /\ clock' = FileClock
    <3>1. songend = FALSE
      BY DEF ReplayInv
    <3>2. clock = FileClock
      BY DEF ReplayInv
    <3> QED
      BY <1>2, <2>1, <3>1, <3>2
  <2> QED
    BY <1>2, <1>4, <1>7, <1>10, <1>13, <2>1, <2>3, <2>4, <2>8, <2>9, <2>10 DEF ReplayInv
<1>15. CASE SetSpeed
  <2>1. w[1] = 0 /\ w[2] = 2
    BY <1>6, <1>15 DEF SetSpeed
  <2>2. SpeedWord(a, w, b)
    BY <1>9, <2>1 DEF WriteWord, WaitWord, ChipWord, CommandRegisters
  <2>3. /\ b.count = a.count /\ b.at = a.at /\ b.chip = a.chip
        /\ b.speed = speed /\ b.word = "length"
    BY <1>7, <2>2 DEF SpeedWord, Mark
  <2>4. pos + 1 # Len(file)
    <3>1. m[Len(file)].word = "command"
      BY <1>1 DEF LastMark
    <3> QED
      BY <2>3, <3>1 DEF b
  <2>5. pos + 1 \in 0 .. (Len(file) - 1) /\ pos + 2 \in 0 .. Len(file) /\ (pos + 1) + 1 = pos + 2
    BY <1>2, <1>4, <2>4
  <2> DEFINE v == file[pos + 2]
             c == m[pos + 2]
  <2>6. v \in Words /\ c \in Marks /\ Past(b, v, c, heard, misplaced)
    BY <1>1, <2>5, MarksOfWord DEF b
  <2>7. /\ speed' = v[1] + 256 * v[2] /\ pos' = pos + 2
        /\ UNCHANGED <<data, clock, del, songend, pc, ret, selected, sounded, time>>
    BY <1>2, <1>4, <1>15, <2>5 DEF SetSpeed
  <2>8. v[1] \in Nat /\ v[2] \in Nat /\ speed' \in Nat
    <3>1. \A u \in Words : u[1] \in Nat /\ u[2] \in Nat /\ u[1] + 256 * u[2] \in Nat
      BY DEF Words, ByteValue
    <3>2. v[1] \in Nat /\ v[2] \in Nat /\ v[1] + 256 * v[2] \in Nat
      <4> HIDE DEF v
      <4> QED
        BY <2>6, <3>1
    <3> QED
      BY <2>7, <3>2
  <2> HIDE DEF v, c
  <2>9. SpeedArgument(b, v, c)
    BY <2>3, <2>6 DEF Past
  <2>10. /\ c.count = a.count /\ c.at = a.at /\ c.chip = a.chip
         /\ c.speed = speed' /\ c.word = "command" /\ c.due = 0
    BY <2>3, <2>7, <2>9 DEF SpeedArgument, Mark
  <2>11. m[pos]' = c /\ del' = 0 /\ pc' = "fetch" /\ del' * speed' = 0
    BY <1>4, <2>7, <2>8 DEF c
  <2>12. At(m[pos])'
    BY <1>7, <2>7, <2>10, <2>11 DEF At
  <2> QED
    BY <1>2, <1>7, <1>10, <1>13, <2>5, <2>7, <2>8, <2>11, <2>12 DEF ReplayInv
<1>16. CASE SelectChip
  <2>1. /\ w[1] # 0 /\ w[2] = 2 /\ pos' = pos + 1
        /\ selected' = IF w[1] \in {1, 2} THEN w[1] - 1 ELSE selected
        /\ UNCHANGED <<data, clock, speed, del, songend, pc, ret, sounded, time>>
    BY <1>6, <1>16 DEF SelectChip
  <2>2. ChipWord(a, w, b)
    BY <1>9, <2>1 DEF WriteWord, SpeedWord, WaitWord, CommandRegisters
  <2>3. w[1] \in {1, 2}
    BY <2>2 DEF ChipWord
  <2>4. /\ b.count = a.count /\ b.at = a.at /\ b.chip = w[1] - 1
        /\ b.speed = speed /\ b.word = "command" /\ b.due = 0
    BY <1>7, <2>2 DEF ChipWord, Mark
  <2>5. m[pos]' = b /\ del' * speed' = 0 /\ pc' = "fetch" /\ del' = 0
    BY <1>4, <1>7, <2>1 DEF b
  <2>6. At(m[pos])'
    BY <1>7, <2>1, <2>3, <2>4, <2>5 DEF At
  <2> QED
    BY <1>2, <1>4, <1>7, <1>10, <1>13, <2>1, <2>5, <2>6 DEF ReplayInv
<1>17. CASE WriteRegister
  <2> DEFINE s == [chip |-> selected, reg |-> w[2], val |-> w[1], at |-> time]
  <2>1. /\ w[2] \notin CommandRegisters /\ pos' = pos + 1 /\ sounded' = Append(sounded, s)
        /\ UNCHANGED <<data, clock, speed, del, songend, pc, ret, selected, time>>
    BY <1>6, <1>17 DEF WriteRegister, CommandRegisters
  <2>2. WriteWord(a, w, b, heard, misplaced)
    BY <1>9, <2>1 DEF WaitWord, SpeedWord, ChipWord, CommandRegisters
  <2>3. /\ b.count = Len(sounded) + 1 /\ b.at = a.at /\ b.chip = a.chip
        /\ b.speed = speed /\ b.word = "command" /\ b.due = 0
    BY <1>7, <2>2 DEF WriteWord, Mark
  <2>4. s \in Sounds
    BY <1>6, <1>7 DEF Sounds, ByteValue
  <2>5. /\ s.reg = w[2] /\ s.val = w[1] /\ s.at = time /\ s.chip = selected
    OBVIOUS
  <2> HIDE DEF s
  <2>6. /\ sounded' \in Seq(Sounds) /\ Len(sounded') = Len(sounded) + 1
        /\ \A i \in 1 .. Len(sounded) : sounded'[i] = sounded[i]
        /\ sounded'[Len(sounded) + 1] = s
    BY <2>1, <2>4, AppendProperties DEF ReplayInv
  <2>7. Len(sounded) + 1 <= Len(heard) /\ Matches(s, heard[Len(sounded) + 1])
    BY <1>7, <2>2, <2>5 DEF WriteWord, Matches
  <2>8. ASSUME NEW i \in 1 .. Len(sounded') PROVE Matches(sounded[i], heard[i])'
    <3>1. CASE i \in 1 .. Len(sounded)
      <4>1. Matches(sounded[i], heard[i]) /\ sounded'[i] = sounded[i]
        BY <2>6, <3>1 DEF ReplayInv
      <4> QED
        BY <1>2, <4>1 DEF Matches
    <3>2. CASE i = Len(sounded) + 1
      BY <1>2, <2>6, <2>7, <3>2 DEF Matches
    <3> QED
      BY <1>7, <2>6, <3>1, <3>2
  <2>9. m[pos]' = b /\ del' * speed' = 0 /\ pc' = "fetch" /\ del' = 0
    BY <1>4, <1>7, <2>1 DEF b
  <2>10. At(m[pos])'
    BY <1>7, <2>1, <2>3, <2>6, <2>9 DEF At
  <2> QED
    BY <1>2, <1>4, <1>7, <1>10, <2>1, <2>6, <2>7, <2>8, <2>9, <2>10 DEF ReplayInv
<1> QED
  BY <1>12, <1>14, <1>15, <1>16, <1>17

-----------------------------------------------------------------------------
(* What is assumed of the players: none writes to a register whose number  *)
(* is a command of the format.  CDiskopl does not tell the two apart, so   *)
(* that without it ReplayComplete is false (run tape_commands).            *)
LEMMA TapeInvHolds ==
  ASSUME Registers \cap CommandRegisters = {}
  PROVE  TapeSpec => []TapeInv
<1>1. TapeInit => TapeInv
  BY RecordingStarts DEF TapeInit, DiskInit, TapeInv
<1>2. TapeInv /\ [TapeNext]_tapeVars => TapeInv'
  <2> SUFFICES ASSUME TapeInv, [TapeNext]_tapeVars PROVE TapeInv'
    OBVIOUS
  <2>1. CASE Record
    BY <2>1, RecordingGoesOn DEF Record, TapeInv
  <2>2. ASSUME UNCHANGED diskVars PROVE DiskInv'
    BY <2>2 DEF TapeInv, DiskInv, LastMark, diskVars
  <2>3. CASE LoadRecording
    <3>1. /\ data' = file /\ clock' = FileClock /\ Rewound(FileClock)
          /\ songend' = FALSE /\ pc' = "ready" /\ ret' = TRUE /\ UNCHANGED diskVars
      <4>1. Loaded(Recorded) = file
        <5>1. [i \in 1 .. 0 |-> EndMarker] = <<>>
          OBVIOUS
        <5> QED
          BY <5>1, ConcatEmptySeq DEF Loaded, Recorded, TapeInv, DiskInv
      <4> QED
        BY <2>3, <4>1, SMT DEF LoadRecording, load, Recorded, FileClock
    <3> QED
      BY <2>2, <3>1, ReplayStarts DEF TapeInv
  <2>4. CASE LoadCapture
    BY <2>2, <2>4 DEF LoadCapture, TapeInv
  <2>5. CASE PlayOn
    <3>1. rawupdate /\ UNCHANGED diskVars /\ stage' = stage
      BY <2>5 DEF PlayOn
    <3>2. stage = "replay" => ReplayInv'
      BY <3>1, ReplayIdles, ReplayReads DEF rawupdate, TapeInv
    <3> QED
      BY <2>2, <3>1, <3>2 DEF TapeInv
  <2>6. CASE PlayAgain
    <3>1. rewind /\ UNCHANGED diskVars /\ stage' = stage
      BY <2>6 DEF PlayAgain
    <3>2. CASE stage = "replay"
      <4>1. data' = file /\ clock' = FileClock /\ Rewound(FileClock)
            /\ songend' = FALSE /\ pc' = "ready" /\ ret' = TRUE
        BY <3>1, <3>2 DEF rewind, TapeInv, ReplayInv
      <4> QED
        BY <2>2, <3>1, <4>1, ReplayStarts DEF TapeInv
    <3> QED
      BY <2>2, <3>1, <3>2 DEF TapeInv
  <2>7. CASE UNCHANGED tapeVars
    <3>1. UNCHANGED diskVars /\ UNCHANGED rawVars /\ stage' = stage
      BY <2>7 DEF tapeVars
    <3>2. stage = "replay" => ReplayInv'
      BY <3>1 DEF TapeInv, ReplayInv, Marked, LastMark, At, Matches, diskVars, rawVars
    <3> QED
      BY <2>2, <3>1, <3>2 DEF TapeInv
  <2> QED
    BY <2>1, <2>3, <2>4, <2>5, <2>6, <2>7 DEF TapeNext
<1> QED
  BY <1>1, <1>2, PTL DEF TapeSpec

(* The replay makes the writes that were recorded, in their order, on      *)
(* their chips and in time (ReplayFaithful), however long the recording.   *)
THEOREM ReplayIsFaithful ==
  ASSUME Registers \cap CommandRegisters = {}
  PROVE  TapeSpec => []ReplayFaithful
<1>1. TapeInv => ReplayFaithful
  <2> SUFFICES ASSUME TapeInv, stage = "replay", ~misplaced
               PROVE  /\ Len(sounded) <= Len(heard)
                      /\ \A i \in DOMAIN sounded : SameWrite(sounded[i], heard[i])
    BY DEF ReplayFaithful
  <2>1. /\ Len(sounded) <= Len(heard) /\ sounded \in Seq(Sounds)
        /\ \A i \in 1 .. Len(sounded) : Matches(sounded[i], heard[i])
    BY DEF TapeInv, ReplayInv
  <2>2. DOMAIN sounded = 1 .. Len(sounded)
    BY <2>1, LenProperties
  <2> QED
    BY <2>1, <2>2 DEF Matches, SameWrite
<1> QED
  BY <1>1, TapeInvHolds, PTL

(* A replay that has ended made all of them, and took as long as the       *)
(* recording but for rounding and the last tick (ReplayComplete).          *)
THEOREM ReplayIsComplete ==
  ASSUME Registers \cap CommandRegisters = {}
  PROVE  TapeSpec => []ReplayComplete
<1>1. TapeInv => ReplayComplete
  <2> SUFFICES ASSUME TapeInv, stage = "replay", ~ret
               PROVE  Len(sounded) = Len(heard) /\ InTime(time, now, slack + old_freq)
    BY DEF ReplayComplete
  <2>1. PICK m : Marked(m, file, heard, misplaced) /\ LastMark(m[Len(file)]) /\ At(m[pos])
    BY DEF TapeInv, ReplayInv
  <2>2. pos = Len(file) /\ del \in Nat /\ speed \in Nat /\ time \in Nat
    BY DEF TapeInv, ReplayInv
  <2> DEFINE x == del * speed
             at == m[pos].at
  <2>3. x \in Nat
    BY <2>2
  <2>4. /\ at = time + x /\ x <= m[pos].due /\ m[pos].due <= old_freq
        /\ InTime(at, now, slack)
        /\ m[pos].count = Len(sounded) /\ m[pos].count = Len(heard)
    BY <2>1, <2>2 DEF At, LastMark
  <2>5. now \in Nat /\ slack \in Nat /\ old_freq \in Nat
    BY TicksOfPeriod DEF TapeInv, DiskInv
  <2>6. m[pos].due \in Nat
    <3>1. m[pos] \in Marks
      BY <2>1 DEF Marked, TapeInv, ReplayInv
    <3> QED
      BY <3>1, FieldsOfMark
  <2> HIDE DEF x, at
  <2>7. InTime(time, now, slack + old_freq)
    BY <2>2, <2>3, <2>4, <2>5, <2>6 DEF InTime
  <2> QED
    BY <2>4, <2>7
<1> QED
  BY <1>1, TapeInvHolds, PTL

=============================================================================
