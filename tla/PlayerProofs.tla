---------------------------- MODULE PlayerProofs ----------------------------
(***************************************************************************)
(* Proofs about CPlayer's operations on a CmodPlayer, for every set of     *)
(* songs the loaders leave, any number of voices per chip, and any         *)
(* sequence of update(), rewind(), songlength() and seek().                *)
(***************************************************************************)
EXTENDS Player, ModSequencerProofs

-----------------------------------------------------------------------------
(* Whatever the operations do, they use the sequencer as it may be used.   *)
LEMMA ModStepsSequence ==
  ASSUME ModUpdate \/ ModRewind
  PROVE  SeqNext
  BY DEF ModUpdate, ModTick, ModRow, ModControl, ModRewind, SeqNext, SeqUpdate

(* The steps by what they do to the player and to the operation that runs. *)
LEMMA PlayerSteps ==
  ASSUME [PlayerNext]_playerVars
  PROVE  \/ ModUpdate /\ op' = op /\ (op = "songlength" => stage' = "run" \/ pc' = "ready")
         \/ ModRewind /\ (op' = "songlength" <=> op = "songlength")
         \/ /\ UNCHANGED modVars /\ (op' = "songlength" <=> op = "songlength")
            /\ op = "songlength" => stage' = stage \/ stage' = "run"
         \/ SongLength \/ MeasureReturn
<1>1. CASE UNCHANGED playerVars
  BY <1>1 DEF playerVars, opVars
<1>2. CASE FrontendTime \/ MeasureOn \/ SeekOn \/ SeekAdd \/ SeekReturn
  BY <1>2 DEF FrontendTime, MeasureOn, SeekOn, SeekAdd, SeekReturn
<1>3. CASE FrontendUpdate \/ MeasureUpdate \/ SeekUpdate
  BY <1>3 DEF FrontendUpdate, MeasureUpdate, SeekUpdate, CallUpdate
<1>4. CASE FrontendRewind \/ MeasureRewind \/ MeasureEnd \/ \E ms \in SeekTargets : Seek(ms)
  BY <1>4 DEF FrontendRewind, MeasureRewind, MeasureEnd, Seek
<1> QED
  BY <1>1, <1>2, <1>3, <1>4 DEF PlayerNext, Operating

THEOREM PlayerImplementsSequencer == PlayerSpec => SeqSpec
<1>1. PlayerInit => SeqInit
  BY DEF PlayerInit, ModInit
<1>2. [PlayerNext]_playerVars => [SeqNext]_seqVars
  <2>1. UNCHANGED modVars \/ SongLength \/ MeasureReturn => UNCHANGED seqVars
    BY DEF modVars, SongLength, MeasureReturn
  <2> QED
    BY <2>1, PlayerSteps, ModStepsSequence
<1> QED
  BY <1>1, <1>2, PTL DEF PlayerSpec, SeqSpec

(***************************************************************************)
(* So what holds of update() and rewind() alone comes through songlength() *)
(* and seek(), which play the song behind the frontend's back: accesses to *)
(* a closed song stay in bounds, a stop is an end, the report of the end stays and comes *)
(* before a row is played again.                                           *)
(***************************************************************************)
THEOREM OperationsKeepSequencer ==
  PlayerSpec => [](InBounds /\ StopIsAnEnd) /\ EndIsSticky /\ NoReplayBeforeReport
BY PlayerImplementsSequencer, BoundsSafe, StopRecorded, EndStays, NoReplay, PTL

-----------------------------------------------------------------------------
(* Which chip is selected.  curchip, which set_opl_chip() trusts, is right *)
(* in a loop over the channels, once it has begun; otherwise it is only    *)
(* known not to name the first chip when the second is selected.  That     *)
(* this comes through songlength(), which exchanges the object but not     *)
(* curchip, rests on what a song leaves selected between two loops.        *)
InLoop == pc \in {"tick", "row"}
LastChip == ChipOf(nchans - 1)

ChipInv ==
  /\ curchip \in Chips /\ selected \in [{"real", "silent"} -> Chips]
  /\ opl \in {"real", "silent"} /\ chan \in 0 .. nchans
  /\ pc # "outside" =>
       /\ InLoop /\ chan > 0 => curchip = ChipOf(chan - 1) /\ selected[opl] = curchip
       /\ curchip = 0 => selected[opl] = 0
       /\ selected["real"] = 1 => /\ opl = "silent" \/ ~InLoop => LastChip = 1
                                  /\ ~InLoop => curchip = 1

(* Outside songlength() the real object is in place, inside the silent     *)
(* one; and songlength() changes them between two calls of update().       *)
OplInv ==
  /\ opl = IF op = "songlength" THEN "silent" ELSE "real"
  /\ op = "songlength" /\ stage # "run" => pc = "ready"

LEMMA ChipInLoop ==
  ASSUME ChipInv, InLoop, nchans \in Nat, chan < nchans, set_opl_chip(chan),
         opl' = opl, pc' = pc, chan' = chan + 1, nchans' = nchans
  PROVE  ChipInv' /\ selected'[opl] = ChipOf(chan)
<1> USE DEF ChipInv
<1>0. /\ pc # "outside" /\ pc' # "outside"
      /\ chan > 0 => curchip = ChipOf(chan - 1) /\ selected[opl] = curchip
      /\ curchip = 0 => selected[opl] = 0
      /\ selected["real"] = 1 /\ opl = "silent" => LastChip = 1
  BY DEF InLoop
<1>1. ChipOf(chan) \in Chips /\ chan \in Nat /\ curchip' = ChipOf(chan)
  BY DEF ChipOf, Chips, set_opl_chip
<1>2. /\ selected' \in [{"real", "silent"} -> Chips]
      /\ selected'[opl] = ChipOf(chan)
      /\ opl = "silent" => selected'["real"] = selected["real"]
  <2>1. CASE ChipOf(chan) = curchip
    <3>1. selected' = selected
      BY <2>1 DEF set_opl_chip
    <3>2. selected[opl] = curchip
      <4>1. CASE chan = 0
        BY <1>0, <2>1, <4>1, VoicesAssumption DEF ChipOf
      <4>2. CASE chan # 0
        BY <1>0, <1>1, <4>2
      <4> QED
        BY <4>1, <4>2
    <3> QED
      BY <2>1, <3>1, <3>2
  <2>2. CASE ChipOf(chan) # curchip
    <3>1. selected' = [selected EXCEPT ![opl] = ChipOf(chan)]
      BY <2>2 DEF set_opl_chip
    <3> QED
      BY <1>1, <3>1
  <2> QED
    BY <2>1, <2>2
<1>3. LastChip' = LastChip
  BY DEF LastChip, ChipOf
<1>4. /\ InLoop' /\ chan' > 0 /\ chan' - 1 = chan /\ chan' \in 0 .. nchans'
      /\ pc # "outside"
  BY <1>1 DEF InLoop
<1>5. ChipOf(chan - 1)' = ChipOf(chan)
  BY <1>4 DEF ChipOf
<1>6. selected'["real"] = 1 /\ opl' = "silent" => LastChip' = 1
  BY <1>0, <1>2, <1>3
<1> QED
  BY <1>0, <1>1, <1>2, <1>4, <1>5, <1>6

(* A step of the sequencer that ends a loop comes from behind its last     *)
(* channel, or update() is lost; the others stay outside the loops.        *)
LEMMA LoopEnds ==
  ASSUME ModControl
  PROVE  /\ UNCHANGED <<curchip, opl, selected>> /\ pc # "outside"
         /\ pc' = "outside" => chan' = chan \/ ~InLoop
         /\ InLoop /\ pc' # "outside" => ~InLoop' /\ chan = nchans
         /\ ~InLoop /\ InLoop' => chan' = 0
<1>1. UNCHANGED <<curchip, opl, selected>>
  BY DEF ModControl, voiceVars, chipVars
<1>2. CASE FullStop \/ BeginUpdate
  <2>1. pc = "ready" /\ (pc' = "ready" \/ (pc' = "tick" /\ chan' = 0))
    BY <1>2 DEF FullStop, BeginUpdate, Return
  <2> QED
    BY <1>1, <2>1 DEF InLoop
<1>3. CASE Wait \/ NextRowDue \/ Advance
  <2>1. InLoop /\ pc # "outside" /\ chan = nchans /\ pc' \in {"ready", "resolve"}
    BY <1>3 DEF Wait, NextRowDue, Advance, Return, InLoop
  <2> QED
    BY <1>1, <2>1 DEF InLoop
<1>4. CASE Resolve
  <2>1. pc \in {"resolve", "chase"}
    BY <1>4 DEF Resolve, WrapAround, StrayOrder, OrderFound, SelfJump, FollowJump, AtOrder,
                AtMarker, LooksUp
  <2>2. pc' \in {"ready", "chase", "outside"} \/ (pc' = "row" /\ chan' = 0)
    BY <1>4 DEF Resolve, WrapAround, StrayOrder, OrderFound, SelfJump, FollowJump, Resolved,
                PlayRow, ReadsOutside, Return
  <2> QED
    BY <1>1, <2>1, <2>2 DEF InLoop
<1>5. CASE StrayRow
  <2>1. pc = "row" /\ pc' = "outside" /\ chan' = chan
    BY <1>5 DEF StrayRow, ReadsOutside, locals
  <2> QED
    BY <1>1, <2>1 DEF InLoop
<1> QED
  BY <1>2, <1>3, <1>4, <1>5 DEF ModControl

LEMMA UpdateSelects ==
  ASSUME ChipInv, nchans \in Nat, nchans > 0, nchans' = nchans, chan' \in 0 .. nchans, ModUpdate
  PROVE  ChipInv' /\ (chan' = chan + 1 /\ InLoop => selected'[opl] = ChipOf(chan))
<1>1. CASE ModTick
  <2>1. /\ InLoop /\ chan < nchans /\ set_opl_chip(chan) /\ opl' = opl /\ pc' = pc /\ chan' = chan + 1
    BY <1>1 DEF ModTick, TickChannel, VoiceBecomes, InLoop
  <2> QED
    BY <2>1, ChipInLoop
<1>2. CASE ModRow
  <2>1. InLoop /\ chan < nchans /\ pc' = pc /\ chan' = chan + 1
    BY <1>2 DEF ModRow, RowChannel, PositionJump, PatternBreak, PatternDelayRows,
                PatternDelayFrames, SetTempo, SA2Speed, AMDSpeed, RADSpeed, PlainCell,
                Command, AtRow, NextChannel, InLoop
  <2>2. set_opl_chip(chan) /\ opl' = opl
    BY <1>2 DEF ModRow, VoiceBecomes
  <2> QED
    BY <2>1, <2>2, ChipInLoop
<1>3. CASE ModControl
  <2>1. chan \in Nat /\ (chan' # chan + 1 \/ ~InLoop)
    BY <1>3, LoopEnds DEF ChipInv
  <2>2. UNCHANGED <<curchip, opl, selected>> /\ LastChip' = LastChip
    BY <1>3, LoopEnds DEF LastChip, ChipOf
  <2>5. CASE pc' = "outside"
    BY <1>3, <2>1, <2>2, <2>5 DEF ChipInv
  <2>3. CASE InLoop /\ pc' # "outside"
    <3>1. /\ curchip = LastChip /\ selected[opl] = curchip /\ ~InLoop' /\ chan' # chan + 1
          /\ curchip \in {0, 1} /\ selected \in [{"real", "silent"} -> Chips]
          /\ opl \in {"real", "silent"}
          /\ curchip = 0 => selected[opl] = 0
          /\ selected["real"] = 1 /\ opl = "silent" => LastChip = 1
      BY <1>3, <2>1, <2>3, LoopEnds DEF ChipInv, LastChip, Chips
    <3>2. selected["real"] = 1 => LastChip = 1 /\ curchip = 1
      BY <3>1
    <3> QED
      BY <2>2, <2>3, <3>1, <3>2 DEF ChipInv
  <2>4. CASE ~InLoop /\ pc' # "outside"
    BY <1>3, <2>2, <2>4, LoopEnds DEF ChipInv
  <2> QED
    BY <2>3, <2>4, <2>5
<1> QED
  BY <1>1, <1>2, <1>3 DEF ModUpdate

LEMMA RewindSelects ==
  ASSUME ChipInv, nchans' = nchans, ModRewind
  PROVE  ChipInv'
<1>1. ~InLoop /\ pc' = pc /\ chan' = chan
  BY DEF ModRewind, SeqRewind, InLoop, locals
<1> DEFINE chip == IF opl = "silent" /\ "Opl3" \notin flags THEN selected[opl] ELSE 0
<1>2. selected' = [selected EXCEPT ![opl] = chip] /\ UNCHANGED <<curchip, opl>>
  BY DEF ModRewind, VoicesRewound
<1>3. chip \in {selected[opl], 0}
  OBVIOUS
<1> HIDE DEF chip
<1>4. LastChip' = LastChip
  BY DEF LastChip, ChipOf
<1> QED
  BY <1>1, <1>2, <1>3, <1>4 DEF ChipInv, InLoop, Chips

THEOREM ChipInvHolds == PlayerSpec => [](ChipInv /\ OplInv)
<1>1. PlayerInit => ChipInv /\ OplInv
  <2> SUFFICES ASSUME PlayerInit PROVE ChipInv /\ OplInv
    OBVIOUS
  <2>1. song \in Songs /\ pc = "ready" /\ chan = 0 /\ op = "none"
    BY DEF PlayerInit, ModInit, SeqInit
  <2>2. nchans \in Nat
    BY <2>1, SongFacts
  <2>3. curchip \in Chips /\ opl = "real" /\ selected = [o \in {"real", "silent"} |-> 0]
    BY DEF PlayerInit, ModInit
  <2> QED
    BY <2>1, <2>2, <2>3 DEF ChipInv, OplInv, InLoop, Chips
<1>2. TypeInv /\ TypeInv' /\ ChipInv /\ OplInv /\ [PlayerNext]_playerVars => ChipInv' /\ OplInv'
  <2> SUFFICES ASSUME TypeInv, TypeInv', ChipInv, OplInv, [PlayerNext]_playerVars
               PROVE  ChipInv' /\ OplInv'
    OBVIOUS
  <2>1. nchans \in Nat /\ nchans > 0 /\ nchans' = nchans /\ chan' \in 0 .. nchans
    <3>1. SeqNext \/ UNCHANGED seqVars
      BY PlayerSteps, ModStepsSequence DEF modVars, SongLength, MeasureReturn
    <3> QED
      BY <3>1, SongKept, SongFacts DEF TypeInv, TypeOK
  <2>2. CASE ModUpdate /\ op' = op /\ (op = "songlength" => stage' = "run" \/ pc' = "ready")
    <3>1. ChipInv'
      BY <2>1, <2>2, UpdateSelects
    <3>2. opl' = opl
      BY <2>2 DEF ModUpdate, ModTick, ModRow, ModControl, VoiceBecomes, chipVars
    <3> QED
      BY <2>2, <3>1, <3>2 DEF OplInv
  <2>3. CASE ModRewind /\ (op' = "songlength" <=> op = "songlength")
    <3>1. opl' = opl /\ pc' = "ready"
      BY <2>3 DEF ModRewind, VoicesRewound, SeqRewind
    <3> QED
      BY <2>1, <2>3, <3>1, RewindSelects DEF OplInv
  <2>4. CASE UNCHANGED modVars /\ (op' = "songlength" <=> op = "songlength")
             /\ (op = "songlength" => stage' = stage \/ stage' = "run")
    <3>1. UNCHANGED <<curchip, opl, selected, pc, chan>>
      BY <2>4 DEF modVars, voiceVars, chipVars, seqVars, locals
    <3>2. LastChip' = LastChip /\ ChipOf(chan - 1)' = ChipOf(chan - 1) /\ (InLoop' <=> InLoop)
      BY <2>1, <3>1 DEF LastChip, ChipOf, InLoop
    <3>3. ChipInv'
      BY <2>1, <3>1, <3>2 DEF ChipInv
    <3> QED
      BY <2>4, <3>1, <3>3 DEF OplInv
  <2>5. CASE SongLength
    <3>1. /\ pc = "ready" /\ pc' = pc /\ chan' = chan /\ curchip' = curchip
          /\ opl = "real" /\ opl' = "silent" /\ op' = "songlength"
          /\ selected' = [selected EXCEPT !["silent"] = 0]
      BY <2>5 DEF SongLength, seqVars, locals, voiceVars, OplInv
    <3>2. LastChip' = LastChip
      BY <2>1 DEF LastChip, ChipOf
    <3> QED
      BY <2>1, <3>1, <3>2 DEF ChipInv, OplInv, InLoop, Chips
  <2>6. CASE MeasureReturn
    <3>1. /\ pc = "ready" /\ pc' = pc /\ chan' = chan /\ curchip' = curchip
          /\ opl' = "real" /\ op' = "none" /\ selected' = selected
      BY <2>6 DEF MeasureReturn, seqVars, locals, voiceVars, OplInv
    <3>2. LastChip' = LastChip
      BY <2>1 DEF LastChip, ChipOf
    <3>3. ~InLoop /\ ~InLoop'
      BY <3>1 DEF InLoop
    <3>4. selected["real"] \in {0, 1} /\ (selected["real"] = 1 => LastChip = 1 /\ curchip = 1)
      BY <3>1, <3>3 DEF ChipInv, Chips
    <3>5. ChipInv'
      BY <2>1, <3>1, <3>2, <3>3, <3>4 DEF ChipInv
    <3> QED
      BY <3>1, <3>5 DEF OplInv
  <2> QED
    BY <2>2, <2>3, <2>4, <2>5, <2>6, PlayerSteps
<1> QED
  BY <1>1, <1>2, PlayerImplementsSequencer, TypeInvHolds, PTL DEF PlayerSpec


(***************************************************************************)
(* What update() writes for a channel reaches the channel's chip           *)
(* (WritesReachTheirChip of ModPlayer), through any sequence of rewind(),  *)
(* songlength() and seek().                                                *)
(***************************************************************************)
THEOREM WritesReach == PlayerSpec => WritesReachTheirChip
<1>1. /\ TypeInv /\ TypeInv' /\ ChipInv /\ [PlayerNext]_playerVars
      => [chan' = chan + 1 /\ pc \in {"tick", "row"} => selected'[opl] = ChipOf(chan)]_modVars
  <2> SUFFICES ASSUME TypeInv, TypeInv', ChipInv, [PlayerNext]_playerVars,
                      chan' = chan + 1, pc \in {"tick", "row"}, ~UNCHANGED modVars
               PROVE  selected'[opl] = ChipOf(chan)
    OBVIOUS
  <2>1. chan \in Nat /\ InLoop
    BY SongFacts DEF TypeInv, TypeOK, InLoop
  <2>2. ~ModRewind /\ ~SongLength /\ ~MeasureReturn
    BY <2>1 DEF ModRewind, SeqRewind, SongLength, MeasureReturn, seqVars, locals, InLoop
  <2>3. ModUpdate
    BY <2>2, PlayerSteps
  <2>4. nchans \in Nat /\ nchans > 0 /\ nchans' = nchans /\ chan' \in 0 .. nchans
    <3>1. SeqNext
      BY <2>3, ModStepsSequence
    <3> QED
      BY <3>1, SongKept, SongFacts DEF TypeInv, TypeOK
  <2> QED
    BY <2>1, <2>3, <2>4, UpdateSelects
<1> QED
  BY <1>1, ChipInvHolds, PlayerImplementsSequencer, TypeInvHolds, PTL
     DEF PlayerSpec, WritesReachTheirChip

(***************************************************************************)
(* songlength() leaves the real chips and their selection alone            *)
(* (MeasuresInSilence).                                                    *)
(***************************************************************************)
THEOREM MeasuresSilently == PlayerSpec => MeasuresInSilence
<1>1. ChipInv /\ OplInv /\ [PlayerNext]_playerVars
      => [op = "songlength" =>
            UNCHANGED <<fnum, level, bd>> /\ selected'["real"] = selected["real"]]_playerVars
  <2> SUFFICES ASSUME ChipInv, OplInv, [PlayerNext]_playerVars, op = "songlength"
               PROVE  UNCHANGED <<fnum, level, bd>> /\ selected'["real"] = selected["real"]
    OBVIOUS
  <2>1. opl = "silent" /\ selected \in [{"real", "silent"} -> Chips]
    BY DEF OplInv, ChipInv
  <2>2. CASE UNCHANGED modVars \/ SongLength \/ MeasureReturn
    BY <2>1, <2>2 DEF modVars, chipVars, SongLength, MeasureReturn
  <2>3. CASE ModTick \/ ModRow
    BY <2>1, <2>3 DEF ModTick, ModRow, set_opl_chip, VoiceBecomes
  <2>4. CASE ModControl
    BY <2>4 DEF ModControl, chipVars
  <2>5. CASE ModRewind
    BY <2>1, <2>5 DEF ModRewind, VoicesRewound
  <2> QED
    BY <2>2, <2>3, <2>4, <2>5, PlayerSteps DEF ModUpdate
<1> QED
  BY <1>1, ChipInvHolds, PTL DEF PlayerSpec, MeasuresInSilence

-----------------------------------------------------------------------------
(***************************************************************************)
(* The length of a song.  update() is deterministic, and what a rewind()   *)
(* leaves of the last run does not matter: the sequencer moves on a path   *)
(* that the song alone determines.  A point of it is the sequencer with    *)
(* the locals of update() that are still to be read, and whether the time  *)
(* of the last call is still to be counted.                                *)
(***************************************************************************)
Point(set, pos, at, loc, result, due, time) ==
  [set |-> set, pos |-> pos, at |-> at, loc |-> loc, ret |-> result, due |-> due, time |-> time]

LiveLocals ==
  CASE pc \in {"ready", "outside"} -> <<>>
    [] pc = "tick" -> <<chan, pattbreak>>
    [] pc \in {"resolve", "chase"} -> <<back, pattbreak>>
    [] OTHER -> <<chan, pattnr, row, pattbreak, pattern_delay>>

Due ==
  IF pc = "ready" /\ (stage \in {"due", "add"} \/ (op = "songlength" /\ stage = "test"))
  THEN "due" ELSE "go"

Now == Point(<<speed, tempo, del>>, position, pc, LiveLocals, ret, Due, clock)

AtStart == Point(<<initspeed, bpm, 0>>, <<0, 0, 0>>, "ready", <<>>, "none", "go", 0)

(* Where the next step of update(), or the time counted after it, leads.   *)
Counted(c) ==
  LET tick == IF c.set[2] = 0 THEN Forever ELSE 2500 \div c.set[2]
  IN  Point(c.set, c.pos, "ready", <<>>, c.ret, "go", Least(Forever, c.time + tick))

Back(c, set, pos) ==
  Point(set, pos, "ready", <<>>, IF pos[3] = 0 THEN "true" ELSE "false", "due", c.time)

On(c, set, pos, at, loc) == Point(set, pos, at, loc, c.ret, "go", c.time)

Begun(c) ==
  IF c.set[1] = 0 THEN Point(c.set, c.pos, "ready", <<>>, "false", "due", c.time)
                  ELSE On(c, c.set, c.pos, "tick", <<0, 0>>)

Ticked(c) ==
  IF c.loc[1] < nchans THEN On(c, c.set, c.pos, "tick", <<c.loc[1] + 1, c.loc[2]>>)
  ELSE IF c.set[3] > 0 THEN Back(c, <<c.set[1], c.set[2], c.set[3] - 1>>, c.pos)
  ELSE On(c, c.set, c.pos, "resolve", <<"play", c.loc[2]>>)

Lost(c, pos) == On(c, c.set, pos, "outside", <<>>)

Found(c, pos) ==
  IF c.loc[1] # "play" THEN Back(c, c.set, pos)
  ELSE IF pos[1] < norders
  THEN On(c, c.set, pos, "row", <<0, order[pos[1]], pos[2], c.loc[2], 0>>)
  ELSE Lost(c, pos)

Chased(c) ==
  LET neword == order[c.pos[1]] - JumpMarker
  IN  IF c.at = "resolve" /\ c.pos[1] >= length THEN Found(c, <<restartpos, c.pos[2], 1>>)
      ELSE IF c.pos[1] >= norders THEN Lost(c, c.pos)
      ELSE IF order[c.pos[1]] < JumpMarker THEN Found(c, c.pos)
      ELSE IF neword = c.pos[1] THEN Back(c, c.set, <<c.pos[1], c.pos[2], 1>>)
      ELSE On(c, c.set, <<neword, c.pos[2], IF neword <= c.pos[1] THEN 1 ELSE c.pos[3]>>,
              "chase", c.loc)

NextCell(c, set, pos, broken, delay) ==
  On(c, set, pos, "row", <<c.loc[1] + 1, c.loc[2], c.loc[3], broken, delay>>)

Sequenced(c, fx, p1, p2, info) ==
  CASE fx = 11 ->
         NextCell(c, c.set, <<info, 0, IF info <= c.pos[1] THEN 1 ELSE c.pos[3]>>, 1, c.loc[5])
    [] fx = 13 /\ c.loc[4] = 0 ->
         NextCell(c, c.set, <<c.pos[1] + 1, IF info < nrows THEN info ELSE 0, c.pos[3]>>, 1,
                  c.loc[5])
    [] fx = 14 /\ p1 = 8 -> NextCell(c, c.set, c.pos, c.loc[4], (p2 * c.set[1]) % 256)
    [] fx = 29 -> NextCell(c, c.set, c.pos, c.loc[4], info)
    [] fx = 7 -> NextCell(c, <<c.set[1], info, c.set[3]>>, c.pos, c.loc[4], c.loc[5])
    [] fx = 15 ->
         NextCell(c, <<IF info <= 31 THEN info ELSE c.set[1],
                       IF info >= 50 THEN info ELSE c.set[2], c.set[3]>>,
                  <<c.pos[1], c.pos[2], IF info = 0 THEN 1 ELSE c.pos[3]>>, c.loc[4], c.loc[5])
    [] fx = 18 ->
         NextCell(c, IF info \in 1 .. 31 THEN <<info, c.set[2], c.set[3]>>
                                         ELSE <<c.set[1], info, c.set[3]>>,
                  c.pos, c.loc[4], c.loc[5])
    [] fx = 19 ->
         NextCell(c, <<IF info = 0 THEN 1 ELSE info, c.set[2], c.set[3]>>, c.pos, c.loc[4],
                  c.loc[5])
    [] OTHER -> NextCell(c, c.set, c.pos, c.loc[4], c.loc[5])

NextRow(c, broken) ==
  On(c, <<c.set[1], c.set[2], (c.set[1] - 1 + c.loc[5]) % 256>>,
     IF broken = 1 THEN c.pos
     ELSE IF c.pos[2] + 1 >= nrows THEN <<c.pos[1] + 1, 0, c.pos[3]>>
     ELSE <<c.pos[1], c.pos[2] + 1, c.pos[3]>>,
     "resolve", <<"done", broken>>)

StrayAt(c) ==
  /\ c.loc[1] \in active
  /\ c.loc[2] < npats => trackord[c.loc[2]][c.loc[1]] # 0 /\ c.loc[3] >= nrows

CellAt(c) == tracks[trackord[c.loc[2]][c.loc[1]]][c.loc[3]]

Rowed(c) ==
  IF c.loc[1] >= nchans THEN NextRow(c, c.loc[4])
  ELSE IF StrayAt(c) THEN Lost(c, c.pos)
  ELSE IF c.loc[1] \notin active \/ trackord[c.loc[2]][c.loc[1]] = 0
  THEN NextCell(c, c.set, c.pos, c.loc[4], c.loc[5])
  ELSE Sequenced(c, CellAt(c).command, CellAt(c).param1, CellAt(c).param2,
                 InfoOf(CellAt(c).param1, CellAt(c).param2))

OneStep(c) ==
  IF c.at = "ready" THEN IF c.due = "due" THEN Counted(c) ELSE Begun(c)
  ELSE IF c.at = "tick" THEN Ticked(c)
  ELSE IF c.at = "row" THEN Rowed(c)
  ELSE Chased(c)

LEMMA NowFields ==
  /\ Now.set = <<speed, tempo, del>> /\ Now.pos = <<ord, rw, songend>> /\ Now.at = pc
  /\ Now.loc = LiveLocals /\ Now.ret = ret /\ Now.due = Due /\ Now.time = clock
  /\ Now.set[1] = speed /\ Now.set[2] = tempo /\ Now.set[3] = del
  /\ Now.pos[1] = ord /\ Now.pos[2] = rw /\ Now.pos[3] = songend
  BY DEF Now, Point, position

(* Leaving a step of update() to its caller's bookkeeping.                 *)
LEMMA NowAfter ==
  /\ pc' \in {"ready", "outside"} => Now' = Point(<<speed', tempo', del'>>, <<ord', rw', songend'>>,
                                                  pc', <<>>, ret', Due', clock')
  /\ pc' = "tick" => Now' = Point(<<speed', tempo', del'>>, <<ord', rw', songend'>>,
                                  "tick", <<chan', pattbreak'>>, ret', Due', clock')
  /\ pc' \in {"resolve", "chase"} => Now' = Point(<<speed', tempo', del'>>, <<ord', rw', songend'>>,
                                                  pc', <<back', pattbreak'>>, ret', Due', clock')
  /\ pc' = "row" => Now' = Point(<<speed', tempo', del'>>, <<ord', rw', songend'>>,
                                 "row", <<chan', pattnr', row', pattbreak', pattern_delay'>>, ret', Due', clock')
<1>1. ASSUME NEW loc, LiveLocals' = loc
      PROVE  Now' = Point(<<speed', tempo', del'>>, <<ord', rw', songend'>>,
                          pc', loc, ret', Due', clock')
  BY <1>1 DEF Now, position
<1>2. /\ pc' \in {"ready", "outside"} => LiveLocals' = <<>>
      /\ pc' = "tick" => LiveLocals' = <<chan', pattbreak'>>
      /\ pc' \in {"resolve", "chase"} => LiveLocals' = <<back', pattbreak'>>
      /\ pc' = "row" => LiveLocals' = <<chan', pattnr', row', pattbreak', pattern_delay'>>
  BY DEF LiveLocals
<1> QED
  BY <1>1, <1>2

(* A cell's command moves on to the next channel.                          *)
LEMMA RowMoves ==
  ASSUME RowChannel
  PROVE  AtRow /\ NextChannel
<1>1. CASE PositionJump \/ PatternBreak \/ PatternDelayRows \/ PatternDelayFrames
  BY <1>1 DEF PositionJump, PatternBreak, PatternDelayRows, PatternDelayFrames, Command
<1>2. CASE SetTempo \/ SA2Speed
  BY <1>2 DEF SetTempo, SA2Speed, Command
<1>3. CASE AMDSpeed \/ RADSpeed
  BY <1>3 DEF AMDSpeed, RADSpeed, Command
<1>4. CASE PlainCell
  BY <1>4 DEF PlainCell
<1> QED
  BY <1>1, <1>2, <1>3, <1>4 DEF RowChannel

LEMMA RowSteps ==
  ASSUME TypeInv, RowChannel, Due = "go", Due' = "go", clock' = clock
  PROVE  Now' = Rowed(Now)
<1>1. /\ pc = "row" /\ pc' = "row" /\ chan < nchans /\ chan' = chan + 1
      /\ UNCHANGED <<del, pattnr, row, ret>>
  BY RowMoves DEF AtRow, NextChannel, ghosts
<1>2. Now.loc = <<chan, pattnr, row, pattbreak, pattern_delay>>
  BY <1>1, NowFields DEF LiveLocals
<1>3. /\ Now.loc[1] = chan /\ Now.loc[2] = pattnr /\ Now.loc[3] = row
      /\ Now.loc[4] = pattbreak /\ Now.loc[5] = pattern_delay
  BY <1>2
<1>4. Now' = Point(<<speed', tempo', del>>, <<ord', rw', songend'>>, "row",
                   <<chan + 1, pattnr, row, pattbreak', pattern_delay'>>, ret, "go", clock)
  BY <1>1, NowAfter
<1>5. CellAt(Now) = Cell /\ trackord[Now.loc[2]][Now.loc[1]] = Track
  BY <1>3 DEF CellAt, Cell, Track
<1>6. InfoOf(CellAt(Now).param1, CellAt(Now).param2) = Info
  BY <1>5 DEF Info
<1>7. \A set, pos, pb, pd :
        NextCell(Now, set, pos, pb, pd)
          = Point(set, pos, "row", <<chan + 1, pattnr, row, pb, pd>>, ret, "go", clock)
  BY <1>3, NowFields DEF NextCell, On
<1>8. ~(Now.loc[1] >= nchans)
  <2>1. chan \in Nat /\ nchans \in Nat
    BY SongFacts DEF TypeInv, TypeOK
  <2> QED
    BY <1>1, <1>3, <2>1
<1>9. /\ Skipped => Rowed(Now) = NextCell(Now, Now.set, Now.pos, Now.loc[4], Now.loc[5])
      /\ ~Skipped => Rowed(Now) = Sequenced(Now, Cell.command, Cell.param1, Cell.param2, Info)
  <2>1. Skipped <=> Now.loc[1] \notin active \/ trackord[Now.loc[2]][Now.loc[1]] = 0
    BY <1>3, <1>5 DEF Skipped
  <2>2. ~StrayAt(Now)
    BY <1>3, <1>5, RowMoves DEF AtRow, Stray, StrayAt
  <2> QED
    BY <1>5, <1>6, <1>8, <2>1, <2>2 DEF Rowed
<1>10. CASE PositionJump
  <2>1. /\ ~Skipped /\ Cell.command = 11 /\ pattbreak' = 1 /\ rw' = 0 /\ ord' = Info
        /\ songend' = (IF Info <= ord THEN 1 ELSE songend) /\ UNCHANGED <<speed, tempo, pattern_delay>>
    BY <1>10 DEF PositionJump, Command, JumpsBack
  <2>2. Rowed(Now) = NextCell(Now, Now.set, <<Info, 0, IF Info <= ord THEN 1 ELSE songend>>, 1, pattern_delay)
    BY <1>3, <1>9, <2>1, NowFields DEF Sequenced
  <2> QED
    BY <1>4, <1>7, <2>1, <2>2, NowFields
<1>11. CASE PatternBreak
  <2>1. /\ ~Skipped /\ Cell.command = 13 /\ pattbreak = 0 /\ pattbreak' = 1
        /\ rw' = (IF Info < nrows THEN Info ELSE 0) /\ ord' = ord + 1
        /\ UNCHANGED <<speed, tempo, songend, pattern_delay>>
    BY <1>11 DEF PatternBreak, Command
  <2>2. Rowed(Now) = NextCell(Now, Now.set, <<ord + 1, IF Info < nrows THEN Info ELSE 0, songend>>, 1,
                              pattern_delay)
    BY <1>3, <1>9, <2>1, NowFields DEF Sequenced
  <2> QED
    BY <1>4, <1>7, <2>1, <2>2, NowFields
<1>12. CASE PatternDelayRows
  <2>1. /\ ~Skipped /\ Cell.command = 14 /\ Cell.param1 = 8
        /\ pattern_delay' = (Cell.param2 * speed) % 256
        /\ UNCHANGED <<speed, tempo, ord, rw, songend, pattbreak>>
    BY <1>12 DEF PatternDelayRows, Command, position
  <2>2. Rowed(Now) = NextCell(Now, Now.set, Now.pos, pattbreak, (Cell.param2 * speed) % 256)
    BY <1>3, <1>9, <2>1, NowFields DEF Sequenced
  <2> QED
    BY <1>4, <1>7, <2>1, <2>2, NowFields
<1>13. CASE PatternDelayFrames
  <2>1. /\ ~Skipped /\ Cell.command = 29 /\ pattern_delay' = Info
        /\ UNCHANGED <<speed, tempo, ord, rw, songend, pattbreak>>
    BY <1>13 DEF PatternDelayFrames, Command, position
  <2>2. Rowed(Now) = NextCell(Now, Now.set, Now.pos, pattbreak, Info)
    BY <1>3, <1>9, <2>1, NowFields DEF Sequenced
  <2> QED
    BY <1>4, <1>7, <2>1, <2>2, NowFields
<1>14. CASE SetTempo
  <2>1. /\ ~Skipped /\ Cell.command = 7 /\ tempo' = Info
        /\ UNCHANGED <<speed, ord, rw, songend, pattbreak, pattern_delay>>
    BY <1>14 DEF SetTempo, Command, position
  <2>2. Rowed(Now) = NextCell(Now, <<speed, Info, del>>, Now.pos, pattbreak, pattern_delay)
    BY <1>3, <1>9, <2>1, NowFields DEF Sequenced
  <2> QED
    BY <1>4, <1>7, <2>1, <2>2, NowFields
<1>15. CASE SA2Speed
  <2>1. /\ ~Skipped /\ Cell.command = 15 /\ speed' = (IF Info <= 31 THEN Info ELSE speed)
        /\ tempo' = (IF Info >= 50 THEN Info ELSE tempo)
        /\ songend' = (IF Info = 0 THEN 1 ELSE songend)
        /\ UNCHANGED <<ord, rw, pattbreak, pattern_delay>>
    BY <1>15 DEF SA2Speed, Command
  <2>2. Rowed(Now) = NextCell(Now, <<IF Info <= 31 THEN Info ELSE speed, IF Info >= 50 THEN Info ELSE tempo, del>>,
                              <<ord, rw, IF Info = 0 THEN 1 ELSE songend>>, pattbreak, pattern_delay)
    BY <1>3, <1>9, <2>1, NowFields DEF Sequenced
  <2> QED
    BY <1>4, <1>7, <2>1, <2>2
<1>16. CASE AMDSpeed
  <2>1. /\ ~Skipped /\ Cell.command = 18
        /\ Info \in 1 .. 31 => speed' = Info /\ tempo' = tempo
        /\ Info \notin 1 .. 31 => tempo' = Info /\ speed' = speed
        /\ UNCHANGED <<ord, rw, songend, pattbreak, pattern_delay>>
    BY <1>16 DEF AMDSpeed, Command, position
  <2>2. Rowed(Now) = NextCell(Now, IF Info \in 1 .. 31 THEN <<Info, tempo, del>> ELSE <<speed, Info, del>>,
                              Now.pos, pattbreak, pattern_delay)
    BY <1>3, <1>9, <2>1, NowFields DEF Sequenced
  <2>3. (IF Info \in 1 .. 31 THEN <<Info, tempo, del>> ELSE <<speed, Info, del>>) = <<speed', tempo', del>>
    BY <2>1
  <2> QED
    BY <1>4, <1>7, <2>1, <2>2, <2>3, NowFields
<1>17. CASE RADSpeed
  <2>1. /\ ~Skipped /\ Cell.command = 19 /\ speed' = (IF Info = 0 THEN 1 ELSE Info)
        /\ UNCHANGED <<tempo, ord, rw, songend, pattbreak, pattern_delay>>
    BY <1>17 DEF RADSpeed, Command, position
  <2>2. Rowed(Now) = NextCell(Now, <<IF Info = 0 THEN 1 ELSE Info, tempo, del>>, Now.pos, pattbreak, pattern_delay)
    BY <1>3, <1>9, <2>1, NowFields DEF Sequenced
  <2> QED
    BY <1>4, <1>7, <2>1, <2>2, NowFields
<1>18. CASE PlainCell
  <2>1. /\ UNCHANGED <<speed, tempo, ord, rw, songend, pattbreak, pattern_delay>>
        /\ Skipped \/ (~Skipped /\ Unsequenced)
    BY <1>18 DEF PlainCell, position
  <2>2. ~Skipped => Rowed(Now) = NextCell(Now, Now.set, Now.pos, pattbreak, pattern_delay)
    <3>1. Unsequenced => /\ Cell.command \notin {7, 11, 15, 18, 19, 29}
                         /\ Cell.command = 13 => pattbreak # 0
                         /\ Cell.command = 14 => Cell.param1 # 8
      BY DEF Unsequenced
    <3> QED
      BY <1>3, <1>9, <2>1, <3>1 DEF Sequenced
  <2>3. Rowed(Now) = NextCell(Now, Now.set, Now.pos, pattbreak, pattern_delay)
    BY <1>3, <1>9, <2>2
  <2> QED
    BY <1>4, <1>7, <2>1, <2>3, NowFields
<1> QED
  BY <1>10, <1>11, <1>12, <1>13, <1>14, <1>15, <1>16, <1>17, <1>18 DEF RowChannel

LEMMA ResolveSteps ==
  ASSUME TypeInv, Resolve, Due = "go", Due' = (IF pc' = "ready" THEN "due" ELSE "go"), clock' = clock
  PROVE  Now' = Chased(Now)
<1>1. pc \in {"resolve", "chase"} /\ UNCHANGED <<speed, tempo, del, rw>>
  BY DEF Resolve, WrapAround, StrayOrder, OrderFound, SelfJump, FollowJump, AtOrder, AtMarker,
         LooksUp, position
<1>2. Now.at = pc /\ Now.loc = <<back, pattbreak>>
  BY <1>1, NowFields DEF LiveLocals
<1>3. Now.loc[1] = back /\ Now.loc[2] = pattbreak
  BY <1>2
<1>4. ord \in Nat /\ length \in Nat /\ norders \in Nat
  BY SongFacts DEF TypeInv, TypeOK
<1>5. ASSUME Resolved(TRUE), NEW pos, pos = <<ord', rw, songend'>>
      PROVE  Now' = Found(Now, pos)
  <2>1. pos[1] = ord' /\ pos[2] = rw /\ pos[3] = songend'
    BY <1>5
  <2>4. CASE back = "play" /\ ~(ord' < norders)
    <3>1. pc' = "outside" /\ ret' = ret
      BY <1>5, <2>4 DEF Resolved, ReadsOutside, ghosts
    <3>2. Now' = Point(<<speed, tempo, del>>, pos, "outside", <<>>, ret, "go", clock)
      BY <1>1, <1>5, <3>1, NowAfter
    <3>3. Found(Now, pos) = Point(<<speed, tempo, del>>, pos, "outside", <<>>, ret, "go", clock)
      BY <1>3, <2>1, <2>4, NowFields DEF Found, Lost, On
    <3> QED
      BY <3>2, <3>3
  <2>2. CASE back = "play" /\ ord' < norders
    <3>1. /\ pc' = "row" /\ chan' = 0 /\ pattern_delay' = 0 /\ pattnr' = order[ord'] /\ row' = rw
          /\ pattbreak' = pattbreak /\ ret' = ret
      BY <1>5, <2>2 DEF Resolved, PlayRow
    <3>2. Now' = Point(<<speed, tempo, del>>, pos, "row", <<0, order[ord'], rw, pattbreak, 0>>,
                       ret, "go", clock)
      BY <1>1, <1>5, <3>1, NowAfter
    <3>3. Found(Now, pos) = Point(<<speed, tempo, del>>, pos, "row", <<0, order[ord'], rw, pattbreak, 0>>,
                                  ret, "go", clock)
      BY <1>3, <2>1, <2>2, NowFields DEF Found, On
    <3> QED
      BY <3>2, <3>3
  <2>3. CASE back # "play"
    <3>1. pc' = "ready" /\ ret' = (IF songend' = 0 THEN "true" ELSE "false")
      BY <1>5, <2>3 DEF Resolved, Return
    <3>2. Now' = Point(<<speed, tempo, del>>, pos, "ready", <<>>, ret', "due", clock)
      BY <1>1, <1>5, <3>1, NowAfter
    <3>3. Found(Now, pos) = Point(<<speed, tempo, del>>, pos, "ready", <<>>, ret', "due", clock)
      BY <1>3, <2>1, <2>3, <3>1, NowFields DEF Found, Back
    <3> QED
      BY <3>2, <3>3
  <2> QED
    BY <2>2, <2>3, <2>4
<1>6. CASE WrapAround
  <2>1. pc = "resolve" /\ ord >= length /\ songend' = 1 /\ ord' = restartpos /\ Resolved(TRUE)
    BY <1>6 DEF WrapAround
  <2>2. Chased(Now) = Found(Now, <<restartpos, rw, 1>>)
    BY <1>2, <2>1, NowFields DEF Chased
  <2> QED
    BY <1>5, <2>1, <2>2
<1>7. CASE OrderFound
  <2>1. AtOrder /\ order[ord] < JumpMarker /\ UNCHANGED <<ord, songend>> /\ Resolved(TRUE)
    BY <1>7 DEF OrderFound, position
  <2>2. ~(Now.at = "resolve" /\ Now.pos[1] >= length)
    BY <1>2, <1>4, <2>1, NowFields DEF AtOrder, LooksUp
  <2>4. ~(Now.pos[1] >= norders)
    BY <1>4, <2>1, NowFields DEF AtOrder
  <2>3. Chased(Now) = Found(Now, <<ord, rw, songend>>)
    BY <2>1, <2>2, <2>4, NowFields DEF Chased
  <2> QED
    BY <1>5, <2>1, <2>3
<1>8. ASSUME AtMarker
      PROVE  /\ Neword = ord => Chased(Now) = Back(Now, Now.set, <<ord, rw, 1>>)
             /\ Neword # ord => Chased(Now) = On(Now, Now.set, <<Neword, rw, IF Neword <= ord THEN 1 ELSE songend>>,
                                                 "chase", <<back, pattbreak>>)
  <2>1. ~(order[ord] < JumpMarker)
    <3>1. order[ord] \in Byte
      BY <1>4, <1>8, OrderFacts DEF AtMarker, AtOrder, TypeInv
    <3> QED
      BY <1>8, <3>1 DEF AtMarker, Byte, JumpMarker
  <2>2. ~(Now.at = "resolve" /\ Now.pos[1] >= length)
    BY <1>2, <1>4, <1>8, NowFields DEF AtMarker, AtOrder, LooksUp
  <2>3. ~(Now.pos[1] >= norders)
    BY <1>4, <1>8, NowFields DEF AtMarker, AtOrder
  <2> QED
    BY <1>2, <2>1, <2>2, <2>3, NowFields DEF Chased, Neword
<1>9. CASE SelfJump
  <2>1. AtMarker /\ Neword = ord /\ songend' = 1 /\ ord' = ord /\ Resolved(FALSE)
    BY <1>9 DEF SelfJump
  <2>2. pc' = "ready" /\ ret' = "false"
    BY <2>1 DEF Resolved, Return
  <2>3. Now' = Point(<<speed, tempo, del>>, <<ord, rw, 1>>, "ready", <<>>, "false", "due", clock)
    BY <1>1, <2>1, <2>2, NowAfter
  <2>4. Back(Now, Now.set, <<ord, rw, 1>>) =
          Point(<<speed, tempo, del>>, <<ord, rw, 1>>, "ready", <<>>, "false", "due", clock)
    BY NowFields DEF Back
  <2> QED
    BY <1>8, <2>1, <2>3, <2>4
<1>10. CASE FollowJump
  <2>1. /\ AtMarker /\ Neword # ord /\ songend' = (IF Neword <= ord THEN 1 ELSE songend)
        /\ ord' = Neword /\ pc' = "chase" /\ UNCHANGED <<back, pattbreak, ret>>
    BY <1>10 DEF FollowJump, locals, ghosts
  <2>2. Now' = Point(<<speed, tempo, del>>, <<Neword, rw, songend'>>, "chase", <<back, pattbreak>>,
                     ret, "go", clock)
    BY <1>1, <2>1, NowAfter
  <2>3. Chased(Now) = Point(<<speed, tempo, del>>, <<Neword, rw, songend'>>, "chase",
                            <<back, pattbreak>>, ret, "go", clock)
    BY <1>8, <2>1, NowFields DEF On
  <2> QED
    BY <2>2, <2>3
<1>11. CASE StrayOrder
  <2>1. /\ LooksUp /\ ord >= norders /\ pc' = "outside"
        /\ UNCHANGED <<ord, songend, ret>>
    BY <1>11 DEF StrayOrder, ReadsOutside, ghosts, position
  <2>2. Now' = Point(<<speed, tempo, del>>, <<ord, rw, songend>>, "outside", <<>>, ret, "go", clock)
    BY <1>1, <2>1, NowAfter
  <2>3. ~(Now.at = "resolve" /\ Now.pos[1] >= length)
    BY <1>2, <1>4, <2>1, NowFields DEF LooksUp
  <2>4. Chased(Now) = Lost(Now, Now.pos)
    BY <2>1, <2>3, NowFields DEF Chased
  <2> QED
    BY <2>2, <2>4, NowFields DEF Lost, On
<1> QED
  BY <1>6, <1>7, <1>9, <1>10, <1>11 DEF Resolve

(* update() is deterministic.                                              *)
LEMMA UpdateSteps ==
  ASSUME TypeInv, SeqUpdate, Due = "go", Due' = (IF pc' = "ready" THEN "due" ELSE "go"),
         clock' = clock
  PROVE  Now' = OneStep(Now)
<1>1. Now.at = pc /\ Now.due = "go"
  BY NowFields
<1>2. CASE FullStop
  <2>1. pc = "ready" /\ speed = 0 /\ pc' = "ready" /\ ret' = "false"
        /\ UNCHANGED <<speed, tempo, del, ord, rw, songend>>
    BY <1>2 DEF FullStop, Return, position
  <2>2. Now' = Point(<<speed, tempo, del>>, <<ord, rw, songend>>, "ready", <<>>, "false", "due", clock)
    BY <2>1, NowAfter
  <2>3. OneStep(Now) = Point(Now.set, Now.pos, "ready", <<>>, "false", "due", clock)
    BY <1>1, <2>1, NowFields DEF OneStep, Begun
  <2> QED
    BY <2>2, <2>3, NowFields
<1>3. CASE BeginUpdate
  <2>1. pc = "ready" /\ speed # 0 /\ pc' = "tick" /\ chan' = 0 /\ pattbreak' = 0 /\ ret' = ret
        /\ UNCHANGED <<speed, tempo, del, ord, rw, songend>>
    BY <1>3 DEF BeginUpdate, position, ghosts
  <2>2. Now' = Point(<<speed, tempo, del>>, <<ord, rw, songend>>, "tick", <<0, 0>>, ret, "go", clock)
    BY <2>1, NowAfter
  <2>3. OneStep(Now) = Point(Now.set, Now.pos, "tick", <<0, 0>>, ret, "go", clock)
    BY <1>1, <2>1, NowFields DEF OneStep, Begun, On
  <2> QED
    BY <2>2, <2>3, NowFields
<1>4. ASSUME pc = "tick"
      PROVE  Now.loc[1] = chan /\ Now.loc[2] = pattbreak /\ OneStep(Now) = Ticked(Now)
  <2>1. Now.loc = <<chan, pattbreak>>
    BY <1>4, NowFields DEF LiveLocals
  <2> QED
    BY <1>1, <1>4, <2>1 DEF OneStep
<1>5. CASE TickChannel
  <2>1. pc = "tick" /\ chan < nchans /\ chan' = chan + 1 /\ pc' = "tick" /\ pattbreak' = pattbreak
        /\ ret' = ret /\ UNCHANGED <<speed, tempo, del, ord, rw, songend>>
    BY <1>5 DEF TickChannel, position, ghosts
  <2>2. Now' = Point(<<speed, tempo, del>>, <<ord, rw, songend>>, "tick", <<chan + 1, pattbreak>>,
                     ret, "go", clock)
    BY <2>1, NowAfter
  <2>3. OneStep(Now) = Point(Now.set, Now.pos, "tick", <<chan + 1, pattbreak>>, ret, "go", clock)
    BY <1>4, <2>1, NowFields DEF Ticked, On
  <2> QED
    BY <2>2, <2>3, NowFields
<1>6. ASSUME pc = "tick", chan = nchans PROVE ~(Now.loc[1] < nchans)
  BY <1>4, <1>6, SongFacts DEF TypeInv
<1>7. CASE Wait
  <2>1. pc = "tick" /\ chan = nchans /\ del > 0 /\ del' = del - 1 /\ pc' = "ready"
        /\ ret' = (IF songend = 0 THEN "true" ELSE "false")
        /\ UNCHANGED <<speed, tempo, ord, rw, songend>>
    BY <1>7 DEF Wait, Return, position
  <2>2. Now' = Point(<<speed, tempo, del - 1>>, <<ord, rw, songend>>, "ready", <<>>, ret', "due", clock)
    BY <2>1, NowAfter
  <2>3. OneStep(Now) = Point(<<speed, tempo, del - 1>>, Now.pos, "ready", <<>>, ret', "due", clock)
    BY <1>4, <1>6, <2>1, NowFields DEF Ticked, Back
  <2> QED
    BY <2>2, <2>3, NowFields
<1>8. CASE NextRowDue
  <2>1. pc = "tick" /\ chan = nchans /\ del = 0 /\ pc' = "resolve" /\ back' = "play"
        /\ pattbreak' = pattbreak /\ ret' = ret /\ UNCHANGED <<speed, tempo, del, ord, rw, songend>>
    BY <1>8 DEF NextRowDue, position, ghosts
  <2>2. Now' = Point(<<speed, tempo, del>>, <<ord, rw, songend>>, "resolve", <<"play", pattbreak>>,
                     ret, "go", clock)
    BY <2>1, NowAfter
  <2>3. OneStep(Now) = Point(Now.set, Now.pos, "resolve", <<"play", pattbreak>>, ret, "go", clock)
    BY <1>4, <1>6, <2>1, NowFields DEF Ticked, On
  <2> QED
    BY <2>2, <2>3, NowFields
<1>9. CASE Resolve
  <2>1. pc \in {"resolve", "chase"}
    BY <1>9 DEF Resolve, WrapAround, StrayOrder, OrderFound, SelfJump, FollowJump, AtOrder,
                AtMarker, LooksUp
  <2> QED
    BY <1>1, <1>9, <2>1, ResolveSteps DEF OneStep
<1>10. CASE RowChannel
  <2>1. pc = "row" /\ pc' = "row"
    BY <1>10, RowMoves DEF AtRow, NextChannel
  <2> QED
    BY <1>1, <1>10, <2>1, RowSteps DEF OneStep
<1>11. CASE Advance
  <2>1. /\ pc = "row" /\ chan = nchans /\ del' = (speed - 1 + pattern_delay) % 256 /\ NextPosition
        /\ pc' = "resolve" /\ back' = "done" /\ ret' = ret
        /\ UNCHANGED <<speed, tempo, songend, pattbreak>>
    BY <1>11 DEF Advance, ghosts
  <2>2. Now.loc = <<chan, pattnr, row, pattbreak, pattern_delay>>
    BY <2>1, NowFields DEF LiveLocals
  <2>3. Now.loc[1] = chan /\ Now.loc[4] = pattbreak /\ Now.loc[5] = pattern_delay
    BY <2>2
  <2>4. Now' = Point(<<speed, tempo, (speed - 1 + pattern_delay) % 256>>, <<ord', rw', songend>>,
                     "resolve", <<"done", pattbreak>>, ret, "go", clock)
    BY <2>1, NowAfter
  <2>5. ~(Now.loc[1] < nchans) /\ Now.loc[1] >= nchans
    BY <2>1, <2>3, SongFacts DEF TypeInv
  <2>6. OneStep(Now) = NextRow(Now, pattbreak)
    BY <1>1, <2>1, <2>3, <2>5 DEF OneStep, Rowed
  <2>7. ASSUME NEW pos, pos = <<ord', rw', songend>>
        PROVE  pos = IF pattbreak = 1 THEN Now.pos
                     ELSE IF rw + 1 >= nrows THEN <<ord + 1, 0, songend>> ELSE <<ord, rw + 1, songend>>
    BY <2>1, <2>7, NowFields DEF NextPosition
  <2>8. NextRow(Now, pattbreak) =
          Point(<<speed, tempo, (speed - 1 + pattern_delay) % 256>>, <<ord', rw', songend>>,
                "resolve", <<"done", pattbreak>>, ret, "go", clock)
    BY <2>3, <2>7, NowFields DEF NextRow, On
  <2> QED
    BY <2>4, <2>6, <2>8
<1>12. CASE StrayRow
  <2>1. /\ pc = "row" /\ chan < nchans /\ Stray /\ pc' = "outside"
        /\ UNCHANGED <<speed, tempo, del, ord, rw, songend, ret>>
    BY <1>12 DEF StrayRow, ReadsOutside, ghosts, position
  <2>2. Now.loc = <<chan, pattnr, row, pattbreak, pattern_delay>>
    BY <2>1, NowFields DEF LiveLocals
  <2>3. Now.loc[1] = chan /\ Now.loc[2] = pattnr /\ Now.loc[3] = row
    BY <2>2
  <2>4. Now' = Point(<<speed, tempo, del>>, <<ord, rw, songend>>, "outside", <<>>, ret, "go", clock)
    BY <2>1, NowAfter
  <2>5. ~(Now.loc[1] >= nchans)
    BY <2>1, <2>3, SongFacts DEF TypeInv, TypeOK
  <2>6. StrayAt(Now)
    BY <2>1, <2>3 DEF Stray, StrayAt, Track
  <2>7. OneStep(Now) = Lost(Now, Now.pos)
    BY <1>1, <2>1, <2>5, <2>6 DEF OneStep, Rowed
  <2> QED
    BY <2>4, <2>7, NowFields DEF Lost, On
<1> QED
  BY <1>2, <1>3, <1>5, <1>7, <1>8, <1>9, <1>10, <1>11, <1>12 DEF SeqUpdate

(* And so is the time that is counted after it.                            *)
LEMMA TimeSteps ==
  ASSUME UNCHANGED modVars, pc = "ready", Due = "due", Due' = "go", clock' = After(clock)
  PROVE  Now' = OneStep(Now)
<1>1. UNCHANGED <<speed, tempo, del, ord, rw, songend, pc, ret>>
  BY DEF modVars, seqVars, position, ghosts
<1>2. Now' = Point(<<speed, tempo, del>>, <<ord, rw, songend>>, "ready", <<>>, ret, "go", After(clock))
  BY <1>1, NowAfter
<1>3. OneStep(Now) = Point(Now.set, Now.pos, "ready", <<>>, ret, "go", After(clock))
  <2>1. OneStep(Now) = Counted(Now)
    BY NowFields DEF OneStep
  <2> QED
    BY <2>1, NowFields DEF Counted, After, TickTime
<1> QED
  BY <1>2, <1>3, NowFields

-----------------------------------------------------------------------------
(* Time only grows along the path, up to Forever (a timer that stands).    *)
Climbs(s, n) ==
  /\ \A i \in 0 .. n : s[i].time \in Nat
  /\ \A i, j \in 0 .. n : i <= j => s[i].time <= s[j].time

(* The path ends where update() first returns false; songlength() stops on *)
(* it at the first return that it takes for the end.                       *)
Over(c) == c.ret = "false"
Stop(c) == c.due = "due" /\ (Over(c) \/ c.time >= Limit)

Path(s, n) ==
  /\ s[0] = AtStart
  /\ \A i \in 0 .. (n - 1) : ~Over(s[i]) /\ s[i + 1] = OneStep(s[i])
  /\ Climbs(s, n)

Measured(s, n, a) ==
  \E m \in 0 .. n : Stop(s[m]) /\ s[m].time = a /\ \A i \in 0 .. (m - 1) : ~Stop(s[i])

Measuring == op = "songlength" /\ stage \in {"run", "test"}

(* Everybody is on the path, or plays on after its end; and every length   *)
(* measured is where it stops first.                                       *)
Walk(s, n, k) ==
  /\ k <= n /\ Path(s, n)
  /\ \A a \in lengths : Measured(s, n, a)
  /\ op = "songlength" /\ stage = "restore" => Measured(s, n, clock)
  /\ Measuring => Now = s[k] /\ \A i \in 0 .. (k - 1) : ~Stop(s[i])
  /\ op # "songlength" => Now = s[k] \/ (ret = "false" /\ Over(s[n]) /\ clock = s[n].time)

WalkInv == \E n \in Nat, k \in Nat : \E s : Walk(s, n, k)

(* Where the operations are.                                               *)
AtRest ==
  /\ speed = initspeed /\ tempo = bpm /\ del = 0 /\ ord = 0 /\ rw = 0 /\ songend = 0
  /\ pc = "ready" /\ ret = "none"

StageInv ==
  /\ clock \in Nat /\ clock <= Forever /\ goal \in Nat
  /\ op \in {"none", "songlength", "seek"}
  /\ op = "none" => stage \in {"idle", "due"}
  /\ op = "seek" => stage \in {"test", "run", "add"}
  /\ op = "songlength" => stage \in {"rewind", "run", "test", "restore"}
  /\ op = "seek" => IF stage = "test" THEN ret # "false" ELSE clock < goal
  /\ stage \in {"test", "add"} => pc = "ready"
  /\ op = "songlength" /\ stage = "run" => ret # "false"
  /\ op = "songlength" /\ stage = "restore" => AtRest

LEMMA PathKept ==
  ASSUME song' = song, NEW s, NEW n, Path(s, n)
  PROVE  Path(s, n)'
<1>1. UNCHANGED <<initspeed, bpm, nchans, order, length, norders, restartpos, npats, nrows, active,
                  trackord, tracks, flags>>
  BY DEF initspeed, bpm, nchans, order, length, norders, restartpos, npats, nrows, active,
         trackord, tracks, flags
<1>2. AtStart' = AtStart
  BY <1>1 DEF AtStart
<1>3. ASSUME NEW c PROVE OneStep(c)' = OneStep(c)
  <2>1. Counted(c)' = Counted(c)
    BY DEF Counted
  <2>2. Begun(c)' = Begun(c)
    BY DEF Begun, On
  <2>3. Ticked(c)' = Ticked(c)
    BY <1>1 DEF Ticked, On, Back
  <2>4. Chased(c)' = Chased(c)
    BY <1>1 DEF Chased, Found, Lost, On, Back
  <2>5. Rowed(c)' = Rowed(c)
    <3>1. \A p, q : InfoOf(p, q)' = InfoOf(p, q)
      BY <1>1 DEF InfoOf
    <3>2. CellAt(c)' = CellAt(c)
      BY <1>1 DEF CellAt
    <3>3. \A fx, p, q, info : Sequenced(c, fx, p, q, info)' = Sequenced(c, fx, p, q, info)
      BY <1>1 DEF Sequenced, NextCell, On
    <3>4. \A d : NextRow(c, d)' = NextRow(c, d)
      BY <1>1 DEF NextRow, On
    <3> QED
      BY <1>1, <3>1, <3>2, <3>3, <3>4 DEF Rowed, StrayAt, Lost, NextCell, On
  <2> QED
    BY <2>1, <2>2, <2>3, <2>4, <2>5 DEF OneStep
<1> QED
  BY <1>2, <1>3 DEF Path, Over

LEMMA PathExtends ==
  ASSUME NEW n \in Nat, NEW k \in 0 .. n, NEW s, Path(s, n), ~Over(s[k]),
         OneStep(s[k]).time \in Nat, s[k].time <= OneStep(s[k]).time
  PROVE  \E m \in Nat : \E r : /\ n <= m /\ k + 1 <= m /\ Path(r, m)
                               /\ r[k + 1] = OneStep(s[k])
                               /\ \A i \in 0 .. n : r[i] = s[i]
<1>1. CASE k = n
  <2>1. PICK q : q = OneStep(s[n])
    OBVIOUS
  <2>2. PICK r : r[n + 1] = q /\ \A i \in 0 .. n : r[i] = s[i]
    <3> DEFINE longer == [i \in 0 .. (n + 1) |-> IF i <= n THEN s[i] ELSE q]
    <3>1. longer[n + 1] = q /\ \A i \in 0 .. n : longer[i] = s[i]
      OBVIOUS
    <3> QED
      BY <3>1
  <2>3. r[0] = AtStart
    BY <2>2 DEF Path
  <2>4. ASSUME NEW i \in 0 .. ((n + 1) - 1) PROVE ~Over(r[i]) /\ r[i + 1] = OneStep(r[i])
    <3>1. CASE i = n
      BY <1>1, <2>1, <2>2, <3>1
    <3>2. CASE i # n
      <4>1. i \in 0 .. (n - 1) /\ i \in 0 .. n /\ i + 1 \in 0 .. n
        BY <3>2
      <4>2. r[i] = s[i] /\ r[i + 1] = s[i + 1]
        BY <2>2, <4>1
      <4> QED
        BY <4>1, <4>2 DEF Path
    <3> QED
      BY <3>1, <3>2
  <2>5. Path(r, n + 1)
    <3>1. Climbs(s, n) /\ r[n + 1].time \in Nat /\ s[n].time <= r[n + 1].time
      BY <1>1, <2>1, <2>2 DEF Path
    <3>2. ASSUME NEW i \in 0 .. (n + 1)
          PROVE  /\ r[i].time \in Nat
                 /\ i <= n => i \in 0 .. n /\ r[i] = s[i] /\ s[i].time <= s[n].time
                 /\ i > n => i = n + 1
      <4>1. CASE i <= n
        <5>1. i \in 0 .. n /\ n \in 0 .. n
          BY <4>1
        <5> QED
          BY <2>2, <3>1, <4>1, <5>1 DEF Climbs
      <4>2. CASE i > n
        <5>1. i = n + 1
          BY <4>2
        <5> QED
          BY <3>1, <4>2, <5>1
      <4> QED
        BY <4>1, <4>2
    <3>3. ASSUME NEW i \in 0 .. (n + 1), NEW j \in 0 .. (n + 1), i <= j
          PROVE  r[i].time <= r[j].time
      <4>1. CASE j <= n
        <5>1. i \in 0 .. n /\ j \in 0 .. n /\ r[i] = s[i] /\ r[j] = s[j]
          BY <3>2, <3>3, <4>1
        <5> QED
          BY <3>1, <3>3, <5>1 DEF Climbs
      <4>2. CASE j > n /\ i <= n
        <5>1. /\ r[i] = s[i] /\ s[i].time <= s[n].time /\ j = n + 1
              /\ s[i].time \in Nat /\ s[n].time \in Nat /\ r[j].time \in Nat
          BY <3>1, <3>2, <4>2 DEF Climbs
        <5>2. s[n].time <= r[j].time
          BY <3>1, <5>1
        <5>3. ASSUME NEW x \in Nat, NEW y \in Nat, NEW z \in Nat, x <= y, y <= z
              PROVE  x <= z
          BY <5>3
        <5> QED
          BY <5>1, <5>2, <5>3
      <4>3. CASE i > n
        <5>1. i = j
          BY <3>3, <4>3
        <5>2. ASSUME NEW x \in Nat PROVE x <= x
          OBVIOUS
        <5> QED
          BY <3>2, <5>1, <5>2
      <4> QED
        BY <4>1, <4>2, <4>3
    <3> QED
      BY <2>3, <2>4, <3>2, <3>3 DEF Path, Climbs
  <2>6. n + 1 \in Nat /\ n <= n + 1 /\ k + 1 <= n + 1 /\ r[k + 1] = OneStep(s[k])
    BY <1>1, <2>1, <2>2
  <2> QED
    BY <2>2, <2>5, <2>6
<1>2. CASE k # n
  <2>1. k \in 0 .. (n - 1) /\ k + 1 <= n /\ n <= n
    BY <1>2
  <2>2. s[k + 1] = OneStep(s[k])
    BY <2>1 DEF Path
  <2> QED
    BY <2>1, <2>2
<1> QED
  BY <1>1, <1>2

LEMMA MeasuredStays ==
  ASSUME NEW n \in Nat, NEW m \in Nat, n <= m, NEW s, NEW r, \A i \in 0 .. n : r[i] = s[i],
         NEW a, Measured(s, n, a)
  PROVE  Measured(r, m, a)
<1>1. PICK j \in 0 .. n : Stop(s[j]) /\ s[j].time = a /\ \A i \in 0 .. (j - 1) : ~Stop(s[i])
  BY DEF Measured
<1>2. j \in 0 .. m /\ r[j] = s[j] /\ \A i \in 0 .. (j - 1) : r[i] = s[i]
  OBVIOUS
<1> QED
  BY <1>1, <1>2 DEF Measured

(* One step further along the path.                                        *)
LEMMA WalkOn ==
  ASSUME NEW n \in Nat, NEW k \in Nat, NEW s, k <= n, Path(s, n),
         \A a \in lengths : Measured(s, n, a),
         Now = s[k], ~Over(Now), Now' = OneStep(Now), song' = song, lengths' = lengths,
         clock' \in Nat, clock <= clock',
         op' = "songlength" => stage' # "restore" /\ \A i \in 0 .. k : ~Stop(s[i])
  PROVE  WalkInv'
<1>1. k \in 0 .. n /\ ~Over(s[k])
  OBVIOUS
<1>1a. OneStep(s[k]).time = clock' /\ s[k].time = clock
  BY NowFields DEF Now, Point
<1>2. PICK m \in Nat : \E r : /\ n <= m /\ k + 1 <= m /\ Path(r, m)
                              /\ r[k + 1] = OneStep(s[k])
                              /\ \A i \in 0 .. n : r[i] = s[i]
  BY <1>1, <1>1a, PathExtends
<1>3. PICK r : /\ n <= m /\ k + 1 <= m /\ Path(r, m)
               /\ r[k + 1] = OneStep(s[k])
               /\ \A i \in 0 .. n : r[i] = s[i]
  BY <1>2
<1>4. Path(r, m)' /\ Now' = r[k + 1]
  BY <1>3, PathKept
<1>5. \A a \in lengths' : Measured(r, m, a)
  BY <1>3, MeasuredStays
<1>6. op' = "songlength" => \A i \in 0 .. ((k + 1) - 1) : ~Stop(r[i])
  BY <1>3
<1>7. Walk(r, m, k + 1)'
  BY <1>3, <1>4, <1>5, <1>6 DEF Walk, Measuring
<1> QED
  BY <1>7 DEF WalkInv

(* Back at its start.                                                      *)
LEMMA WalkAnew ==
  ASSUME NEW n \in Nat, NEW s, Path(s, n), Now' = AtStart, song' = song,
         \A a \in lengths' : Measured(s, n, a), op' = "songlength" => stage' # "restore"
  PROVE  WalkInv'
<1>1. Path(s, n)' /\ 0 <= n
  BY PathKept
<1>1a. Now' = s[0]
  BY DEF Path
<1>2. \A i \in 0 .. (0 - 1) : ~Stop(s[i])
  OBVIOUS
<1>3. Walk(s, n, 0)'
  BY <1>1, <1>1a, <1>2 DEF Walk, Measuring
<1> QED
  BY <1>3 DEF WalkInv

LEMMA RewindStarts ==
  ASSUME ModRewind
  PROVE  /\ AtRest' /\ song' = song /\ pc = "ready"
         /\ clock' = 0 /\ Due' = "go" => Now' = AtStart
<1>1. /\ speed' = initspeed /\ tempo' = bpm /\ del' = 0 /\ ord' = 0 /\ rw' = 0 /\ songend' = 0
      /\ pc' = "ready" /\ ret' = "none" /\ song' = song /\ pc = "ready"
  BY DEF ModRewind, SeqRewind, Rewound
<1>2. UNCHANGED <<initspeed, bpm>>
  BY <1>1 DEF initspeed, bpm
<1>3. AtRest'
  BY <1>1, <1>2 DEF AtRest
<1>4. ASSUME clock' = 0, Due' = "go" PROVE Now' = AtStart
  <2>1. Now' = Point(<<initspeed, bpm, 0>>, <<0, 0, 0>>, "ready", <<>>, "none", "go", 0)
    BY <1>1, <1>4, NowAfter
  <2> QED
    BY <2>1 DEF AtStart
<1> QED
  BY <1>1, <1>3, <1>4

(* A call that goes on has not yet said anything.                          *)
LEMMA UpdateReports ==
  ASSUME ModUpdate, pc' # "ready"
  PROVE  ret' = ret
<1>1. CASE ModTick
  BY <1>1 DEF ModTick, TickChannel, ghosts
<1>2. CASE ModRow
  BY <1>2, RowMoves DEF ModRow, NextChannel, ghosts
<1>3. CASE ModControl
  <2>1. CASE FullStop \/ BeginUpdate \/ Wait \/ NextRowDue \/ Advance \/ StrayRow
    BY <2>1 DEF FullStop, BeginUpdate, Wait, NextRowDue, Advance, StrayRow, ReadsOutside,
                Return, ghosts
  <2>2. CASE Resolve
    BY <2>2 DEF Resolve, WrapAround, StrayOrder, OrderFound, SelfJump, FollowJump, Resolved,
                PlayRow, ReadsOutside, Return, ghosts
  <2> QED
    BY <1>3, <2>1, <2>2 DEF ModControl
<1> QED
  BY <1>1, <1>2, <1>3 DEF ModUpdate

(* Once it has said that the song is over, it goes on saying so.           *)
LEMMA UpdateReportsOn ==
  ASSUME SeqUpdate, ret = "false", [ret = "false" => ret' \in {"false", "none"}]_seqVars
  PROVE  ret' = "false"
<1>1. ret' \in {"false", "none"}
  BY DEF seqVars, ghosts
<1>2. ret' = "false" \/ ret' = ret \/ ret' = "true"
  <2>1. CASE FullStop \/ BeginUpdate \/ TickChannel \/ Wait \/ NextRowDue \/ Advance \/ StrayRow
    BY <2>1 DEF FullStop, BeginUpdate, TickChannel, Wait, NextRowDue, Advance, StrayRow,
                ReadsOutside, Return, ghosts
  <2>2. CASE Resolve
    BY <2>2 DEF Resolve, WrapAround, StrayOrder, OrderFound, SelfJump, FollowJump, Resolved,
                PlayRow, ReadsOutside, Return, ghosts
  <2>3. CASE RowChannel
    BY <2>3, RowMoves DEF NextChannel, ghosts
  <2> QED
    BY <2>1, <2>2, <2>3 DEF SeqUpdate
<1> QED
  BY <1>1, <1>2

(* Time is counted in milliseconds, however slow the song.                 *)
LEMMA AfterIsLater ==
  ASSUME TypeInv, clock \in Nat, clock <= Forever
  PROVE  After(clock) \in Nat /\ After(clock) <= Forever /\ clock <= After(clock)
<1>1. Forever \in Nat
  BY SMT DEF Forever
<1>2. TickTime \in Nat
  <2>1. CASE tempo = 0
    BY <1>1, <2>1 DEF TickTime
  <2>2. CASE tempo # 0
    <3>1. tempo \in Nat /\ tempo > 0
      BY <2>2, SMTT(30) DEF TypeInv, TypeOK, Word
    <3>2. 2500 \div tempo \in Nat
      BY <3>1
    <3> QED
      BY <2>2, <3>2 DEF TickTime
  <2> QED
    BY <2>1, <2>2
<1> QED
  BY <1>1, <1>2 DEF After, Least

LEMMA ClockKept ==
  ASSUME TypeInv, clock \in Nat, clock <= Forever, [PlayerNext]_playerVars
  PROVE  clock' \in Nat /\ clock' <= Forever
<1>1. clock' \in {clock, 0, After(clock)}
  BY DEF PlayerNext, Operating, FrontendTime, FrontendUpdate, FrontendRewind, SongLength, Seek,
         MeasureRewind, MeasureUpdate, MeasureOn, MeasureEnd, MeasureReturn, SeekOn,
         SeekUpdate, SeekAdd, SeekReturn, CallUpdate, playerVars
<1>2. 0 <= Forever
  BY SMT DEF Forever
<1> QED
  BY <1>1, <1>2, AfterIsLater

LEMMA StageKept ==
  ASSUME TypeInv, StageInv, [PlayerNext]_playerVars
  PROVE  StageInv'
<1>0. clock' \in Nat /\ (clock <= Forever)' /\ goal' \in Nat
  <2>1. goal' = goal \/ goal' \in SeekTargets
    BY DEF PlayerNext, Operating, FrontendTime, FrontendUpdate, FrontendRewind, SongLength, Seek,
           MeasureRewind, MeasureUpdate, MeasureOn, MeasureEnd, MeasureReturn, SeekOn,
           SeekUpdate, SeekAdd, SeekReturn, CallUpdate, playerVars, opVars
  <2> QED
    BY <2>1, ClockKept, PlayerAssumption DEF StageInv
<1> USE <1>0 DEF StageInv
<1>1. CASE UNCHANGED playerVars
  BY <1>1 DEF playerVars, modVars, seqVars, ghosts, position, opVars, AtRest, initspeed, bpm
<1>2. CASE FrontendTime \/ MeasureOn \/ SeekOn \/ SeekAdd \/ SeekReturn
  <2>1. pc' = pc /\ ret' = ret
    BY <1>2 DEF FrontendTime, MeasureOn, SeekOn, SeekAdd, SeekReturn, modVars, seqVars, ghosts
  <2>2. CASE FrontendTime \/ SeekReturn
    BY <2>2 DEF FrontendTime, SeekReturn
  <2>3. CASE MeasureOn
    BY <2>1, <2>3 DEF MeasureOn
  <2>4. CASE SeekOn \/ SeekAdd
    BY <2>1, <2>4 DEF SeekOn, SeekAdd
  <2> QED
    BY <1>2, <2>2, <2>3, <2>4
<1>3. CASE FrontendUpdate
  BY <1>3 DEF FrontendUpdate
<1>4. CASE MeasureUpdate
  <2>1. op = "songlength" /\ stage = "run" /\ op' = op /\ ModUpdate
        /\ stage' = IF pc' = "ready" THEN "test" ELSE "run"
    BY <1>4 DEF MeasureUpdate, CallUpdate
  <2> QED
    BY <2>1, UpdateReports
<1>5. CASE SeekUpdate
  <2>1. op' = "seek" /\ goal' = goal /\ clock' = clock /\ clock < goal
        /\ stage' = IF pc' = "ready" THEN "add" ELSE "run"
    BY <1>5 DEF SeekUpdate, CallUpdate
  <2> QED
    BY <2>1
<1>6. CASE FrontendRewind
  BY <1>6 DEF FrontendRewind
<1>7. CASE MeasureRewind
  <2>1. ret' = "none" /\ op' = "songlength" /\ stage' = "run"
    BY <1>7, RewindStarts DEF MeasureRewind, AtRest
  <2> QED
    BY <2>1
<1>8. CASE MeasureEnd
  BY <1>8, RewindStarts DEF MeasureEnd
<1>9. CASE \E ms \in SeekTargets : Seek(ms)
  <2>1. pc' = "ready" /\ op' = "seek" /\ stage' = "test" /\ ret' = "none"
    BY <1>9, RewindStarts DEF Seek, AtRest
  <2> QED
    BY <2>1
<1>10. CASE SongLength
  BY <1>10 DEF SongLength
<1>11. CASE MeasureReturn
  BY <1>11 DEF MeasureReturn
<1> QED
  BY <1>1, <1>2, <1>3, <1>4, <1>5, <1>6, <1>7, <1>8, <1>9, <1>10, <1>11 DEF PlayerNext, Operating

-----------------------------------------------------------------------------
LEMMA WalkKept ==
  ASSUME TypeInv, StageInv, WalkInv, [PlayerNext]_playerVars,
         [ret = "false" => ret' \in {"false", "none"}]_seqVars
  PROVE  WalkInv'
<1>1. PICK n \in Nat, k \in Nat : \E s : Walk(s, n, k)
  BY DEF WalkInv
<1>2. PICK s : Walk(s, n, k)
  BY <1>1
<1>3. k <= n /\ Path(s, n) /\ \A a \in lengths : Measured(s, n, a)
  BY <1>2 DEF Walk
<1>3a. /\ clock \in Nat /\ clock <= clock
       /\ After(clock) \in Nat /\ clock <= After(clock)
  BY AfterIsLater DEF StageInv
<1>4. ASSUME Now = s[k], Over(Now) PROVE k = n /\ ret = "false" /\ Over(s[n]) /\ clock = s[n].time
  <2>1. k = n
    BY <1>3, <1>4 DEF Path
  <2> QED
    BY <1>4, <2>1, NowFields DEF Over
<1>5. CASE FrontendRewind \/ MeasureRewind \/ \E ms \in SeekTargets : Seek(ms)
  <2>1. ModRewind /\ clock' = 0 /\ lengths' = lengths
        /\ (op' = "songlength" => stage' # "restore")
    BY <1>5 DEF FrontendRewind, MeasureRewind, Seek
  <2>2. Due' = "go"
    BY <1>5 DEF FrontendRewind, MeasureRewind, Seek, Due
  <2> QED
    BY <1>3, <2>1, <2>2, RewindStarts, WalkAnew
<1>6. CASE SongLength
  <2>1. song' = song /\ lengths' = lengths /\ op' = "songlength" /\ stage' = "rewind"
    BY <1>6 DEF SongLength, seqVars
  <2>2. Walk(s, n, k)'
    BY <1>3, <2>1, PathKept DEF Walk, Measuring
  <2> QED
    BY <2>2 DEF WalkInv
<1>7. CASE MeasureEnd
  <2>1. /\ ModRewind /\ lengths' = lengths /\ op' = "songlength" /\ stage' = "restore"
        /\ clock' = clock /\ op = "songlength" /\ stage = "test"
        /\ ret = "false" \/ clock >= Limit
    BY <1>7 DEF MeasureEnd
  <2>2. Now = s[k] /\ \A i \in 0 .. (k - 1) : ~Stop(s[i])
    BY <1>2, <2>1 DEF Walk, Measuring
  <2>3. Now.due = "due" /\ Now.ret = ret /\ Now.time = clock
    BY <2>1, RewindStarts, NowFields DEF Due
  <2>4. Measured(s, n, clock)
    BY <1>3, <2>1, <2>2, <2>3 DEF Measured, Stop, Over
  <2>5. Walk(s, n, k)'
    BY <1>3, <2>1, <2>4, PathKept, RewindStarts DEF Walk, Measuring
  <2> QED
    BY <2>5 DEF WalkInv
<1>8. CASE MeasureReturn
  <2>1. /\ UNCHANGED seqVars /\ op = "songlength" /\ stage = "restore" /\ op' = "none"
        /\ stage' = "idle" /\ clock' = 0 /\ lengths' = lengths \cup {clock}
    BY <1>8 DEF MeasureReturn
  <2>2. Measured(s, n, clock) /\ AtRest
    BY <1>2, <2>1 DEF Walk, StageInv
  <2>3. /\ UNCHANGED <<speed, tempo, del, ord, rw, songend, pc, ret>> /\ song' = song
    BY <2>1 DEF seqVars, position, ghosts
  <2>4. Now' = Point(<<initspeed, bpm, 0>>, <<0, 0, 0>>, "ready", <<>>, "none", Due', 0)
    BY <2>1, <2>2, <2>3, NowAfter DEF AtRest
  <2>5. Due' = "go"
    BY <2>1 DEF Due
  <2>6. Now' = AtStart
    BY <2>4, <2>5 DEF AtStart
  <2> QED
    BY <1>3, <2>1, <2>2, <2>3, <2>6, WalkAnew
<1>9. ASSUME lengths' = lengths, song' = song, op' # "songlength", ret' = "false",
             Over(s[n]), clock' = s[n].time
      PROVE  WalkInv'
  <2>1. Walk(s, n, k)'
    BY <1>3, <1>9, PathKept DEF Walk, Measuring
  <2> QED
    BY <2>1 DEF WalkInv
<1>10. ASSUME lengths' = lengths, song' = song, op' = op, Now' = Now, ret' = ret, clock' = clock,
              op = "songlength" => (Measuring /\ Measuring') \/ UNCHANGED stage
       PROVE  WalkInv'
  <2>1. Walk(s, n, k)'
    BY <1>2, <1>3, <1>10, PathKept DEF Walk, Measuring
  <2> QED
    BY <2>1 DEF WalkInv
<1>11. CASE UNCHANGED playerVars
  <2>1. UNCHANGED <<lengths, song, op, stage, ret, clock>>
    BY <1>11 DEF playerVars, opVars, modVars, seqVars, ghosts
  <2>2. Now' = Now
    BY <1>11 DEF playerVars, opVars, modVars, seqVars, ghosts, locals, position, Now, LiveLocals, Due
  <2> QED
    BY <1>10, <2>1, <2>2
<1>12. CASE FrontendTime \/ SeekAdd
  <2>1. /\ UNCHANGED modVars /\ lengths' = lengths /\ op' = op /\ op # "songlength"
        /\ ret = "true" /\ clock' = After(clock) /\ pc = "ready"
    BY <1>12 DEF FrontendTime, SeekAdd, StageInv
  <2>2. Due = "due" /\ Due' = "go"
    BY <1>12, <2>1 DEF FrontendTime, SeekAdd, Due
  <2>3. Now = s[k] /\ ~Over(Now)
    BY <1>2, <2>1, NowFields DEF Walk, Over
  <2>4. Now' = OneStep(Now)
    BY <2>1, <2>2, TimeSteps
  <2> QED
    BY <1>3, <1>3a, <2>1, <2>3, <2>4, WalkOn DEF modVars, seqVars
<1>13. CASE MeasureOn
  <2>1. /\ UNCHANGED modVars /\ lengths' = lengths /\ op' = op /\ op = "songlength"
        /\ ret = "true" /\ clock' = After(clock) /\ pc = "ready" /\ stage = "test" /\ stage' = "run"
        /\ clock < Limit
    BY <1>13 DEF MeasureOn, StageInv
  <2>2. Due = "due" /\ Due' = "go"
    BY <2>1 DEF Due
  <2>3. Now = s[k] /\ ~Over(Now) /\ (\A i \in 0 .. (k - 1) : ~Stop(s[i])) /\ Now.time = clock
    BY <1>2, <2>1, NowFields DEF Walk, Over, Measuring
  <2>4. Now' = OneStep(Now)
    BY <2>1, <2>2, TimeSteps
  <2>5. ~Stop(s[k])
    BY <2>1, <2>3, PlayerAssumption DEF Stop, StageInv
  <2>6. \A i \in 0 .. k : ~Stop(s[i])
    BY <2>3, <2>5
  <2> QED
    BY <1>3, <1>3a, <2>1, <2>3, <2>4, <2>6, WalkOn DEF modVars, seqVars
<1>14. CASE SeekOn
  <2>1. /\ UNCHANGED modVars /\ lengths' = lengths /\ op' = op /\ op = "seek" /\ clock' = clock
        /\ stage = "test" /\ stage' = "run"
    BY <1>14 DEF SeekOn
  <2>2. Due' = Due
    BY <2>1 DEF Due
  <2>3. Now' = Now /\ song' = song /\ ret' = ret
    BY <2>1, <2>2 DEF Now, modVars, seqVars, ghosts, locals, position, LiveLocals
  <2> QED
    BY <1>10, <2>1, <2>3
<1>15. CASE SeekReturn
  <2>1. /\ UNCHANGED modVars /\ lengths' = lengths /\ op' = "none" /\ op = "seek" /\ clock' = clock
        /\ stage' = "idle" /\ (stage = "test" \/ ret = "false")
    BY <1>15 DEF SeekReturn
  <2>2. song' = song /\ ret' = ret
    BY <2>1 DEF modVars, seqVars, ghosts
  <2>3. CASE ret = "false"
    <3>1. Over(s[n]) /\ clock = s[n].time
      BY <1>2, <1>4, <2>1, <2>3, NowFields DEF Walk, Over
    <3> QED
      BY <1>9, <2>1, <2>2, <2>3, <3>1
  <2>4. CASE ret # "false"
    <3>1. Now = s[k]
      BY <1>2, <2>1, <2>4 DEF Walk
    <3>2. Due' = Due
      BY <2>1, <2>4 DEF Due
    <3>3. Now' = Now
      BY <2>1, <3>2 DEF Now, modVars, seqVars, ghosts, locals, position, LiveLocals
    <3>4. Walk(s, n, k)'
      BY <1>3, <2>1, <2>2, <3>1, <3>3, PathKept DEF Walk, Measuring
    <3> QED
      BY <3>4 DEF WalkInv
  <2> QED
    BY <2>3, <2>4
<1>16. CASE FrontendUpdate \/ SeekUpdate
  <2>1. /\ ModUpdate /\ clock' = clock /\ lengths' = lengths /\ op' = op /\ op # "songlength"
    BY <1>16 DEF FrontendUpdate, SeekUpdate, CallUpdate
  <2>2. SeqUpdate /\ song' = song
    <3>1. SeqUpdate
      BY <2>1 DEF ModUpdate, ModTick, ModRow, ModControl, SeqUpdate
    <3> QED
      BY <3>1, SongKept DEF SeqNext
  <2>3. CASE ret = "false"
    <3>1. Over(s[n]) /\ clock = s[n].time
      BY <1>2, <1>4, <2>1, <2>3, NowFields DEF Walk, Over
    <3>2. ret' = "false"
      BY <2>2, <2>3, UpdateReportsOn
    <3> QED
      BY <1>9, <2>1, <2>2, <3>1, <3>2
  <2>4. CASE ret # "false"
    <3>1. Now = s[k] /\ ~Over(Now)
      BY <1>2, <2>1, <2>4, NowFields DEF Walk, Over
    <3>2. Due = "go" /\ Due' = (IF pc' = "ready" THEN "due" ELSE "go")
      BY <1>16, <2>1, <2>4 DEF FrontendUpdate, SeekUpdate, Due
    <3> QED
      BY <1>3, <1>3a, <2>1, <2>2, <3>1, <3>2, UpdateSteps, WalkOn
  <2> QED
    BY <2>3, <2>4
<1>17. CASE MeasureUpdate
  <2>1. /\ ModUpdate /\ clock' = clock /\ lengths' = lengths /\ op' = op /\ op = "songlength"
        /\ stage = "run" /\ stage' = IF pc' = "ready" THEN "test" ELSE "run"
    BY <1>17 DEF MeasureUpdate, CallUpdate
  <2>2. SeqUpdate /\ song' = song
    <3>1. SeqUpdate
      BY <2>1 DEF ModUpdate, ModTick, ModRow, ModControl, SeqUpdate
    <3> QED
      BY <3>1, SongKept DEF SeqNext
  <2>3. Due = "go" /\ Due' = (IF pc' = "ready" THEN "due" ELSE "go")
    BY <2>1 DEF Due
  <2>4. Now = s[k] /\ ~Over(Now) /\ (\A i \in 0 .. (k - 1) : ~Stop(s[i])) /\ Now.due = "go"
    BY <1>2, <2>1, <2>3, NowFields DEF Walk, Over, Measuring, StageInv
  <2>5. \A i \in 0 .. k : ~Stop(s[i])
    BY <2>4 DEF Stop
  <2>6. stage' # "restore"
    BY <2>1
  <2> QED
    BY <1>3, <1>3a, <2>1, <2>2, <2>3, <2>4, <2>5, <2>6, UpdateSteps, WalkOn
<1> QED
  BY <1>5, <1>6, <1>7, <1>8, <1>11, <1>12, <1>13, <1>14, <1>15, <1>16, <1>17
     DEF PlayerNext, Operating

THEOREM WalkInvHolds == PlayerSpec => [](StageInv /\ WalkInv)
<1>1. PlayerInit => StageInv /\ WalkInv
  <2> SUFFICES ASSUME PlayerInit PROVE StageInv /\ WalkInv
    OBVIOUS
  <2>1. /\ op = "none" /\ stage = "idle" /\ clock = 0 /\ goal = 0 /\ lengths = {} /\ pc = "ready" /\ ret = "none"
        /\ speed = initspeed /\ tempo = bpm /\ del = 0 /\ ord = 0 /\ rw = 0 /\ songend = 0
    BY DEF PlayerInit, ModInit, SeqInit
  <2>2. Now = AtStart
    BY <2>1 DEF Now, AtStart, LiveLocals, Due, position
  <2>3. PICK s : s[0] = AtStart
    <3>1. [i \in {0} |-> AtStart][0] = AtStart
      OBVIOUS
    <3> QED
      BY <3>1
  <2>4. PICK n \in Nat : n = 0
    OBVIOUS
  <2>5. \A i \in 0 .. (n - 1) : FALSE
    BY <2>4
  <2>6. Path(s, n)
    <3>1. s[0].time = 0
      BY <2>3 DEF AtStart, Point
    <3>2. Climbs(s, n)
      BY <2>4, <3>1 DEF Climbs
    <3> QED
      BY <2>3, <2>5, <3>2 DEF Path
  <2>7. Walk(s, n, n)
    BY <2>1, <2>2, <2>3, <2>4, <2>6 DEF Walk, Measuring
  <2> QED
    BY <2>1, <2>7 DEF StageInv, WalkInv, Forever
<1>2. /\ TypeInv /\ StageInv /\ WalkInv /\ [PlayerNext]_playerVars
      /\ [ret = "false" => ret' \in {"false", "none"}]_seqVars
      => StageInv' /\ WalkInv'
  BY StageKept, WalkKept
<1>3. PlayerSpec => [][ret = "false" => ret' \in {"false", "none"}]_seqVars
  BY PlayerImplementsSequencer, EndStays, PTL DEF EndIsSticky
<1> QED
  BY <1>1, <1>2, <1>3, PlayerImplementsSequencer, TypeInvHolds, PTL DEF PlayerSpec

(***************************************************************************)
(* songlength() returns the same time whenever it is called, and it is the *)
(* time a frontend counts until update() first returns false               *)
(* (LengthIsTheSongs): rewind() puts back whatever decides it.             *)
(***************************************************************************)
THEOREM LengthStays == PlayerSpec => []LengthIsTheSongs
<1>1. StageInv /\ WalkInv => LengthIsTheSongs
  <2> SUFFICES ASSUME WalkInv, NEW a \in lengths
               PROVE  /\ \A b \in lengths : a = b
                      /\ op = "none" /\ ret = "false" => clock = a \/ a >= Limit
    BY DEF LengthIsTheSongs
  <2>1. PICK n \in Nat, k \in Nat : \E s : Walk(s, n, k)
    BY DEF WalkInv
  <2>2. PICK s : Walk(s, n, k)
    BY <2>1
  <2>3. PICK m \in 0 .. n : Stop(s[m]) /\ s[m].time = a /\ \A i \in 0 .. (m - 1) : ~Stop(s[i])
    BY <2>2 DEF Walk, Measured
  <2>4. ASSUME NEW b \in lengths PROVE a = b
    <3>1. PICK j \in 0 .. n : Stop(s[j]) /\ s[j].time = b /\ \A i \in 0 .. (j - 1) : ~Stop(s[i])
      BY <2>2 DEF Walk, Measured
    <3>2. j \in 0 .. (m - 1) \/ m \in 0 .. (j - 1) \/ j = m
      OBVIOUS
    <3> QED
      BY <2>3, <3>1, <3>2
  <2>5. ASSUME op = "none", ret = "false" PROVE clock = a \/ a >= Limit
    <3>1. Over(s[n]) /\ clock = s[n].time
      <4>1. CASE Now = s[k]
        <5>1. Over(s[k]) /\ s[k].time = clock
          BY <2>5, <4>1, NowFields DEF Over
        <5>2. k = n
          BY <2>2, <5>1 DEF Walk, Path
        <5> QED
          BY <5>1, <5>2
      <4> QED
        BY <2>2, <2>5, <4>1 DEF Walk
    <3>2. Over(s[m]) => m = n
      BY <2>2 DEF Walk, Path
    <3> QED
      BY <2>3, <3>1, <3>2 DEF Stop
  <2> QED
    BY <2>4, <2>5
<1> QED
  BY <1>1, WalkInvHolds, PTL

(***************************************************************************)
(* seek() and songlength() agree on where the song ends (SeekMeetsLength): *)
(* both walk the path of the song, on which time only grows, and its last  *)
(* point is the only one where update() has returned false.                *)
(***************************************************************************)
THEOREM SeekMeets == PlayerSpec => SeekMeetsLength
<1>1. StageInv /\ WalkInv /\ [PlayerNext]_playerVars
      => [op = "seek" /\ op' = "none" =>
            \A a \in lengths : a < Limit => (ret = "false" <=> goal > a)]_playerVars
  <2> SUFFICES ASSUME StageInv, WalkInv, PlayerNext, op = "seek", op' = "none",
                      NEW a \in lengths, a < Limit
               PROVE  ret = "false" <=> goal > a
    OBVIOUS
  <2>1. SeekReturn
    BY DEF PlayerNext, Operating, FrontendTime, FrontendUpdate, FrontendRewind, SongLength, Seek,
           MeasureRewind, MeasureUpdate, MeasureOn, MeasureEnd, MeasureReturn, SeekOn,
           SeekUpdate, SeekAdd
  <2>2. PICK n \in Nat, k \in Nat : \E s : Walk(s, n, k)
    BY DEF WalkInv
  <2>3. PICK s : Walk(s, n, k)
    BY <2>2
  <2>4. /\ k \in 0 .. n /\ n \in 0 .. n /\ Climbs(s, n) /\ clock \in Nat /\ goal \in Nat
        /\ Now = s[k] \/ (ret = "false" /\ clock = s[n].time)
    BY <2>3 DEF Walk, Path, StageInv
  <2>5. a = s[n].time /\ a \in Nat
    <3>1. PICK m \in 0 .. n : Stop(s[m]) /\ s[m].time = a
      BY <2>3 DEF Walk, Measured
    <3>2. a \in Nat /\ Limit \in Nat
      BY <2>4, <3>1, PlayerAssumption DEF Climbs
    <3>3. Over(s[m])
      BY <3>1, <3>2 DEF Stop
    <3>4. m = n
      BY <2>3, <3>3 DEF Walk, Path
    <3> QED
      BY <3>1, <3>2, <3>4
  <2>6. CASE ret = "false"
    <3>1. clock < goal
      BY <2>1, <2>6 DEF SeekReturn, StageInv
    <3>2. clock = s[n].time
      <4>1. CASE Now = s[k]
        <5>1. Over(s[k]) /\ s[k].time = clock
          BY <2>6, <4>1, NowFields DEF Over
        <5>2. k = n
          BY <2>3, <5>1 DEF Walk, Path
        <5> QED
          BY <5>1, <5>2
      <4> QED
        BY <2>4, <4>1
    <3> QED
      BY <2>4, <2>5, <2>6, <3>1, <3>2
  <2>7. CASE ret # "false"
    <3>1. goal <= clock
      BY <2>1, <2>4, <2>7 DEF SeekReturn
    <3>2. s[k].time = clock
      BY <2>4, <2>7, NowFields
    <3>3. clock <= a
      BY <2>4, <2>5, <3>2 DEF Climbs
    <3> QED
      BY <2>4, <2>5, <2>7, <3>1, <3>3
  <2> QED
    BY <2>6, <2>7
<1> QED
  BY <1>1, WalkInvHolds, PTL DEF PlayerSpec, SeekMeetsLength
=============================================================================
