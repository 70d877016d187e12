------------------------- MODULE ModSequencerProofs -------------------------
(***************************************************************************)
(* Theorems about ModSequencer, for every set of songs the loaders leave,  *)
(* broken order lists among them.                                          *)
(***************************************************************************)
EXTENDS ModSequencer, TLAPS

-----------------------------------------------------------------------------
(* Type correctness holds whatever the order list says; that update() stays *)
(* inside the song's arrays is proved for closed songs.                    *)

BetweenRows == pc \in {"ready", "tick"} \/ (pc = "resolve" /\ back = "play")

BoundsInv ==
  Closed(song) =>
    /\ pc # "outside"
    /\ BetweenRows \/ pc = "chase" => ord < length
    /\ pc = "row" => pattnr < npats

TypeInv == song \in Songs /\ TypeOK /\ BoundsInv

(* What the loaders guarantee of the song that is playing.                 *)
LEMMA SongFacts ==
  ASSUME song \in Songs
  PROVE  /\ length \in Nat /\ norders \in Nat /\ length <= norders /\ restartpos \in Nat
         /\ npats \in Nat /\ nrows \in Nat /\ nrows > 0
         /\ nchans \in Nat /\ nchans > 0
         /\ initspeed \in Byte /\ bpm \in Word
         /\ order \in [0 .. (norders - 1) -> Byte]
<1>1. WellFormed(song)
  BY SongsAssumption
<1>2. /\ length \in 0 .. 256 /\ norders \in Nat /\ norders >= length /\ restartpos \in Nat
      /\ npats \in Nat /\ nrows \in Nat \ {0} /\ nchans \in 1 .. 255
      /\ initspeed \in Byte /\ bpm \in Word
      /\ order \in [0 .. (norders - 1) -> Byte]
  BY <1>1 DEF WellFormed, length, norders, restartpos, order, npats, nrows, nchans,
              initspeed, bpm
<1> QED BY <1>2

(* An entry of the order list is a byte, and a marker's target a position. *)
LEMMA OrderFacts ==
  ASSUME song \in Songs, NEW i \in Nat, i < norders
  PROVE  /\ order[i] \in Byte
         /\ order[i] >= JumpMarker => order[i] - JumpMarker \in Nat
<1>1. i \in 0 .. (norders - 1)
  BY SongFacts
<1>2. order[i] \in Byte
  BY <1>1, SongFacts
<1> QED BY <1>2 DEF JumpMarker, Byte

(* What closes a song's order list.                                        *)
LEMMA ClosedFacts ==
  ASSUME song \in Songs, Closed(song)
  PROVE  /\ JumpsInside(song) /\ restartpos < length
         /\ \A i \in Nat : i < length /\ order[i] < JumpMarker => order[i] < npats
<1>1. /\ JumpsInside(song) /\ restartpos < length
      /\ \A i \in 0 .. (length - 1) : order[i] < JumpMarker => order[i] < npats
  BY DEF Closed, restartpos, length, order, npats
<1>2. \A i \in Nat : i < length => i \in 0 .. (length - 1)
  BY SongFacts
<1> QED BY <1>1, <1>2

LEMMA JumpFacts ==
  ASSUME song \in Songs, JumpsInside(song), NEW i \in Nat, i < length, order[i] >= JumpMarker
  PROVE  order[i] - JumpMarker < length
<1>1. \A k \in 0 .. (length - 1) : order[k] >= JumpMarker => order[k] - JumpMarker < length
  BY DEF JumpsInside, length, order
<1>2. i \in 0 .. (length - 1)
  BY SongFacts
<1> QED BY <1>1, <1>2

(* The parameters of the cell being played make one unsigned char.         *)
LEMMA InfoIsByte ==
  ASSUME TypeInv, AtRow, ~Skipped
  PROVE  Info \in Byte /\ Cell.param2 \in Byte
<1>1. pattnr \in 0 .. (npats - 1) /\ chan \in 0 .. (nchans - 1)
  <2>1. pattnr < npats /\ chan < nchans
    BY DEF AtRow, Stray, Skipped
  <2> QED BY <2>1, SongFacts DEF TypeInv, TypeOK, Byte
<1>2. WellFormed(song)
  BY SongsAssumption DEF TypeInv
<1>3. /\ trackord \in [0 .. (npats - 1) -> [0 .. (nchans - 1) -> 0 .. Len(tracks)]]
      /\ tracks \in Seq([0 .. (nrows - 1) -> Cells])
  BY <1>2 DEF WellFormed, trackord, tracks, npats, nchans, nrows
<1>4. Track \in 1 .. Len(tracks)
  <2>1. trackord[pattnr][chan] \in 0 .. Len(tracks)
    BY <1>1, <1>3
  <2> QED BY <2>1, <1>3 DEF Skipped, Track
<1>5. tracks[Track] \in [0 .. (nrows - 1) -> Cells]
  BY <1>3, <1>4
<1>6. row \in 0 .. (nrows - 1)
  BY DEF TypeInv, TypeOK
<1>7. Cell \in Cells
  BY <1>5, <1>6 DEF Cell
<1>8. Cell.param1 \in Byte /\ Cell.param2 \in Byte
  BY <1>7 DEF Cells
<1>9. InfoOf(Cell.param1, Cell.param2) \in Byte
  <2> DEFINE p == Cell.param1
             q == Cell.param2
  <2>1. p \in Nat /\ q \in Nat
    BY <1>8 DEF Byte
  <2> HIDE DEF p, q
  <2>2. p * 10 + q \in Nat /\ p * 16 + q \in Nat
    BY <2>1
  <2>3. (p * 10 + q) % 256 \in Byte /\ (p * 16 + q) % 256 \in Byte
    BY <2>2 DEF Byte
  <2>4. InfoOf(p, q) \in Byte
    BY <2>3 DEF InfoOf
  <2> QED BY <2>4 DEF p, q
<1> QED BY <1>8, <1>9 DEF Info

(* The constants the commands assign to unsigned chars.                    *)
LEMMA ByteFacts ==
  /\ 0 \in Byte /\ 1 \in Byte
  /\ \A b \in Byte : b \in Nat /\ b \in Word /\ (b > 0 => b - 1 \in Byte)
  /\ \A i \in Int : i % 256 \in Byte
<1>1. 0 \in Byte /\ 1 \in Byte
  BY DEF Byte
<1>2. \A b \in Byte : b \in Nat /\ b \in Word
  BY SMTT(30) DEF Byte, Word
<1>3. \A b \in Byte : b > 0 => b - 1 \in Byte
  BY DEF Byte
<1>4. \A i \in Int : i % 256 \in Byte
  BY DEF Byte
<1> QED BY <1>1, <1>2, <1>3, <1>4

(* No step changes the song.                                               *)
LEMMA SongKept ==
  ASSUME [SeqNext]_seqVars
  PROVE  /\ song' = song
         /\ UNCHANGED <<length, norders, restartpos, order, npats, nrows, nchans, initspeed, bpm>>
<1>1. song' = song
  BY DEF SeqNext, SeqUpdate, seqVars, SeqRewind, FullStop, BeginUpdate, TickChannel,
     Wait, NextRowDue, Resolve, WrapAround, StrayOrder, OrderFound, SelfJump, FollowJump,
     StrayRow, Advance, RowChannel, PositionJump, PatternBreak, PatternDelayRows, PatternDelayFrames,
     SetTempo, SA2Speed, AMDSpeed, RADSpeed, PlainCell, NextChannel
<1> QED BY <1>1 DEF length, norders, restartpos, order, npats, nrows, nchans, initspeed, bpm

(* The engine's variables keep the ranges of their types.  In a closed     *)
(* song the position that the second resolve_order() of a row leaves is in *)
(* the list, and the pattern of a row exists.                              *)
THEOREM TypeInvHolds == SeqSpec => []TypeInv
<1>1. SeqInit => TypeInv
  <2> SUFFICES ASSUME SeqInit PROVE TypeInv
    OBVIOUS
  <2>1. /\ song \in Songs /\ nrows \in Nat /\ nrows > 0 /\ nchans \in Nat
        /\ initspeed \in Byte /\ bpm \in Word /\ 0 \in Byte
        /\ Closed(song) => 0 < length
    BY SongFacts, ByteFacts, ClosedFacts DEF SeqInit
  <2> QED BY <2>1 DEF SeqInit, TypeInv, TypeOK, BoundsInv, BetweenRows
<1>2. TypeInv /\ [SeqNext]_seqVars => TypeInv'
  <2> SUFFICES ASSUME TypeInv, [SeqNext]_seqVars PROVE TypeInv'
    OBVIOUS
  <2>a. /\ song' = song /\ song \in Songs
        /\ UNCHANGED <<length, norders, restartpos, order, npats, nrows, nchans, initspeed, bpm>>
    BY SongKept DEF TypeInv
  <2>b. /\ length \in Nat /\ norders \in Nat /\ length <= norders /\ restartpos \in Nat
        /\ Closed(song) => 0 < length /\ restartpos < length
        /\ npats \in Nat /\ nrows \in Nat /\ nrows > 0 /\ nchans \in Nat /\ nchans > 0
        /\ initspeed \in Byte /\ bpm \in Word /\ 0 \in Byte
    BY <2>a, SongFacts, ClosedFacts, ByteFacts
  <2> USE <2>a, <2>b DEF TypeInv, TypeOK, BoundsInv, BetweenRows
  <2>1. CASE SeqRewind
    BY <2>1 DEF SeqRewind, Rewound, locals
  <2>2. CASE FullStop
    BY <2>2 DEF FullStop, Return, position, locals
  <2>3. CASE BeginUpdate
    BY <2>3 DEF BeginUpdate, position, ghosts
  <2>4. CASE TickChannel
    BY <2>4 DEF TickChannel, position, ghosts
  <2>5. CASE Wait
    BY <2>5, ByteFacts DEF Wait, Return, position, locals
  <2>6. CASE NextRowDue
    BY <2>6 DEF NextRowDue, position, ghosts
  <2>7. CASE WrapAround
    <3>1. restartpos < norders => order[restartpos] \in Byte
      BY OrderFacts
    <3>2. Closed(song) => back # "play"
      BY <2>7 DEF WrapAround
    <3> QED BY <2>7, <3>1, <3>2 DEF WrapAround, Resolved, PlayRow, ReadsOutside, Return,
                                   locals, ghosts
  <2>8. CASE OrderFound
    <3>1. order[ord] \in Byte /\ order[ord] < JumpMarker
      BY <2>8, OrderFacts DEF OrderFound, AtOrder
    <3>2. Closed(song) => ord < length
      BY <2>8 DEF OrderFound, AtOrder, LooksUp
    <3>3. Closed(song) => order[ord] < npats
      BY <3>1, <3>2, ClosedFacts
    <3> QED BY <2>8, <3>1, <3>2, <3>3
            DEF OrderFound, AtOrder, LooksUp, Resolved, PlayRow, Return, position, locals
  <2>9. CASE SelfJump
    BY <2>9 DEF SelfJump, AtMarker, AtOrder, LooksUp, Neword, Resolved, Return, locals
  <2>10. CASE FollowJump
    <3>1. Neword \in Nat
      BY <2>10, OrderFacts DEF FollowJump, AtMarker, AtOrder, Neword
    <3>2. Closed(song) => Neword < length
      BY <2>10, JumpFacts, ClosedFacts DEF FollowJump, AtMarker, AtOrder, LooksUp, Neword
    <3> QED BY <2>10, <3>1, <3>2 DEF FollowJump, locals, ghosts
  <2>14. CASE StrayOrder
    <3>1. ~Closed(song)
      BY <2>14 DEF StrayOrder, LooksUp
    <3> QED BY <2>14, <3>1 DEF StrayOrder, ReadsOutside, position, locals, ghosts
  <2>15. CASE StrayRow
    <3>1. ~Closed(song)
      BY <2>15 DEF StrayRow, Stray
    <3> QED BY <2>15, <3>1 DEF StrayRow, ReadsOutside, position, locals, ghosts
  <2>11. CASE RowChannel
    <3>0. /\ \A fx : Command(fx) => Info \in Byte /\ Info \in Nat /\ Info \in Word
          /\ \A i \in Int : i % 256 \in Byte
          /\ 1 \in Byte
      BY InfoIsByte, ByteFacts DEF Command
    <3>1. CASE PositionJump
      BY <3>1, <3>0 DEF PositionJump, Command, AtRow, NextChannel, ghosts
    <3>2. CASE PatternBreak
      BY <3>2, <3>0 DEF PatternBreak, Command, AtRow, NextChannel, ghosts
    <3>3. CASE PatternDelayRows
      <4>1. (Cell.param2 * speed) % 256 \in Byte
        <5>1. Cell.param2 \in Nat /\ speed \in Nat
          BY <3>3, InfoIsByte, ByteFacts DEF PatternDelayRows, Command
        <5> QED BY <5>1, ByteFacts
      <4> QED BY <3>3, <4>1 DEF PatternDelayRows, Command, AtRow, NextChannel, ghosts, position
    <3>4. CASE PatternDelayFrames
      BY <3>4, <3>0 DEF PatternDelayFrames, Command, AtRow, NextChannel, ghosts, position
    <3>5. CASE SetTempo
      BY <3>5, <3>0 DEF SetTempo, Command, AtRow, NextChannel, ghosts, position
    <3>6. CASE SA2Speed
      BY <3>6, <3>0 DEF SA2Speed, Command, AtRow, NextChannel, ghosts
    <3>7. CASE AMDSpeed
      BY <3>7, <3>0 DEF AMDSpeed, Command, AtRow, NextChannel, ghosts, position
    <3>8. CASE RADSpeed
      BY <3>8, <3>0 DEF RADSpeed, Command, AtRow, NextChannel, ghosts, position
    <3>9. CASE PlainCell
      BY <3>9 DEF PlainCell, AtRow, NextChannel, ghosts, position
    <3> QED BY <2>11, <3>1, <3>2, <3>3, <3>4, <3>5, <3>6, <3>7, <3>8, <3>9 DEF RowChannel
  <2>12. CASE Advance
    <3>1. speed \in Nat /\ pattern_delay \in Nat
      BY ByteFacts
    <3>2. (speed - 1 + pattern_delay) % 256 \in Byte
      BY <3>1, ByteFacts
    <3> QED BY <2>12, <3>2 DEF Advance, NextPosition, ghosts
  <2>13. CASE UNCHANGED seqVars
    BY <2>13 DEF seqVars, position, locals, ghosts
  <2> QED
    BY <2>1, <2>2, <2>3, <2>4, <2>5, <2>6, <2>7, <2>8, <2>9, <2>10, <2>11, <2>12, <2>13,
       <2>14, <2>15
    DEF SeqNext, SeqUpdate, Resolve
<1> QED BY <1>1, <1>2, PTL DEF SeqSpec

(***************************************************************************)
(* update() never reads outside a closed song (InBounds): not even through *)
(* a jump marker that a wrap to restartpos leaves unresolved.              *)
(***************************************************************************)
THEOREM BoundsSafe == SeqSpec => []InBounds
<1>1. TypeInv => InBounds
  BY DEF TypeInv, BoundsInv, InBounds
<1> QED BY <1>1, TypeInvHolds, PTL

-----------------------------------------------------------------------------
(***************************************************************************)
(* The end of the song.  Until it is recorded, the positions played lie    *)
(* before the next one in the order of play; once it is recorded, it is    *)
(* reported before another row starts.                                     *)
(***************************************************************************)

Before(p) == p[1] < ord \/ (p[1] = ord /\ p[2] < rw)

PastInv ==
  songend = 0 =>
    \A p \in played :
      Before(p) \/ (pc \in {"row", "outside"} /\ pattbreak = 0 /\ p = <<ord, rw>>)

ReportInv ==
  /\ ret = "false" => songend = 1 \/ (pc = "ready" /\ speed = 0)
  /\ BetweenRows /\ played # {} /\ ret # "false" =>
       /\ songend = 0 /\ (ord < norders => order[ord] < JumpMarker)
       /\ JumpsInside(song) => ord < length
  /\ JumpsInside(song) /\ pc = "chase" => ord < length
  /\ pc = "chase" /\ back = "play" => played = {} \/ ret = "false"
  /\ pc = "tick" \/ (pc \in {"resolve", "chase"} /\ back = "play") => pattbreak = 0

EndInv == StopIsAnEnd /\ PastInv /\ ReportInv

(* What links the recorded end, the positions played and the reports.      *)
THEOREM EndInvHolds == SeqSpec => []EndInv
<1>1. SeqInit => EndInv
  BY DEF SeqInit, EndInv, StopIsAnEnd, PastInv, ReportInv, BetweenRows
<1>2. TypeInv /\ EndInv /\ [SeqNext]_seqVars => EndInv'
  <2> SUFFICES ASSUME TypeInv, EndInv, [SeqNext]_seqVars PROVE EndInv'
    OBVIOUS
  <2>a. /\ song' = song /\ song \in Songs
        /\ UNCHANGED <<length, norders, restartpos, order, npats, nrows, nchans, initspeed, bpm>>
    BY SongKept DEF TypeInv
  <2>b. /\ length \in Nat /\ norders \in Nat /\ length <= norders /\ nrows \in Nat /\ nrows > 0
        /\ ord \in Nat /\ rw \in Nat /\ songend \in {0, 1} /\ pattbreak \in {0, 1}
        /\ speed \in Nat /\ pattern_delay \in Nat
        /\ \A p \in played : p[1] \in Nat /\ p[2] \in Nat /\ p = <<p[1], p[2]>>
    BY <2>a, SongFacts, ByteFacts DEF TypeInv, TypeOK
  <2> USE <2>a, <2>b DEF EndInv
  <2>1. CASE SeqRewind
    BY <2>1 DEF SeqRewind, Rewound, locals, StopIsAnEnd, PastInv, ReportInv
  <2>2. CASE FullStop
    BY <2>2 DEF FullStop, Return, position, locals, StopIsAnEnd, PastInv, ReportInv, Before
  <2>3. CASE BeginUpdate
    BY <2>3 DEF BeginUpdate, position, ghosts, StopIsAnEnd, PastInv, ReportInv, Before, BetweenRows
  <2>4. CASE TickChannel
    BY <2>4 DEF TickChannel, position, ghosts, StopIsAnEnd, PastInv, ReportInv, Before, BetweenRows
  <2>5. CASE Wait
    BY <2>5 DEF Wait, Return, position, locals, StopIsAnEnd, PastInv, ReportInv, Before, BetweenRows
  <2>6. CASE NextRowDue
    BY <2>6 DEF NextRowDue, position, ghosts, StopIsAnEnd, PastInv, ReportInv, Before, BetweenRows
  <2>7. CASE WrapAround
    <3>1. songend' = 1 /\ pc' \in {"row", "outside", "ready"}
      BY <2>7 DEF WrapAround, Resolved, PlayRow, ReadsOutside, Return
    <3>2. pc' = "ready" => ret' = "false"
      BY <2>7 DEF WrapAround, Resolved, PlayRow, ReadsOutside, Return
    <3>3. UNCHANGED speed
      BY <2>7 DEF WrapAround
    <3> QED BY <3>1, <3>2, <3>3 DEF StopIsAnEnd, PastInv, ReportInv, BetweenRows
  <2>8. CASE OrderFound
    <3>1. JumpsInside(song) => ord < length
      BY <2>8 DEF OrderFound, AtOrder, LooksUp, ReportInv
    <3> QED BY <2>8, <3>1
            DEF OrderFound, AtOrder, LooksUp, Resolved, PlayRow, Return, position, locals,
                StopIsAnEnd, PastInv, ReportInv, Before, BetweenRows
  <2>9. CASE SelfJump
    BY <2>9 DEF SelfJump, Resolved, Return, locals, StopIsAnEnd, PastInv, ReportInv
  <2>10. CASE FollowJump
    <3>1. Neword \in Nat /\ order[ord] \in Nat /\ JumpMarker \in Nat /\ order[ord] >= JumpMarker
      BY <2>10, OrderFacts, ByteFacts DEF FollowJump, AtMarker, AtOrder, Neword, JumpMarker
    <3>2. ~(order[ord] < JumpMarker)
      BY <3>1
    <3>3. JumpsInside(song) => Neword < length
      BY <2>10, <3>1, JumpFacts DEF FollowJump, AtMarker, AtOrder, LooksUp, Neword, ReportInv
    <3> QED
      BY <2>10, <3>1, <3>2, <3>3
      DEF FollowJump, AtMarker, AtOrder, LooksUp, locals, ghosts, StopIsAnEnd, PastInv,
          ReportInv, Before, BetweenRows
  <2>14. CASE StrayOrder \/ StrayRow
    <3>1. /\ pc' = "outside" /\ UNCHANGED <<speed, ord, rw, songend, played, ret>>
          /\ UNCHANGED pattbreak /\ pc # "ready"
      BY <2>14 DEF StrayOrder, StrayRow, LooksUp, ReadsOutside, ghosts, position, locals
    <3>2. PastInv'
      BY <2>14, <3>1 DEF PastInv, Before, StrayOrder, StrayRow, LooksUp
    <3> QED BY <3>1, <3>2 DEF StopIsAnEnd, ReportInv, BetweenRows
  <2>11. CASE RowChannel
    <3>0. \A fx : Command(fx) => Info \in Nat
      BY InfoIsByte, ByteFacts DEF Command, AtRow
    <3> USE <3>0 DEF Command, AtRow, NextChannel, ghosts, position, StopIsAnEnd, PastInv,
                     ReportInv, Before, BetweenRows
    <3>1. CASE PositionJump
      BY <3>1 DEF PositionJump, JumpsBack
    <3>2. CASE PatternBreak
      BY <3>2 DEF PatternBreak
    <3>3. CASE PatternDelayRows
      BY <3>3 DEF PatternDelayRows
    <3>4. CASE PatternDelayFrames
      BY <3>4 DEF PatternDelayFrames
    <3>5. CASE SetTempo
      BY <3>5 DEF SetTempo
    <3>6. CASE SA2Speed
      BY <3>6 DEF SA2Speed
    <3>7. CASE AMDSpeed
      BY <3>7 DEF AMDSpeed
    <3>8. CASE RADSpeed
      BY <3>8 DEF RADSpeed
    <3>9. CASE PlainCell
      BY <3>9 DEF PlainCell
    <3> QED BY <2>11, <3>1, <3>2, <3>3, <3>4, <3>5, <3>6, <3>7, <3>8, <3>9 DEF RowChannel
  <2>12. CASE Advance
    BY <2>12 DEF Advance, NextPosition, ghosts, StopIsAnEnd, PastInv, ReportInv, Before, BetweenRows
  <2>13. CASE UNCHANGED seqVars
    BY <2>13 DEF seqVars, position, locals, ghosts, StopIsAnEnd, PastInv, ReportInv,
                 Before, BetweenRows
  <2> QED
    BY <2>1, <2>2, <2>3, <2>4, <2>5, <2>6, <2>7, <2>8, <2>9, <2>10, <2>11, <2>12, <2>13,
       <2>14
    DEF SeqNext, SeqUpdate, Resolve
<1> QED BY <1>1, <1>2, TypeInvHolds, PTL DEF SeqSpec

(***************************************************************************)
(* A full stop is always recorded as the song's end (StopIsAnEnd).         *)
(***************************************************************************)
THEOREM StopRecorded == SeqSpec => []StopIsAnEnd
<1>1. EndInv => StopIsAnEnd
  BY DEF EndInv
<1> QED BY <1>1, EndInvHolds, PTL

(***************************************************************************)
(* update() never takes back that the song is over (EndIsSticky).          *)
(***************************************************************************)
THEOREM EndStays == SeqSpec => EndIsSticky
<1>1. TypeInv /\ EndInv /\ [SeqNext]_seqVars => [ret = "false" => ret' \in {"false", "none"}]_seqVars
  <2> SUFFICES ASSUME TypeInv, EndInv, SeqNext, ret = "false" PROVE ret' \in {"false", "none"}
    OBVIOUS
  <2>1. songend = 1 \/ (pc = "ready" /\ speed = 0)
    BY DEF EndInv, ReportInv
  <2>2. CASE SeqRewind
    BY <2>2 DEF SeqRewind, Rewound
  <2>3. CASE FullStop \/ Wait
    BY <2>3, <2>1 DEF FullStop, Wait, Return
  <2>4. CASE BeginUpdate \/ TickChannel \/ NextRowDue \/ Advance \/ StrayRow
    BY <2>4 DEF BeginUpdate, TickChannel, NextRowDue, Advance, StrayRow, ReadsOutside, ghosts
  <2>5. CASE RowChannel
    BY <2>5 DEF RowChannel, PositionJump, PatternBreak, PatternDelayRows, PatternDelayFrames,
                SetTempo, SA2Speed, AMDSpeed, RADSpeed, PlainCell, NextChannel, ghosts
  <2>6. CASE Resolve
    <3>1. pc # "ready" /\ songend = 1
      BY <2>6, <2>1 DEF Resolve, WrapAround, StrayOrder, OrderFound, SelfJump, FollowJump,
                        AtMarker, AtOrder, LooksUp
    <3>2. ret' = ret \/ songend' = 1
      BY <2>6, <3>1 DEF Resolve, WrapAround, StrayOrder, OrderFound, SelfJump, FollowJump,
                        ReadsOutside, position, ghosts
    <3>3. ret' \in {ret, IF songend' = 0 THEN "true" ELSE "false"}
      BY <2>6 DEF Resolve, WrapAround, StrayOrder, OrderFound, SelfJump, FollowJump, Resolved,
                  PlayRow, ReadsOutside, Return, ghosts
    <3> QED BY <3>2, <3>3
  <2> QED BY <2>2, <2>3, <2>4, <2>5, <2>6 DEF SeqNext, SeqUpdate
<1> QED BY <1>1, TypeInvHolds, EndInvHolds, PTL DEF SeqSpec, EndIsSticky

(***************************************************************************)
(* No row starts a second time before update() has reported the end of the *)
(* song (NoReplayBeforeReport), whatever its patterns, its restart position*)
(* and its commands, if its jump markers stay inside it.                   *)
(***************************************************************************)
THEOREM NoReplay == SeqSpec => NoReplayBeforeReport
<1>1. TypeInv /\ EndInv /\ [SeqNext]_seqVars =>
        [StartsRow /\ <<ord', rw>> \in played /\ JumpsInside(song) => ret = "false"]_seqVars
  <2> SUFFICES ASSUME TypeInv, EndInv, SeqNext, StartsRow, <<ord', rw>> \in played,
                      JumpsInside(song), ret # "false"
               PROVE  FALSE
    OBVIOUS
  <2>1. WrapAround \/ OrderFound
    BY DEF SeqNext, SeqUpdate, StartsRow, SeqRewind, FullStop, BeginUpdate, TickChannel, Wait,
       NextRowDue, Resolve, StrayOrder, SelfJump, FollowJump, StrayRow, Advance, RowChannel,
       PositionJump, PatternBreak, PatternDelayRows, PatternDelayFrames, SetTempo, SA2Speed, AMDSpeed,
       RADSpeed, PlainCell, NextChannel, Resolved, ReadsOutside, Return
  <2>2. back = "play"
    BY <2>1 DEF WrapAround, OrderFound, Resolved, ReadsOutside, Return, StartsRow
  <2>3. pc = "resolve"
    BY <2>1, <2>2 DEF WrapAround, OrderFound, AtOrder, LooksUp, EndInv, ReportInv
  <2>4. ord < length /\ songend = 0
    BY <2>2, <2>3 DEF TypeInv, BoundsInv, EndInv, ReportInv, BetweenRows
  <2>5. ord' = ord
    <3>1. length \in Nat
      BY SongFacts DEF TypeInv
    <3>2. ord \in Nat
      BY DEF TypeInv, TypeOK
    <3>3. ~(ord >= length)
      BY <2>4, <3>1, <3>2
    <3>4. ~WrapAround
      BY <3>3 DEF WrapAround
    <3> QED BY <2>1, <3>4 DEF OrderFound, position
  <2>6. Before(<<ord, rw>>)
    BY <2>3, <2>4, <2>5 DEF EndInv, PastInv
  <2> QED BY <2>6 DEF Before, TypeInv, TypeOK
<1> QED BY <1>1, TypeInvHolds, EndInvHolds, PTL DEF SeqSpec, NoReplayBeforeReport
=============================================================================
