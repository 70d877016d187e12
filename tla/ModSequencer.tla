---------------------------- MODULE ModSequencer ----------------------------
(***************************************************************************)
(* The sequencer of CmodPlayer (protrack.cpp), the Protracker engine that  *)
(* the sa2, a2m, amd, adtrack, cff, dfm, dtm, fmc, mad and mtr loaders     *)
(* share: which row of which pattern is played at which tick, and when the *)
(* player reports that the song is over.                                   *)
(*                                                                         *)
(* One call of update() is a run of steps from pc = "ready" back to        *)
(* "ready": a "tick" step per channel (timer dependent effects), then the  *)
(* tick counter, then resolve_order(), then a "row" step per channel (row  *)
(* dependent commands), the advance to the next row and resolve_order()    *)
(* again.  What the effects do to the channels is left to ModPlayer, which *)
(* conjoins its own actions to the ones below.                             *)
(***************************************************************************)
EXTENDS Integers, Sequences

CONSTANT Songs          \* the loaded modules the player may be handed

Byte == 0 .. 255        \* unsigned char
Word == 0 .. 65535      \* unsigned short
JumpMarker == 128       \* JUMPMARKER: order entries from here on are jumps

(***************************************************************************)
(* One row of one track, and a song as the loaders leave it in the player. *)
(* `tracks' holds the tracks in order, so that trackord's entry t > 0      *)
(* selects tracks[t] and 0 selects none.  `active' is activechan as a set, *)
(* `norders' the size of the array realloc_order() made: `length' entries  *)
(* belong to the song, the others hold whatever the loader put there.  No  *)
(* more is asked of the entries: amd, cff, dfm, fmc, mad and mtr files may *)
(* name positions and patterns that do not exist.                          *)
(***************************************************************************)
Cells == [note : Byte, inst : Byte, command : Byte, param1 : Byte, param2 : Byte]

Flags == {"Decimal", "Faust", "NoKeyOn", "Opl3", "Tremolo", "Vibrato"}

WellFormed(s) ==
  /\ s.length \in 0 .. 256 /\ s.norders \in Nat /\ s.norders >= s.length
  /\ s.restartpos \in Nat
  /\ s.npats \in Nat /\ s.nrows \in Nat \ {0} /\ s.nchans \in 1 .. 255
  /\ s.initspeed \in Byte /\ s.bpm \in Word
  /\ s.flags \subseteq Flags /\ s.active \subseteq 0 .. (s.nchans - 1)
  /\ s.order \in [0 .. (s.norders - 1) -> Byte]
  /\ s.tracks \in Seq([0 .. (s.nrows - 1) -> Cells])
  /\ s.trackord \in [0 .. (s.npats - 1) -> [0 .. (s.nchans - 1) -> 0 .. Len(s.tracks)]]

ASSUME SongsAssumption == \A s \in Songs : WellFormed(s)

(* What the a2m, adtrack, dtm and sa2 loaders make sure of, and the others *)
(* do not: jump markers, the restart position and the patterns of the      *)
(* order list stay inside the song.                                        *)
JumpsInside(s) ==
  \A i \in 0 .. (s.length - 1) :
    s.order[i] >= JumpMarker => s.order[i] - JumpMarker < s.length

Closed(s) ==
  /\ JumpsInside(s) /\ s.restartpos < s.length
  /\ \A i \in 0 .. (s.length - 1) : s.order[i] < JumpMarker => s.order[i] < s.npats

VARIABLES
  song,       \* the module being played
  speed,      \* ticks per row
  tempo,      \* timer setting, see getrefresh()
  del,        \* ticks left before the next row
  ord, rw,    \* order list position and row that come next
  songend,    \* the song has ended or looped
  pc,         \* where the running update() is, "ready" when none runs, and
              \* "outside" once it has read beyond the song's arrays
  back,       \* which of its two calls of resolve_order() is running
  chan,       \* channel index of the running loop
  pattnr, row,  \* pattern and row being played (locals of update())
  pattbreak,  \* a command already chose the next row (local of update())
  pattern_delay,  \* extra ticks for this row (local of update())
  ret,        \* ghost: what update() returned last since the last rewind
  played      \* ghost: the <<ord, rw>> played since the last rewind

position == <<ord, rw, songend>>
locals == <<back, chan, pattnr, row, pattbreak, pattern_delay>>
ghosts == <<ret, played>>
seqVars == <<song, speed, tempo, del, position, pc, locals, ghosts>>

(* The members of the player that load() has set, by their own names.      *)
length == song.length
norders == song.norders
restartpos == song.restartpos
order == song.order
npats == song.npats
nrows == song.nrows
nchans == song.nchans
active == song.active
tracks == song.tracks
trackord == song.trackord
initspeed == song.initspeed
bpm == song.bpm
flags == song.flags

-----------------------------------------------------------------------------
(* rewind(): the playing variables go back to the song's initial settings. *)

RewoundAtOldTempo ==     \* faulty variant: the last tempo stays
  /\ songend' = 0 /\ del' = 0 /\ ord' = 0 /\ rw' = 0
  /\ tempo' = tempo /\ speed' = initspeed
  /\ ret' = "none" /\ played' = {}

Rewound ==
  /\ songend' = 0 /\ del' = 0 /\ ord' = 0 /\ rw' = 0
  /\ tempo' = bpm /\ speed' = initspeed
  /\ ret' = "none" /\ played' = {}

SeqRewind == pc = "ready" /\ Rewound /\ UNCHANGED <<song, pc, locals>>

SeqInit ==
  /\ song \in Songs
  /\ songend = 0 /\ del = 0 /\ ord = 0 /\ rw = 0
  /\ tempo = bpm /\ speed = initspeed
  /\ pc = "ready" /\ back = "done" /\ chan = 0 /\ pattnr = 0 /\ row = 0
  /\ pattbreak = 0 /\ pattern_delay = 0
  /\ ret = "none" /\ played = {}

(* update() returns: the caller learns whether the song goes on.           *)
Return(result) == pc' = "ready" /\ ret' = IF result THEN "true" ELSE "false"

(* update() reads beyond what is allocated.  What it does from there on is *)
(* undefined; the model ends.                                              *)
ReadsOutside == pc' = "outside" /\ UNCHANGED <<locals, ghosts>>

-----------------------------------------------------------------------------
(* The start of update(), its tick loop and its speed compensation.        *)

FullStop ==
  /\ pc = "ready" /\ speed = 0
  /\ Return(FALSE)
  /\ UNCHANGED <<song, speed, tempo, del, position, locals, played>>

BeginUpdate ==
  /\ pc = "ready" /\ speed # 0
  /\ pc' = "tick" /\ chan' = 0 /\ pattbreak' = 0
  /\ UNCHANGED <<song, speed, tempo, del, position, back, pattnr, row,
                 pattern_delay, ghosts>>

TickChannel ==
  /\ pc = "tick" /\ chan < nchans
  /\ chan' = chan + 1
  /\ UNCHANGED <<song, speed, tempo, del, position, pc, back, pattnr, row,
                 pattbreak, pattern_delay, ghosts>>

Wait ==
  /\ pc = "tick" /\ chan = nchans /\ del > 0
  /\ del' = del - 1
  /\ Return(songend = 0)
  /\ UNCHANGED <<song, speed, tempo, position, locals, played>>

NextRowDue ==
  /\ pc = "tick" /\ chan = nchans /\ del = 0
  /\ pc' = "resolve" /\ back' = "play"
  /\ UNCHANGED <<song, speed, tempo, del, position, chan, pattnr, row,
                 pattbreak, pattern_delay, ghosts>>

-----------------------------------------------------------------------------
(***************************************************************************)
(* resolve_order().  The order position is tested against the length once, *)
(* on entry ("resolve"); the loop that follows jump markers ("chase") does *)
(* not test it again.                                                      *)
(***************************************************************************)

PlayRow ==
  /\ pc' = "row" /\ chan' = 0 /\ pattern_delay' = 0
  /\ pattnr' = order[ord'] /\ row' = rw
  /\ played' = played \cup {<<ord', rw>>}
  /\ UNCHANGED <<back, pattbreak, ret>>

Resolved(result) ==
  IF back = "play" /\ result
  THEN IF ord' < norders THEN PlayRow ELSE ReadsOutside
  ELSE Return(songend' = 0) /\ UNCHANGED <<locals, played>>

WrapAroundUnnoticed ==  \* faulty variant: the wrap is no end of the song
  /\ pc = "resolve" /\ ord >= length
  /\ ord' = restartpos
  /\ UNCHANGED <<song, speed, tempo, del, rw, songend>>
  /\ Resolved(TRUE)

WrapAround ==
  /\ pc = "resolve" /\ ord >= length
  /\ songend' = 1 /\ ord' = restartpos
  /\ UNCHANGED <<song, speed, tempo, del, rw>>
  /\ Resolved(TRUE)

LooksUp == pc = "chase" \/ (pc = "resolve" /\ ord < length)
AtOrder == LooksUp /\ ord < norders
AtMarker == AtOrder /\ order[ord] >= JumpMarker
Neword == order[ord] - JumpMarker

StrayOrder ==           \* a marker has led out of the order list
  /\ LooksUp /\ ord >= norders
  /\ ReadsOutside /\ UNCHANGED <<song, speed, tempo, del, position>>

OrderFound ==
  /\ AtOrder /\ order[ord] < JumpMarker
  /\ UNCHANGED <<song, speed, tempo, del, position>>
  /\ Resolved(TRUE)

SelfJumpFollowed ==     \* faulty variant: "immediate recursive loop" not detected
  /\ AtMarker /\ Neword = ord
  /\ songend' = 1 /\ pc' = "chase"
  /\ UNCHANGED <<song, speed, tempo, del, ord, rw, locals, ghosts>>

SelfJump ==
  /\ AtMarker /\ Neword = ord
  /\ songend' = 1 /\ UNCHANGED <<song, speed, tempo, del, ord, rw>>
  /\ Resolved(FALSE)

FollowJumpForgetful ==  \* faulty variant: a jump forward takes the end back
  /\ AtMarker /\ Neword # ord
  /\ songend' = (IF Neword <= ord THEN 1 ELSE 0)
  /\ ord' = Neword /\ pc' = "chase"
  /\ UNCHANGED <<song, speed, tempo, del, rw, locals, ghosts>>

FollowJump ==
  /\ AtMarker /\ Neword # ord
  /\ songend' = (IF Neword <= ord THEN 1 ELSE songend)
  /\ ord' = Neword /\ pc' = "chase"
  /\ UNCHANGED <<song, speed, tempo, del, rw, locals, ghosts>>

-----------------------------------------------------------------------------
(***************************************************************************)
(* The row loop: the command of one channel's cell.  A channel that is not *)
(* active, or whose pattern has no track, is skipped.  The parameters make *)
(* one unsigned char, in decimal digits or in nibbles.                     *)
(***************************************************************************)

Track == trackord[pattnr][chan]
Stray == chan \in active /\ (pattnr < npats => Track # 0 /\ row >= nrows)
AtRow == pc = "row" /\ chan < nchans /\ ~Stray

StrayRow ==             \* the pattern or the row does not exist
  /\ pc = "row" /\ chan < nchans /\ Stray
  /\ ReadsOutside /\ UNCHANGED <<song, speed, tempo, del, position>>

Skipped == chan \notin active \/ Track = 0
Cell == tracks[Track][row]

InfoOf(p1, p2) ==
  (p1 * (IF "Decimal" \in flags THEN 10 ELSE 16) + p2) % 256
Info == InfoOf(Cell.param1, Cell.param2)

Command(fx) == AtRow /\ ~Skipped /\ Cell.command = fx
NextChannel ==
  /\ chan' = chan + 1
  /\ UNCHANGED <<song, del, pc, back, pattnr, row, ghosts>>

JumpsBackBeyond == Info < ord   \* faulty variant: a jump to the same position passes
JumpsBack == Info <= ord

PositionJump ==         \* command 11
  /\ Command(11) /\ NextChannel
  /\ pattbreak' = 1
  /\ rw' = 0 /\ ord' = Info
  /\ songend' = IF JumpsBack THEN 1 ELSE songend
  /\ UNCHANGED <<speed, tempo, pattern_delay>>

PatternBreak ==         \* command 13, ignored after another jump of this row
  /\ Command(13) /\ pattbreak = 0 /\ NextChannel
  /\ pattbreak' = 1
  /\ rw' = (IF Info < nrows THEN Info ELSE 0) /\ ord' = ord + 1
  /\ UNCHANGED <<speed, tempo, songend, pattern_delay>>

PatternDelayRows ==     \* command 14, sub-command 8
  /\ Command(14) /\ Cell.param1 = 8 /\ NextChannel
  /\ pattern_delay' = (Cell.param2 * speed) % 256
  /\ UNCHANGED <<speed, tempo, position, pattbreak>>

PatternDelayFrames ==   \* command 29
  /\ Command(29) /\ NextChannel
  /\ pattern_delay' = Info
  /\ UNCHANGED <<speed, tempo, position, pattbreak>>

SetTempo ==             \* command 7
  /\ Command(7) /\ NextChannel
  /\ tempo' = Info
  /\ UNCHANGED <<speed, position, pattbreak, pattern_delay>>

SA2SpeedOnly ==         \* faulty variant: a full stop is no end of the song
  /\ Command(15) /\ NextChannel
  /\ speed' = IF Info <= 31 THEN Info ELSE speed
  /\ tempo' = IF Info >= 50 THEN Info ELSE tempo
  /\ UNCHANGED <<ord, rw, pattbreak, pattern_delay, songend>>

SA2Speed ==             \* command 15
  /\ Command(15) /\ NextChannel
  /\ speed' = IF Info <= 31 THEN Info ELSE speed
  /\ tempo' = IF Info >= 50 THEN Info ELSE tempo
  /\ songend' = IF Info = 0 THEN 1 ELSE songend
  /\ UNCHANGED <<ord, rw, pattbreak, pattern_delay>>

AMDSpeed ==             \* command 18
  /\ Command(18) /\ NextChannel
  /\ IF Info \in 1 .. 31 THEN speed' = Info /\ UNCHANGED tempo
                         ELSE tempo' = Info /\ UNCHANGED speed
  /\ UNCHANGED <<position, pattbreak, pattern_delay>>

RADSpeed ==             \* command 19
  /\ Command(19) /\ NextChannel
  /\ speed' = IF Info = 0 THEN 1 ELSE Info
  /\ UNCHANGED <<tempo, position, pattbreak, pattern_delay>>

(* What the sequencer has no part in: other commands, the other extended   *)
(* commands, and a pattern break that comes too late.                      *)
Unsequenced ==
  CASE Cell.command = 13 -> pattbreak = 1
    [] Cell.command = 14 -> Cell.param1 # 8
    [] OTHER -> Cell.command \notin {7, 11, 15, 18, 19, 29}

PlainCell ==
  /\ AtRow /\ (Skipped \/ (~Skipped /\ Unsequenced)) /\ NextChannel
  /\ UNCHANGED <<speed, tempo, position, pattbreak, pattern_delay>>

RowChannel ==
  \/ PositionJump \/ PatternBreak \/ PatternDelayRows \/ PatternDelayFrames
  \/ SetTempo \/ SA2Speed \/ AMDSpeed \/ RADSpeed \/ PlainCell

NextPosition ==
  IF pattbreak = 1 THEN UNCHANGED <<ord, rw>>
  ELSE IF rw + 1 >= nrows THEN rw' = 0 /\ ord' = ord + 1
                               ELSE rw' = rw + 1 /\ UNCHANGED ord

AdvanceUnresolved ==    \* faulty variant: without the second resolve_order()
  /\ pc = "row" /\ chan = nchans
  /\ del' = (speed - 1 + pattern_delay) % 256
  /\ NextPosition /\ Return(songend = 0)
  /\ UNCHANGED <<song, speed, tempo, songend, locals, played>>

Advance ==              \* end of the row: tick counter and next row
  /\ pc = "row" /\ chan = nchans
  /\ del' = (speed - 1 + pattern_delay) % 256
  /\ NextPosition
  /\ pc' = "resolve" /\ back' = "done"
  /\ UNCHANGED <<song, speed, tempo, songend, chan, pattnr, row, pattbreak,
                 pattern_delay, ghosts>>

-----------------------------------------------------------------------------
Resolve == WrapAround \/ OrderFound \/ SelfJump \/ FollowJump \/ StrayOrder

SeqUpdate ==            \* every step a call of update() takes
  \/ FullStop \/ BeginUpdate \/ TickChannel \/ Wait \/ NextRowDue
  \/ Resolve \/ RowChannel \/ StrayRow \/ Advance

SeqNext == SeqUpdate \/ SeqRewind

SeqSpec == SeqInit /\ [][SeqNext]_seqVars

(* A frontend keeps calling update(), and a call runs to its end.          *)
SeqLiveSpec == SeqSpec /\ WF_seqVars(SeqUpdate)

-----------------------------------------------------------------------------
(* Type invariant: the variables keep the ranges of their C++ types.       *)
TypeOK ==
  /\ speed \in Byte /\ del \in Byte /\ tempo \in Word /\ pattern_delay \in Byte
  /\ ord \in Nat /\ rw \in 0 .. (nrows - 1) /\ songend \in {0, 1}
  /\ pc \in {"ready", "tick", "resolve", "chase", "row", "outside"}
  /\ back \in {"play", "done"} /\ chan \in 0 .. nchans
  /\ pattnr \in Byte /\ row \in 0 .. (nrows - 1) /\ pattbreak \in {0, 1}
  /\ ret \in {"none", "true", "false"} /\ played \subseteq Nat \X Nat

(***************************************************************************)
(* With a closed song, update() never reads outside the arrays the loader  *)
(* made.  That each order entry is in range is not enough for it: markers  *)
(* must never reach trackord[pattnr], and resolve_order() tests its        *)
(* position before it follows them, not after, while a wrap to restartpos  *)
(* may leave ord on one unresolved.  The second resolve_order() of the row *)
(* before and the one at the start of the next row see to it between them. *)
(***************************************************************************)
InBounds == Closed(song) => pc # "outside"

(***************************************************************************)
(* update() reports the end before it plays any row a second time, whether *)
(* the order list wraps, a marker or a position jump goes back, or a       *)
(* pattern break skips rows: a frontend that stops at the first `false'    *)
(* never hears the song repeat, and "so we can report songend right away"  *)
(* (the second resolve_order() of update()) delivers that.  A jump marker  *)
(* to beyond the end of the list defeats it: the wrap is noticed when the  *)
(* repeated row is already due.                                            *)
(***************************************************************************)
StartsRow == pc # "row" /\ pc' = "row"
NoReplayBeforeReport ==
  [][StartsRow /\ <<ord', rw>> \in played /\ JumpsInside(song) => ret = "false"]_seqVars

(***************************************************************************)
(* Once update() has returned false it returns false until the next        *)
(* rewind(): neither a speed command after a full stop nor a jump forward  *)
(* after the loop turns the report around.                                 *)
(***************************************************************************)
EndIsSticky == [][ret = "false" => ret' \in {"false", "none"}]_seqVars

(***************************************************************************)
(* The engine stops dead (speed 0, update() refuses to run) only where the *)
(* song's end is recorded too, so that the stop is not lost when a later   *)
(* channel of the row sets a speed again; a module that starts with speed  *)
(* 0 is the one exception.                                                 *)
(***************************************************************************)
StopIsAnEnd == speed = 0 => songend = 1 \/ initspeed = 0

(* Every call of update() comes back to its caller, unless it gets lost.   *)
UpdateReturns == pc # "ready" ~> pc \in {"ready", "outside"}

(***************************************************************************)
(* A song that is played on without rewinding is eventually reported as    *)
(* over, for good: songlength()'s loop needs it to end before its limit.   *)
(***************************************************************************)
SongEnds == []<>(ret = "none") \/ <>[](ret = "false") \/ <>(pc = "outside")
=============================================================================
