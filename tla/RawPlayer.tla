----------------------------- MODULE RawPlayer -----------------------------
(***************************************************************************)
(* CrawPlayer (raw.cpp): plays a file in the RAW format, from CDiskopl or  *)
(* captured elsewhere.  One call of update() is a run of steps, one for    *)
(* each word of the file, until a tick is over.                            *)
(***************************************************************************)
EXTENDS Integers, Sequences

VARIABLES
  data,         \* the words of the song
  clock, speed, \* the length of a tick: the file's, and the current one
  pos, del, songend,
  pc,           \* where update() is: "ready" or "fetch"
  ret,          \* ghost: what update() returned last since the rewind
  selected,     \* the chip selection of the OPL emulator
  sounded,      \* ghost: the writes in this pass, each with its chip and time
  time,         \* ghost: how long this pass has been playing
  lastpass      \* ghost: the writes of the pass before and its length

rawVars == <<data, clock, speed, pos, del, songend, pc, ret, selected, sounded, time, lastpass>>

NoPass == [writes |-> <<>>, length |-> -1]

-----------------------------------------------------------------------------
(* What load() makes of a file.  Once it has met the tag behind an end     *)
(* marker it fills the rest of the array, which has room for the tag, too. *)
EndMarker == <<255, 255>>
Loaded(capture) == capture.words \o [i \in 1 .. capture.tagwords |-> EndMarker]

(* rewind().  An emulator's init() selects chip 0 (nemuopl.cpp:51).        *)
RewoundAtSpeed(clk) ==  \* faulty variant: the speed is left as it is
  /\ pos' = 0 /\ del' = 0 /\ UNCHANGED speed
  /\ selected' = 0
  /\ sounded' = <<>> /\ time' = 0

Rewound(clk) ==
  /\ pos' = 0 /\ del' = 0 /\ speed' = clk
  /\ selected' = 0
  /\ sounded' = <<>> /\ time' = 0

load(capture) ==
  /\ capture.words # <<>>
  /\ data' = Loaded(capture) /\ clock' = capture.clock
  /\ Rewound(capture.clock)
  /\ songend' = FALSE /\ pc' = "ready" /\ ret' = TRUE /\ lastpass' = NoPass

rewind ==
  /\ pc = "ready"
  /\ Rewound(clock)
  /\ songend' = FALSE /\ ret' = TRUE /\ lastpass' = NoPass
  /\ UNCHANGED <<data, clock, pc>>

-----------------------------------------------------------------------------
AtLast == pos + 1 >= Len(data)   \* faulty variant: the last word is not played
AtEnd == pos >= Len(data)
Word == data[pos + 1]
Param == Word[1]
Command == Word[2]

(* The tick that a frontend waits after update().                          *)
Tick == IF speed = 0 THEN 65535 ELSE speed

Return == pc' = "ready" /\ ret' = ~songend /\ time' = time + Tick
ReturnFalse == pc' = "ready" /\ ret' = FALSE

Exhausted ==
  /\ AtEnd
  /\ ReturnFalse
  /\ UNCHANGED <<data, clock, speed, pos, del, songend, selected, sounded, time, lastpass>>

Idle ==
  /\ pc = "ready" /\ ~AtEnd /\ del # 0
  /\ del' = del - 1
  /\ Return
  /\ UNCHANGED <<data, clock, speed, pos, songend, selected, sounded, lastpass>>

Begin ==
  /\ pc = "ready" /\ ~AtEnd /\ del = 0
  /\ pc' = "fetch"
  /\ UNCHANGED <<data, clock, speed, pos, del, songend, ret, selected, sounded, time, lastpass>>

Fetching == pc = "fetch" /\ ~AtEnd

Delay ==
  /\ Fetching /\ Command = 0
  /\ del' = (Param - 1) % 256
  /\ pos' = pos + 1
  /\ Return
  /\ UNCHANGED <<data, clock, speed, songend, selected, sounded, lastpass>>

SetSpeed ==
  /\ Fetching /\ Command = 2 /\ Param = 0
  /\ IF pos + 1 >= Len(data)
     THEN pos' = pos + 1 /\ ReturnFalse /\ UNCHANGED speed
     ELSE /\ speed' = data[pos + 2][1] + 256 * data[pos + 2][2]
          /\ pos' = pos + 2
          /\ UNCHANGED <<pc, ret>>
  /\ UNCHANGED <<data, clock, del, songend, selected, sounded, time, lastpass>>

SelectChip ==           \* Copl::setchip() ignores other chips
  /\ Fetching /\ Command = 2 /\ Param # 0
  /\ selected' = IF Param \in {1, 2} THEN Param - 1 ELSE selected
  /\ pos' = pos + 1
  /\ UNCHANGED <<data, clock, speed, del, songend, pc, ret, sounded, time, lastpass>>

SongRestarts ==         \* faulty variant: the end is not recorded
  /\ Fetching /\ Word = EndMarker
  /\ Rewound(clock)
  /\ pc' = "ready" /\ ret' = TRUE /\ songend' = FALSE
  /\ lastpass' = [writes |-> sounded, length |-> time]
  /\ UNCHANGED <<data, clock>>

SongOverOnce ==         \* faulty variant: the end is reported and not recorded
  /\ Fetching /\ Word = EndMarker
  /\ Rewound(clock)
  /\ songend' = FALSE
  /\ ReturnFalse
  /\ lastpass' = [writes |-> sounded, length |-> time]
  /\ UNCHANGED <<data, clock>>

SongOver ==
  /\ Fetching /\ Word = EndMarker
  /\ Rewound(clock)
  /\ songend' = TRUE
  /\ ReturnFalse
  /\ lastpass' = [writes |-> sounded, length |-> time]
  /\ UNCHANGED <<data, clock>>

NoWord ==
  /\ Fetching /\ Command = 255 /\ Param # 255
  /\ pos' = pos + 1
  /\ UNCHANGED <<data, clock, speed, del, songend, pc, ret, selected, sounded, time, lastpass>>

WriteRegister ==
  /\ Fetching /\ Command \notin {0, 2, 255}
  /\ sounded' = Append(sounded, [chip |-> selected, reg |-> Command, val |-> Param, at |-> time])
  /\ pos' = pos + 1
  /\ UNCHANGED <<data, clock, speed, del, songend, pc, ret, selected, time, lastpass>>

rawupdate ==
  \/ Exhausted \/ Idle \/ Begin
  \/ Delay \/ SetSpeed \/ SelectChip \/ SongOver \/ NoWord \/ WriteRegister
=============================================================================
