-------------------------------- MODULE Tape --------------------------------
(***************************************************************************)
(* A song is recorded with CDiskopl and played back with CrawPlayer, which *)
(* also plays files captured by other programs.                            *)
(***************************************************************************)
EXTENDS DiskOpl, RawPlayer

CONSTANT Captures       \* files of other origin

VARIABLE stage          \* "record", then "replay" of the recording or of a "capture"

tapeVars == <<diskVars, rawVars, stage>>

(* The header that CDiskopl's constructor writes; it writes no end marker. *)
Recorded == [clock |-> 65535, words |-> file, tagwords |-> 0]

TapeInit ==
  /\ DiskInit
  /\ data = <<>> /\ clock = 0 /\ speed = 0 /\ pos = 0 /\ del = 0 /\ songend = FALSE
  /\ pc = "ready" /\ ret = TRUE /\ selected = 0 /\ sounded = <<>> /\ time = 0 /\ lastpass = NoPass
  /\ stage = "record"

Record == stage = "record" /\ DiskNext /\ UNCHANGED <<rawVars, stage>>

LoadRecording == stage = "record" /\ load(Recorded) /\ stage' = "replay" /\ UNCHANGED diskVars

LoadCapture ==
  /\ stage = "record" /\ file = <<>>
  /\ \E capture \in Captures : load(capture)
  /\ stage' = "capture" /\ UNCHANGED diskVars

PlayOn == stage # "record" /\ rawupdate /\ UNCHANGED <<diskVars, stage>>
PlayAgain == stage # "record" /\ rewind /\ UNCHANGED <<diskVars, stage>>

TapeNext == Record \/ LoadRecording \/ LoadCapture \/ PlayOn \/ PlayAgain

TapeSpec == TapeInit /\ [][TapeNext]_tapeVars

(* A frontend plays on.                                                    *)
TapeLiveSpec == TapeSpec /\ WF_tapeVars(PlayOn)

-----------------------------------------------------------------------------
(***************************************************************************)
(* "writes all received OPL commands to a file in the RdosPlay RAW format" *)
(* (libadplug.texi:291): the replay makes the writes that were recorded,   *)
(* in their order, on their chips, and not later than they were made, and  *)
(* earlier only by what dividing long ticks has lost.  A write made after  *)
(* setnowrite() hid a chip selection from the file is not covered.         *)
(***************************************************************************)
InTime(t, at, lost) == at - lost <= t /\ t <= at

SameWrite(s, h) ==
  s.chip = h.chip /\ s.reg = h.reg /\ s.val = h.val /\ InTime(s.at, h.at, h.slack)

ReplayFaithful ==
  stage = "replay" /\ ~misplaced =>
    Len(sounded) <= Len(heard) /\ \A i \in DOMAIN sounded : SameWrite(sounded[i], heard[i])

(* A replay that has ended was complete, and as long as the recording; the *)
(* last tick may be cut short, since update() looks for the end first.     *)
ReplayComplete ==
  stage = "replay" /\ ~ret =>
    Len(sounded) = Len(heard) /\ InTime(time, now, slack + old_freq)

(* A song that returns to its start sounds the same in every pass, so that *)
(* nothing of the last one is left over: chip, delay or speed.             *)
EveryPassTheSame ==
  [][SongOver /\ lastpass # NoPass => lastpass' = lastpass]_tapeVars

(* Once update() has returned false it does so until rewind().             *)
RawEndIsSticky == [][~ret /\ ret' => rewind]_tapeVars

(* Every song that is played on is reported as over, unless it is rewound  *)
(* for ever.                                                               *)
ReplayEnds ==
  \/ []<>(stage = "record" \/ ~ret)
  \/ []<><<PlayAgain>>_tapeVars
=============================================================================
