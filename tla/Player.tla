------------------------------- MODULE Player -------------------------------
(***************************************************************************)
(* CPlayer's own operations on top of a replayer: songlength(), which      *)
(* plays the song on a silent OPL object to time it, and seek(), which     *)
(* plays it on the real one to a point in time.  Both are loops of         *)
(* rewind(), update() and getrefresh() calls; between two of their steps   *)
(* no other operation of the player runs.                                  *)
(*                                                                         *)
(* The frontend that plays the song itself is modelled with them: it calls *)
(* update() and, while the song goes on, waits for the time getrefresh()   *)
(* asks for.  `clock' is the time each of the three has counted.           *)
(***************************************************************************)
EXTENDS ModPlayer

CONSTANTS
  Limit,          \* 600000 ms: where songlength() gives up
  SeekTargets,    \* positions a frontend seeks to
  MaxMeasures     \* bound: how often songlength() is called (model checking)

ASSUME PlayerAssumption == Limit \in Nat /\ SeekTargets \subseteq Nat /\ MaxMeasures \in Nat

VARIABLES
  op,         \* "none", "songlength" or "seek": the operation that runs
  stage,      \* where that operation is
  clock,      \* time counted since the rewind
  goal,       \* where seek() is to stop
  lengths,    \* ghost: every length songlength() has returned
  measures,   \* number of calls of songlength(), for the bound
  torn        \* ghost: songlength() has torn the channels from the chips

opVars == <<op, stage, goal, lengths, measures, torn>>
playerVars == <<modVars, clock, opVars>>

(* 1000 / getrefresh(), with getrefresh() = tempo / 2.5; a tempo of 0      *)
(* makes it infinite.                                                      *)
Forever == 1000000000
TickTime == IF tempo = 0 THEN Forever ELSE 2500 \div tempo
After(t) == Least(Forever, t + TickTime)

(* update() as the three callers use it: time passes after a true result.  *)
CallUpdate ==
  /\ ModUpdate
  /\ clock' = clock

(* ---- the frontend ----------------------------------------------------- *)

FrontendTime ==         \* time passes between two calls
  /\ op = "none" /\ pc = "ready" /\ stage = "due" /\ ret = "true"
  /\ stage' = "idle" /\ clock' = After(clock)
  /\ UNCHANGED <<modVars, op, goal, lengths, measures, torn>>

FrontendUpdate ==
  /\ op = "none" /\ (pc = "ready" => stage = "idle" \/ ret = "false")
  /\ CallUpdate
  /\ stage' = "due"
  /\ UNCHANGED <<op, goal, lengths, measures, torn>>

FrontendRewind ==
  /\ op = "none" /\ ModRewind
  /\ stage' = "idle" /\ clock' = 0 /\ torn' = FALSE
  /\ UNCHANGED <<op, goal, lengths, measures>>

(* ---- songlength() ----------------------------------------------------- *)

SongLengthAloud ==      \* faulty variant: the real OPL object stays in place
  /\ op = "none" /\ pc = "ready" /\ measures < MaxMeasures
  /\ op' = "songlength" /\ stage' = "rewind" /\ measures' = measures + 1
  /\ torn' = TRUE
  /\ UNCHANGED <<modVars, clock, goal, lengths>>

SongLength ==           \* exchange the OPL object for a new, silent one
  /\ op = "none" /\ pc = "ready" /\ measures < MaxMeasures
  /\ op' = "songlength" /\ stage' = "rewind" /\ measures' = measures + 1
  /\ opl' = "silent" /\ selected' = [selected EXCEPT !["silent"] = 0]
  /\ torn' = TRUE
  /\ UNCHANGED <<seqVars, voiceVars, fnum, level, bd, clock, goal, lengths>>

MeasureRewind ==
  /\ op = "songlength" /\ stage = "rewind" /\ ModRewind
  /\ stage' = "run" /\ clock' = 0
  /\ UNCHANGED <<op, goal, lengths, measures, torn>>

MeasureUpdate ==
  /\ op = "songlength" /\ stage = "run"
  /\ CallUpdate
  /\ stage' = IF pc' = "ready" THEN "test" ELSE "run"
  /\ UNCHANGED <<op, goal, lengths, measures, torn>>

MeasureOn ==            \* slength += 1000 / getrefresh()
  /\ op = "songlength" /\ stage = "test" /\ ret = "true" /\ clock < Limit
  /\ stage' = "run" /\ clock' = After(clock)
  /\ UNCHANGED <<modVars, op, goal, lengths, measures, torn>>

MeasureEnd ==           \* the second rewind()
  /\ op = "songlength" /\ stage = "test" /\ (ret = "false" \/ clock >= Limit)
  /\ ModRewind
  /\ stage' = "restore"
  /\ UNCHANGED <<clock, op, goal, lengths, measures, torn>>

MeasureReturnSilent ==  \* faulty variant: the real OPL object is not put back
  /\ op = "songlength" /\ stage = "restore"
  /\ op' = "none" /\ stage' = "idle" /\ clock' = 0
  /\ lengths' = lengths \cup {clock}
  /\ UNCHANGED <<modVars, goal, measures, torn>>

MeasureReturn ==
  /\ op = "songlength" /\ stage = "restore"
  /\ opl' = "real"
  /\ op' = "none" /\ stage' = "idle" /\ clock' = 0
  /\ lengths' = lengths \cup {clock}
  /\ UNCHANGED <<seqVars, voiceVars, selected, fnum, level, bd, goal, measures, torn>>

(* ---- seek() ----------------------------------------------------------- *)

SeekUnrewound(ms) ==    \* faulty variant: seeks on from where the song is
  /\ op = "none" /\ pc = "ready"
  /\ op' = "seek" /\ stage' = "test" /\ clock' = 0 /\ goal' = ms
  /\ UNCHANGED <<modVars, lengths, measures, torn>>

Seek(ms) ==
  /\ op = "none" /\ ModRewind
  /\ op' = "seek" /\ stage' = "test" /\ clock' = 0 /\ goal' = ms /\ torn' = FALSE
  /\ UNCHANGED <<lengths, measures>>

SeekOn ==               \* pos < ms: call update()
  /\ op = "seek" /\ stage = "test" /\ clock < goal
  /\ stage' = "run"
  /\ UNCHANGED <<modVars, clock, op, goal, lengths, measures, torn>>

SeekUpdate ==
  /\ op = "seek" /\ stage = "run"
  /\ CallUpdate
  /\ stage' = IF pc' = "ready" THEN "add" ELSE "run"
  /\ UNCHANGED <<op, goal, lengths, measures, torn>>

SeekAdd ==
  /\ op = "seek" /\ stage = "add" /\ ret = "true"
  /\ stage' = "test" /\ clock' = After(clock)
  /\ UNCHANGED <<modVars, op, goal, lengths, measures, torn>>

SeekReturnAtGoal ==     \* faulty variant: the end of the song is not looked at
  /\ op = "seek" /\ stage = "test" /\ clock >= goal
  /\ op' = "none" /\ stage' = "idle"
  /\ UNCHANGED <<modVars, clock, goal, lengths, measures, torn>>

SeekReturn ==
  /\ op = "seek"
  /\ (stage = "test" /\ clock >= goal) \/ (stage = "add" /\ ret = "false")
  /\ op' = "none" /\ stage' = "idle"
  /\ UNCHANGED <<modVars, clock, goal, lengths, measures, torn>>

-----------------------------------------------------------------------------
Operating ==            \* the steps of an operation that has begun
  \/ MeasureRewind \/ MeasureUpdate \/ MeasureOn \/ MeasureEnd \/ MeasureReturn
  \/ SeekOn \/ SeekUpdate \/ SeekAdd \/ SeekReturn

PlayerInit ==
  /\ ModInit
  /\ op = "none" /\ stage = "idle" /\ clock = 0 /\ goal = 0
  /\ lengths = {} /\ measures = 0 /\ torn = FALSE

PlayerNext ==
  \/ FrontendTime \/ FrontendUpdate \/ FrontendRewind
  \/ SongLength \/ (\E ms \in SeekTargets : Seek(ms))
  \/ Operating

PlayerSpec == PlayerInit /\ [][PlayerNext]_playerVars

(* A call that has begun runs on: the player is not preempted.  For the    *)
(* steps of update() weak fairness is written out, with what enables them: *)
(* each of update()'s states has its next step, but "outside".             *)
Steps == MeasureRewind \/ MeasureOn \/ MeasureEnd \/ MeasureReturn \/ SeekOn \/ SeekAdd \/ SeekReturn
RunsOn ==
  /\ WF_playerVars(Steps)
  /\ []<>(stage # "run" \/ pc = "outside") \/ []<><<MeasureUpdate \/ SeekUpdate>>_playerVars
PlayerLiveSpec == PlayerSpec /\ RunsOn

-----------------------------------------------------------------------------
(***************************************************************************)
(* songlength() leaves the real OPL alone, although it rewinds and plays   *)
(* the song in between ("save original OPL from being overwritten").       *)
(***************************************************************************)
MeasuresInSilence ==
  [][op = "songlength" =>
       UNCHANGED <<fnum, level, bd>> /\ selected'["real"] = selected["real"]]_playerVars

(***************************************************************************)
(* The length of a song depends on the song alone: songlength() returns    *)
(* the same time whenever it is called, in the middle of a song or after   *)
(* its end, and that is the time a frontend counts until update() first    *)
(* returns false.  Whatever playing leaves behind in the player, rewind()  *)
(* must have put back.                                                     *)
(***************************************************************************)
LengthIsTheSongs ==
  \A a \in lengths :
    /\ \A b \in lengths : a = b
    /\ op = "none" /\ ret = "false" => clock = a \/ a >= Limit

(* songlength() and seek() come back, unless update() gets lost.           *)
OperationsReturn == op # "none" ~> op = "none" \/ pc = "outside"

(***************************************************************************)
(* seek() and songlength() agree on where the song ends: a seek() to any   *)
(* point up to the length that songlength() has returned, that point       *)
(* included, leaves the song playing, and one beyond it leaves the song    *)
(* ended, from wherever it is called.  The two loops test the time and     *)
(* update()'s result in a different order, on different OPL objects, and   *)
(* start from different states.                                            *)
(***************************************************************************)
SeekMeetsLength ==
  [][op = "seek" /\ op' = "none" =>
       \A a \in lengths : a < Limit => (ret = "false" <=> goal > a)]_playerVars

(***************************************************************************)
(* Except after songlength(), the sound follows the channels (PitchSounds, *)
(* LevelsSound of ModPlayer); after it, the channels are back at their     *)
(* start while the chips still sound what was played before, until the     *)
(* next rewind() or seek().                                                *)
(***************************************************************************)
SoundFollows == ~torn => PitchSounds /\ ReleaseSounds /\ LevelsSound
=============================================================================
