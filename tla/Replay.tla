------------------------------- MODULE Replay -------------------------------
(***************************************************************************)
(* What the replayers have in common: the object a frontend holds, the     *)
(* calls it makes, and what it may expect of them.  The modules that       *)
(* extend this one give each replayer's rewind() and update() as an        *)
(* action; p is the record of the fields that replayer keeps.  The song,   *)
(* the data load() has read, never changes.                                *)
(***************************************************************************)
EXTENDS Integers, Sequences, FiniteSets, SequencesExt

CONSTANTS Songs,     \* [format -> set of songs], what load() may have read
          MaxPlays,  \* rewind() calls of one frontend, the one in load() too
          MaxTicks,  \* update() calls of one play
          Overrun,   \* [format -> update() calls a frontend makes after the end]
          Kept,      \* [format -> fields its rewind() is known to leave as they are]
          Unset      \* a field or a length nobody has assigned

VARIABLES fmt,    \* which replayer load() chose
          song,   \* the data it loaded
          p,      \* the replayer's fields
          fresh,  \* [subsong -> p after the first rewind() to it]
          pc,     \* where a call of update() stands, Idle between two calls
          read,   \* the rows the last update() read, in a format of patterns
          past,   \* the rows the updates before it have read since the rewind
          sub, n, len, ret,   \* see Contract
          plays   \* rewind() calls so far

client == <<fmt, song>>
vars == <<fmt, song, p, fresh, pc, read, past, sub, n, len, ret, plays>>

Subsongs == 0..1
Idle == 0

Byte(i) == i % 256

\* A loaded object before load()'s own rewind(): f is what load() and the
\* constructor leave in the fields.
Loaded(format, tune, f) ==
  /\ fmt = format /\ song = tune /\ p = f
  /\ fresh = [s \in Subsongs |-> Unset]
  /\ pc = Idle
  /\ read = {} /\ past = {}
  /\ sub = 0 /\ n = 0 /\ len = [s \in Subsongs |-> Unset] /\ ret = TRUE
  /\ plays = 0

\* A frontend rewinds whenever it likes; the first time is in load(), to 0.
MayRewind(format, s) ==
  /\ fmt = format
  /\ pc = Idle
  /\ plays < MaxPlays
  /\ plays = 0 => s = 0

\* The effect of a rewind(s) that leaves f in the fields.
Rewound(s, f) ==
  /\ p' = f
  /\ fresh' = IF fresh[s] = Unset THEN [fresh EXCEPT ![s] = f] ELSE fresh
  /\ read' = {} /\ past' = {}
  /\ sub' = s /\ n' = 0 /\ ret' = TRUE
  /\ plays' = plays + 1
  /\ UNCHANGED <<client, len, pc>>

\* A frontend calls update() until the end, and may go on a little.
Playing ==
  /\ plays > 0
  /\ n < MaxTicks
  /\ len[sub] # Unset => n < len[sub] + Overrun[fmt]

MayUpdate(format) == fmt = format /\ pc = Idle /\ Playing

\* A step inside a call of update() that leaves f in the fields and goes on
\* at place.
Within(f, place) ==
  /\ p' = f
  /\ pc' = place
  /\ UNCHANGED <<client, fresh, read, past, sub, n, len, ret, plays>>

\* The effect of the end of an update() that leaves f in the fields, has read
\* rows of the song and returns playing.
Updated(f, rows, playing) ==
  /\ p' = f
  /\ pc' = Idle
  /\ read' = rows
  /\ past' = past \union read
  /\ n' = n + 1
  /\ ret' = playing
  /\ len' = IF ~playing /\ len[sub] = Unset
            THEN [len EXCEPT ![sub] = n'] ELSE len
  /\ UNCHANGED <<client, fresh, sub, plays>>

\* The steps of a replayer always have a successor while it plays or is in
\* update(), so this is the weak fairness of update(): the timer goes on.
Timer == []<>~(pc # Idle \/ Playing) \/ []<><<plays' = plays>>_vars

\* load() ends with its rewind().
Started == <>(plays > 0)

----------------------------------------------------------------------------
\* rewind() leaves the replayer as the first rewind() to that subsong did:
\* nothing that was played before can be heard in what is played next.  Every
\* CPlayer::rewind() resets its fields one by one, but for those in Kept.
RewindRestores ==
  [][plays' # plays =>
       \A f \in DOMAIN p' \ Kept[fmt] : p'[f] = fresh'[sub'][f]]_vars

\* update() keeps the promises songlength() and seek() are built on.
C == INSTANCE Contract WITH Unknown <- Unset
KeepsContract == C!Spec

\* A row is not read a second time before the end is reported: whatever the
\* jumps, breaks, loops and order lists of a song of patterns do, update() has
\* returned FALSE when the song repeats.  songlength() takes the first FALSE
\* for the end, so a repeat that is missed is counted in the length.
RepeatsAreReported == read \intersect past # {} => ~ret

\* A call of update() returns.
UpdateReturns == pc # Idle ~> pc = Idle

\* However often a frontend rewinds, a song it goes on playing is reported as
\* ended (update() returns FALSE): songlength() loops until then.
EndReported == []<>~ret
=============================================================================
