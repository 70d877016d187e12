------------------------------ MODULE Contract ------------------------------
(***************************************************************************)
(* What CPlayer::songlength() and CPlayer::seek() rely on when they call a *)
(* replayer: a song has one length, counted in calls of update() from      *)
(* rewind(), whatever was played before; update() returns TRUE before that *)
(* point and FALSE from it on, until the next rewind().                    *)
(***************************************************************************)
EXTENDS Naturals

CONSTANTS Subsongs,   \* what rewind() may be given
          Unknown     \* the length of a subsong nobody has heard to its end

VARIABLES sub,        \* the subsong being played
          n,          \* calls of update() since rewind()
          len,        \* the length of each subsong, once it is known
          ret         \* what the last call of update() returned

cvars == <<sub, n, len, ret>>

Init ==
  /\ sub \in Subsongs
  /\ n = 0
  /\ len = [s \in Subsongs |-> Unknown]
  /\ ret = TRUE

Rewind(s) ==
  /\ sub' = s
  /\ n' = 0
  /\ ret' = TRUE
  /\ UNCHANGED len

\* A call before the end of a subsong whose length may still be unknown.
PlayOn ==
  /\ n' = n + 1
  /\ len[sub] # Unknown => n' < len[sub]
  /\ ret' = TRUE
  /\ UNCHANGED <<sub, len>>

\* The first call that finds the song at its end settles its length.
FirstEnd ==
  /\ len[sub] = Unknown
  /\ n' = n + 1
  /\ len' = [len EXCEPT ![sub] = n']
  /\ ret' = FALSE
  /\ UNCHANGED sub

\* Every later play ends there, and stays ended.
EndAgain ==
  /\ len[sub] # Unknown
  /\ n' = n + 1
  /\ n' >= len[sub]
  /\ ret' = FALSE
  /\ UNCHANGED <<sub, len>>

Next == (\E s \in Subsongs : Rewind(s)) \/ PlayOn \/ FirstEnd \/ EndAgain

Spec == Init /\ [][Next]_cvars
=============================================================================
