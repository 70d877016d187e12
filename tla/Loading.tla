------------------------------ MODULE Loading ------------------------------
(***************************************************************************)
(* CAdPlug::factory(): the players that list the file's extension are      *)
(* asked first, then all of them; each load() runs one of its paths, and   *)
(* an object that refuses the file is deleted.                             *)
(***************************************************************************)
EXTENDS LoadPaths, Integers

CONSTANTS Extensions,  \* extensions of file names
          Players      \* the list: <<format, loader, extensions it lists>>

\* Every player loads with one of the load()s of LoadPaths; that of the
\* Reality tracker leaves it to Init() to make the song ready.
ASSUME PlayersAssumption ==
  /\ Players \in Seq(STRING \X Loaders \X SUBSET Extensions)
  /\ \A i \in DOMAIN Players : Players[i][2] = Rad2Load => Players[i][1] = "rad2"

VARIABLES ext,      \* the file's
          phase,    \* "hit", by extension; "all"; "over"
          turn,     \* the player of the list being asked
          stage,    \* of its object: "none", "load", "no", "yes"
          path, at, \* the path its load() takes, and the next step on it
          held,     \* files and memory taken and not given back
          rewound,  \* whether load() has called rewind()
          refused   \* the formats that have refused this file

vars == <<ext, phase, turn, stage, path, at, held, rewound, refused>>

Format == Players[turn][1]
Member == Players[turn][2].frees
Lists(i) == ext \in Players[i][3]

Init ==
  /\ ext \in Extensions
  /\ phase = "hit" /\ turn = 1 /\ stage = "none"
  /\ path = <<>> /\ at = 1 /\ held = {} /\ rewound = FALSE
  /\ refused = {}

Asking == phase # "over" /\ stage = "none"

\* factory() of the player makes an object, and load() starts.
Ask ==
  /\ Asking
  /\ turn <= Len(Players)
  /\ phase = "hit" => Lists(turn)
  /\ path' \in Players[turn][2].paths
  /\ stage' = "load" /\ at' = 1 /\ held' = {} /\ rewound' = FALSE
  /\ UNCHANGED <<ext, phase, turn, refused>>

\* The next player of the list, or the second pass over it, or none at all.
Skip ==
  /\ Asking
  /\ turn <= Len(Players) /\ phase = "hit" /\ ~Lists(turn)
  /\ turn' = turn + 1
  /\ UNCHANGED <<ext, phase, stage, path, at, held, rewound, refused>>

EndOfList ==
  /\ Asking
  /\ turn > Len(Players)
  /\ \/ phase = "hit" /\ phase' = "all" /\ turn' = 1
     \/ phase = "all" /\ phase' = "over" /\ turn' = turn
  /\ UNCHANGED <<ext, stage, path, at, held, rewound, refused>>

Here == path[at]
May(step) ==
  step.does \in {"open", "check"} \/ (step.does = "name" /\ ext \notin step.thing)

\* load() goes on.  What it decides depends on the file only, so a format
\* that has refused the file refuses it again, now or later.
Go ==
  /\ stage = "load" /\ at <= Len(path)
  /\ ~(Here.does = "name" /\ ext \notin Here.thing)
  /\ Format \in refused => \E i \in at + 1 .. Len(path) : May(path[i])
  /\ at' = at + 1
  /\ held' = CASE Here.does \in {"open", "take"} -> held \union {Here.thing}
               [] Here.does = "give" -> held \ {Here.thing}
               [] OTHER -> held
  /\ rewound' = (rewound \/ Here.does = "rewind")
  /\ UNCHANGED <<ext, phase, turn, stage, path, refused>>

Refuse ==
  /\ stage = "load" /\ at <= Len(path)
  /\ May(Here)
  /\ stage' = "no"
  /\ held' = held \ Here.gives
  /\ refused' = refused \union {Format}
  /\ UNCHANGED <<ext, phase, turn, path, at, rewound>>

\* Faulty variant: the same player is asked again.
DiscardHere ==
  /\ stage = "no"
  /\ stage' = "none"
  /\ held' = held \ Member
  /\ UNCHANGED <<ext, phase, turn, path, at, rewound, refused>>

\* delete p
Discard ==
  /\ stage = "no"
  /\ stage' = "none" /\ turn' = turn + 1
  /\ held' = held \ Member
  /\ UNCHANGED <<ext, phase, path, at, rewound, refused>>

Accept ==
  /\ stage = "load" /\ at = Len(path) + 1
  /\ stage' = "yes" /\ phase' = "over"
  /\ UNCHANGED <<ext, turn, path, at, held, rewound, refused>>

Next == Ask \/ Skip \/ EndOfList \/ Go \/ Refuse \/ Discard \/ Accept
Spec == Init /\ [][Next]_vars /\ WF_vars(Next)

----------------------------------------------------------------------------
\* Whichever way load() is left, its file and its side files are closed and
\* its working memory is freed: only what the destructor frees is kept.
\* "It is very important to do this anytime you leave your load() method!"
LeftClean == stage \in {"no", "yes"} => held \subseteq Member

\* On no path is anything closed or freed that is not held (again).
GivenOnce ==
  (stage = "load" /\ at <= Len(path)) =>
    (Here.gives \subseteq held /\ (Here.does \in {"open", "take"} => Here.thing \notin held))

\* rewind() is called for a valid file, and only then: a player is ready when
\* factory() returns it.  Init() of the Reality tracker does it on its own.
RewoundIfValid ==
  /\ stage = "no" => ~rewound
  /\ stage = "yes" => (rewound \/ Format = "rad2")

\* factory() returns.
FactoryReturns == <>(phase = "over")
=============================================================================
