----------------------------- MODULE Replayers -----------------------------
(***************************************************************************)
(* The replayers, one at a time: load() has chosen a format and a song,    *)
(* and a frontend rewinds and updates.                                     *)
(***************************************************************************)
EXTENDS ReplayTrackers, ReplayA2m

\* What a constructor leaves in the fields rewind() does not set.
Constructed(format, tune) ==
  CASE format = "hsc" -> HscConstructed(tune)
    [] format = "msc" -> MscConstructed
    [] format = "ksm" -> KsmConstructed
    [] format = "lds" -> LdsConstructed(tune)
    [] format = "plx" -> PlxConstructed(tune)
    [] format = "adl" -> AdlConstructed
    [] format = "rad" -> RadConstructed(tune)
    [] format = "cmf" -> CmfConstructed
    [] format \in {"rol", "mus", "mdi", "coktel"} -> ComposerConstructed
    [] format = "u6m" -> U6mConstructed
    [] format = "xmi" -> XmiConstructed
    [] format = "a2m" -> A2mConstructed(tune)
    [] OTHER -> {Unset}

\* What the rewind() of a format leaves as it was.
Leaves(format) ==
  CASE format = "hsc" -> {"key", "freq"}
    [] format = "msc" -> {"dec_len", "dec_dist"}
    [] format = "ksm" -> {"drums"}
    [] format = "lds" -> {"pace"}
    [] format = "plx" -> {"rate"}
    [] format = "adl" -> {"globalTempo", "callbackTimer", "beat", "rhythmBits", "depthBits",
                          "drumLevels", "extraLevel2"}
    [] format = "rad" -> {"Speed", "riffs"}
    [] format = "cmf" -> {"percussive"}
    [] format \in {"rol", "mus", "mdi", "coktel"} ->
         {"fnumPtr", "oldFNumPtr", "oldBend", "oldHalfTone", "pitchStep", "struck"}
    [] format = "u6m" -> {"instOffsets"}
    [] format = "xmi" -> {"vprot"}
    [] format = "a2m" -> {"locks"}
    [] OTHER -> {}

ASSUME KeptAssumption == \A f \in DOMAIN Songs : Leaves(f) \subseteq Kept[f]

Init ==
  \E f \in DOMAIN Songs : \E s \in Songs[f] :
    \E q \in Constructed(f, s) : Loaded(f, s, q)

Rewind == XadRewind \/ TrackerRewind \/ StreamRewind \/ VoiceRewind \/ AdlRewind \/ RadRewind
          \/ MidiRewind \/ ComposerRewind \/ GamesRewind \/ XmiRewind \/ A2mRewind
Update == XadUpdate \/ TrackerUpdate \/ StreamUpdate \/ VoiceUpdate \/ AdlUpdate \/ RadUpdate
          \/ MidiUpdate \/ ComposerUpdate \/ GamesUpdate \/ XmiUpdate \/ A2mUpdate
Next == Rewind \/ Update

\* A frontend loads with a rewind, and its timer calls update() for ever.
Spec == Init /\ [][Next]_vars /\ Timer /\ Started
=============================================================================
