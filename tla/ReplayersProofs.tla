--------------------------- MODULE ReplayersProofs ---------------------------
(***************************************************************************)
(* What every replayer of Replayers does whatever the song: a rewind()     *)
(* leaves what the first rewind() to that subsong left, but for the fields *)
(* in Kept.                                                                *)
(***************************************************************************)
EXTENDS Replayers, TLAPS

----------------------------------------------------------------------------
(* What a step of an update() leaves alone.                                *)

Steady == UNCHANGED <<fmt, song, fresh, plays>>

LEMMA WithinSteady == \A f, place : Within(f, place) => Steady
BY DEF Within, Steady, client

LEMMA UpdatedSteady == \A f, rows, playing : Updated(f, rows, playing) => Steady
BY DEF Updated, Steady, client

LEMMA HypSteady == HypUpdate => Steady
BY UpdatedSteady DEF HypUpdate, XadWait, XadRow

LEMMA PsiSteady == PsiUpdate => Steady
BY UpdatedSteady DEF PsiUpdate, XadWait, XadRow

LEMMA FlashSteady == FlashUpdate => Steady
BY UpdatedSteady DEF FlashUpdate, XadWait, XadRow

LEMMA RatSteady == RatUpdate => Steady
BY UpdatedSteady DEF RatUpdate, XadWait, XadRow

LEMMA HybridSteady == HybridUpdate => Steady
BY UpdatedSteady DEF HybridUpdate, XadRow

LEMMA BmfSteady == BmfUpdate => Steady
BY WithinSteady, UpdatedSteady DEF BmfUpdate, XadWait, BmfBegin,
  BmfIdle, BmfCross, BmfNormal, BmfEnd, XadRow

LEMMA HscSteady == HscUpdate => Steady
BY UpdatedSteady DEF HscUpdate, HscWait, HscRow

LEMMA S3mSteady == S3mUpdate => Steady
BY UpdatedSteady DEF S3mUpdate, S3mWait, S3mRow

LEMMA FmkSteady == FmkUpdate => Steady
BY WithinSteady, UpdatedSteady DEF FmkUpdate, FmkOver, FmkBegin,
  FmkTrack, FmkTick, FmkReturn, FmkEnd

LEMMA SngSteady == SngUpdate => Steady
BY WithinSteady, UpdatedSteady DEF SngUpdate, SngWait, SngBegin,
  SngWrite, SngTick

LEMMA ImfSteady == ImfUpdate => Steady
BY UpdatedSteady DEF ImfUpdate

LEMMA DroSteady == DroUpdate => Steady
BY WithinSteady, UpdatedSteady DEF DroUpdate, Begin, DroCommand,
  DroPause, DroWrite, DroEnd

LEMMA Dro2Steady == Dro2Update => Steady
BY WithinSteady, UpdatedSteady DEF Dro2Update, Begin, Dro2Command,
  Dro2End

LEMMA VgmSteady == VgmUpdate => Steady
BY WithinSteady, UpdatedSteady DEF VgmUpdate, VgmBegin, VgmCommand,
  VgmEnd

LEMMA MscSteady == MscUpdate => Steady
<1> USE WithinSteady, UpdatedSteady
<1>1. \A q : MscPaused(q) => Steady
  BY DEF MscPaused
<1>2. \A q, octet : MscOutput(q, octet) => Steady
  BY <1>1 DEF MscOutput
<1>3. MscWait \/ MscBegin \/ MscEnd \/ MscNextBlock => Steady
  BY <1>1 DEF MscWait, MscBegin, MscEnd, MscNextBlock
<1>4. MscPlain \/ MscPrefix \/ MscDistance => Steady
  BY <1>2 DEF MscPlain, MscPrefix, MscDistance
<1>5. MscLength \/ MscCopy => Steady
  BY <1>2 DEF MscLength, MscCopy
<1> QED BY <1>3, <1>4, <1>5 DEF MscUpdate

LEMMA XsmSteady == XsmUpdate => Steady
BY UpdatedSteady DEF XsmUpdate

LEMMA KsmSteady == KsmUpdate => Steady
BY WithinSteady, UpdatedSteady DEF KsmUpdate, KsmWait, KsmBegin,
  KsmNote, KsmEnd

LEMMA BamSteady == BamUpdate => Steady
BY WithinSteady, UpdatedSteady DEF BamUpdate, BamWait, BamBegin,
  BamCommand, BamPause

LEMMA JbmSteady == JbmUpdate => Steady
<1> USE WithinSteady, UpdatedSteady
<1>1. JbmBegin \/ JbmCount \/ JbmEnd => Steady
  BY DEF JbmBegin, Begin, JbmCount, JbmEnd
<1>2. JbmEvent => Steady
  BY DEF JbmEvent
<1> QED BY <1>1, <1>2 DEF JbmUpdate

LEMMA MkjSteady == MkjUpdate => Steady
<1>1. MkjBegin \/ MkjWait \/ MkjEnd => Steady
  BY WithinSteady, UpdatedSteady DEF MkjBegin, Begin, MkjWait, MkjEnd
<1>2. \A q : MkjNext(q) => Steady
  BY WithinSteady DEF MkjNext
<1>3. MkjOver => Steady
  BY UpdatedSteady DEF MkjOver
<1>4. MkjNote => Steady
  BY <1>2, <1>3 DEF MkjNote
<1> QED BY <1>1, <1>4 DEF MkjUpdate

LEMMA D00Steady == D00Update => Steady
BY WithinSteady, UpdatedSteady DEF D00Update, D00Begin, Begin,
  D00Delay, D00Skip, D00Over, D00Row, D00Order, D00Sequence, D00Event, D00End

LEMMA LdsSteady == LdsUpdate => Steady
BY UpdatedSteady DEF LdsUpdate, LdsStopped, LdsTick

LEMMA PlxSteady == PlxUpdate => Steady
BY UpdatedSteady DEF PlxUpdate

LEMMA SopSteady == SopUpdate => Steady
BY WithinSteady, UpdatedSteady DEF SopUpdate, SopBegin, SopCount,
  SopEvent, SopEnd

LEMMA McsSteady == McsUpdate => Steady
BY UpdatedSteady DEF McsUpdate

LEMMA PisSteady == PisUpdate => Steady
BY UpdatedSteady DEF PisUpdate, PisStopped, PisWait, PisRow

LEMMA WmSteady == WmUpdate => Steady
BY WithinSteady, UpdatedSteady DEF WmUpdate, WmEnded, WmBegin,
  WmInactive, WmWait, WmDone, WmEvent, WmEnd

LEMMA AdlSteady == AdlUpdate => Steady
BY WithinSteady, UpdatedSteady DEF AdlUpdate, AdlBegin, AdlGo,
  AdlTick, AdlRead, AdlEnd

LEMMA RadSteady == RadUpdate => Steady
BY UpdatedSteady DEF RadUpdate, RadEnd

LEMMA CmfSteady == CmfUpdate => Steady
BY WithinSteady, UpdatedSteady DEF CmfUpdate, CmfBegin, Begin,
  CmfStep

LEMMA MidSteady == MidUpdate => Steady
BY WithinSteady, UpdatedSteady DEF MidUpdate, MidBegin, MidPass

LEMMA HeradSteady == HeradUpdate => Steady
BY UpdatedSteady DEF HeradUpdate, HeradWait, HeradEvents

LEMMA RolSteady == RolUpdate => Steady
BY UpdatedSteady DEF RolUpdate

LEMMA MusSteady == MusUpdate => Steady
BY WithinSteady, UpdatedSteady DEF MusUpdate, MusTick, MusStep

LEMMA MdiSteady == MdiUpdate => Steady
BY WithinSteady, UpdatedSteady DEF MdiUpdate, MusTick, MusStep

LEMMA CoktelSteady == CoktelUpdate => Steady
BY WithinSteady, UpdatedSteady DEF CoktelUpdate, CoktelTick,
  CoktelStep

LEMMA U6mSteady == U6mUpdate => Steady
BY WithinSteady, UpdatedSteady DEF U6mUpdate, U6mBegin, U6mWait,
  U6mStop, U6mOne

LEMMA RixSteady == RixUpdate => Steady
BY UpdatedSteady DEF RixUpdate

LEMMA XmiSteady == XmiUpdate => Steady
BY WithinSteady, UpdatedSteady DEF XmiUpdate, XmiBegin, XmiRun,
  XmiOver

LEMMA A2mSteady == A2mUpdate => Steady
BY UpdatedSteady DEF A2mUpdate, A2mEnd

LEMMA UpdateSteady == Update => Steady
BY HypSteady, PsiSteady, FlashSteady, RatSteady, HybridSteady, BmfSteady, HscSteady,
  S3mSteady, FmkSteady, SngSteady, ImfSteady, DroSteady, Dro2Steady, VgmSteady,
  MscSteady, XsmSteady, KsmSteady, BamSteady, JbmSteady, MkjSteady, D00Steady,
  LdsSteady, PlxSteady, SopSteady, McsSteady, PisSteady, WmSteady, AdlSteady,
  RadSteady, CmfSteady, MidSteady, HeradSteady, RolSteady, MusSteady, MdiSteady,
  CoktelSteady, U6mSteady, RixSteady, XmiSteady, A2mSteady DEF Update, XadUpdate,
  TrackerUpdate, StreamUpdate, VoiceUpdate, MidiUpdate, ComposerUpdate, GamesUpdate

----------------------------------------------------------------------------
(* What the rewind() of a format may leave in the fields.                  *)

LeftBy(format, s, r) ==
  \/ format = "hyp" /\ r = HypFresh
  \/ format = "psi" /\ r = PsiFresh
  \/ format = "flash" /\ r = FlashFresh
  \/ format = "rat" /\ r = RatFresh
  \/ format = "hybrid" /\ r = HybridFresh
  \/ format = "bmf" /\ r = BmfFresh
  \/ format = "hsc" /\ \E q : r = HscFresh(q)
  \/ format = "s3m" /\ r = S3mFresh
  \/ format = "fmk" /\ r = FmkFresh
  \/ format = "sng" /\ r = SngFresh
  \/ format \in ImfFormats /\ r = ImfFresh
  \/ format = "dro" /\ r = DroFresh
  \/ format = "dro2" /\ r = Dro2Fresh
  \/ format = "vgm" /\ r = VgmFresh
  \/ format = "msc" /\ \E q : r = MscFresh(q)
  \/ format = "xsm" /\ r = XsmFresh
  \/ format = "ksm" /\ \E q : r = KsmFresh(q)
  \/ format = "bam" /\ r = BamFresh
  \/ format = "jbm" /\ r = JbmFresh
  \/ format = "mkj" /\ r = MkjFresh
  \/ format = "d00" /\ r = D00Fresh(s)
  \/ format = "lds" /\ \E q : r = LdsFresh(q)
  \/ format = "plx" /\ \E q : r = PlxFresh(q)
  \/ format = "sop" /\ r = SopFresh
  \/ format = "cmfmcsop" /\ r = McsFresh
  \/ format = "pis" /\ r = PisFresh
  \/ format = "wm" /\ r = WmFresh
  \/ format = "adl" /\ \E q : r = AdlFresh(s, q)
  \/ format = "rad" /\ \E q : r = RadFresh(q)
  \/ format = "cmf" /\ \E q : r = CmfFresh(q)
  \/ format = "mid" /\ r = MidFresh(s)
  \/ format = "herad" /\ r = HeradFresh
  \/ format = "rol" /\ \E q : r = RolFresh(q)
  \/ format = "mus" /\ \E q : r = MusFresh(q)
  \/ format = "mdi" /\ \E q : r = MdiFresh(q)
  \/ format = "coktel" /\ \E q : r = CoktelFresh(q)
  \/ format = "u6m" /\ \E q : r = U6mFresh(q)
  \/ format = "rix" /\ r = RixFresh(s)
  \/ format = "xmi" /\ \E q : r = XmiFresh(s, q)
  \/ format = "a2m" /\ \E q : r = A2mFresh(q)

LEMMA XadRewinds ==
  XadRewind => \E s \in Subsongs : Rewound(s, p') /\ LeftBy(fmt, s, p')
<1> USE DEF MayRewind, Subsongs, Rewound, LeftBy
<1> DEFINE Left == \E s \in Subsongs : Rewound(s, p') /\ LeftBy(fmt, s, p')
<1>1. HypRewind => Left
  BY DEF HypRewind
<1>2. PsiRewind => Left
  BY DEF PsiRewind
<1>3. FlashRewind => Left
  BY DEF FlashRewind
<1>4. RatRewind => Left
  BY DEF RatRewind
<1>5. HybridRewind => Left
  BY DEF HybridRewind
<1>6. BmfRewind => Left
  BY DEF BmfRewind
<1> QED BY <1>1, <1>2, <1>3, <1>4, <1>5, <1>6 DEF XadRewind

LEMMA TrackerRewinds ==
  TrackerRewind => \E s \in Subsongs : Rewound(s, p') /\ LeftBy(fmt, s, p')
<1> USE DEF MayRewind, Subsongs, Rewound, LeftBy
<1> DEFINE Left == \E s \in Subsongs : Rewound(s, p') /\ LeftBy(fmt, s, p')
<1>1. HscRewind => Left
  BY DEF HscRewind
<1>2. S3mRewind => Left
  BY DEF S3mRewind
<1>3. FmkRewind => Left
  BY DEF FmkRewind
<1> QED BY <1>1, <1>2, <1>3 DEF TrackerRewind

LEMMA StreamRewinds ==
  StreamRewind => \E s \in Subsongs : Rewound(s, p') /\ LeftBy(fmt, s, p')
<1> USE DEF MayRewind, Subsongs, Rewound, LeftBy
<1> DEFINE Left == \E s \in Subsongs : Rewound(s, p') /\ LeftBy(fmt, s, p')
<1>1. SngRewind => Left
  BY DEF SngRewind
<1>2. ImfRewind => Left
  BY DEF ImfRewind
<1>3. DroRewind => Left
  BY DEF DroRewind
<1>4. Dro2Rewind => Left
  BY DEF Dro2Rewind
<1>5. VgmRewind => Left
  BY DEF VgmRewind
<1>6. MscRewind => Left
  BY DEF MscRewind
<1>7. XsmRewind => Left
  BY DEF XsmRewind
<1>8. KsmRewind => Left
  BY DEF KsmRewind
<1>9. BamRewind => Left
  BY DEF BamRewind
<1>10. JbmRewind => Left
  BY DEF JbmRewind
<1>11. MkjRewind => Left
  BY DEF MkjRewind
<1> QED BY <1>1, <1>2, <1>3, <1>4, <1>5, <1>6, <1>7, <1>8, <1>9, <1>10, <1>11 DEF StreamRewind

LEMMA VoiceRewinds ==
  VoiceRewind => \E s \in Subsongs : Rewound(s, p') /\ LeftBy(fmt, s, p')
<1> USE DEF MayRewind, Subsongs, Rewound, LeftBy
<1> DEFINE Left == \E s \in Subsongs : Rewound(s, p') /\ LeftBy(fmt, s, p')
<1>1. D00Rewind => Left
  BY DEF D00Rewind
<1>2. LdsRewind => Left
  BY DEF LdsRewind
<1>3. PlxRewind => Left
  BY DEF PlxRewind
<1>4. SopRewind => Left
  BY DEF SopRewind
<1>5. McsRewind => Left
  BY DEF McsRewind
<1>6. PisRewind => Left
  BY DEF PisRewind
<1>7. WmRewind => Left
  BY DEF WmRewind
<1> QED BY <1>1, <1>2, <1>3, <1>4, <1>5, <1>6, <1>7 DEF VoiceRewind

LEMMA AdlRewinds ==
  AdlRewind => \E s \in Subsongs : Rewound(s, p') /\ LeftBy(fmt, s, p')
BY DEF AdlRewind, MayRewind, Subsongs, Rewound, LeftBy

LEMMA RadRewinds ==
  RadRewind => \E s \in Subsongs : Rewound(s, p') /\ LeftBy(fmt, s, p')
BY DEF RadRewind, MayRewind, Subsongs, Rewound, LeftBy

LEMMA MidiRewinds ==
  MidiRewind => \E s \in Subsongs : Rewound(s, p') /\ LeftBy(fmt, s, p')
<1> USE DEF MayRewind, Subsongs, Rewound, LeftBy
<1> DEFINE Left == \E s \in Subsongs : Rewound(s, p') /\ LeftBy(fmt, s, p')
<1>1. CmfRewind => Left
  BY DEF CmfRewind
<1>2. MidRewind => Left
  BY DEF MidRewind
<1>3. HeradRewind => Left
  BY DEF HeradRewind
<1> QED BY <1>1, <1>2, <1>3 DEF MidiRewind

LEMMA ComposerRewinds ==
  ComposerRewind => \E s \in Subsongs : Rewound(s, p') /\ LeftBy(fmt, s, p')
<1> USE DEF MayRewind, Subsongs, Rewound, LeftBy
<1> DEFINE Left == \E s \in Subsongs : Rewound(s, p') /\ LeftBy(fmt, s, p')
<1>1. RolRewind => Left
  BY DEF RolRewind
<1>2. MusRewind => Left
  BY DEF MusRewind
<1>3. MdiRewind => Left
  BY DEF MdiRewind
<1>4. CoktelRewind => Left
  BY DEF CoktelRewind
<1> QED BY <1>1, <1>2, <1>3, <1>4 DEF ComposerRewind

LEMMA GamesRewinds ==
  GamesRewind => \E s \in Subsongs : Rewound(s, p') /\ LeftBy(fmt, s, p')
<1> USE DEF MayRewind, Subsongs, Rewound, LeftBy
<1> DEFINE Left == \E s \in Subsongs : Rewound(s, p') /\ LeftBy(fmt, s, p')
<1>1. U6mRewind => Left
  BY DEF U6mRewind
<1>2. RixRewind => Left
  BY DEF RixRewind
<1> QED BY <1>1, <1>2 DEF GamesRewind

LEMMA XmiRewinds ==
  XmiRewind => \E s \in Subsongs : Rewound(s, p') /\ LeftBy(fmt, s, p')
BY DEF XmiRewind, MayRewind, Subsongs, Rewound, LeftBy

LEMMA A2mRewinds ==
  A2mRewind => \E s \in Subsongs : Rewound(s, p') /\ LeftBy(fmt, s, p')
BY DEF A2mRewind, MayRewind, Subsongs, Rewound, LeftBy

LEMMA RewindLeaves ==
  Rewind => \E s \in Subsongs : Rewound(s, p') /\ LeftBy(fmt, s, p')
BY XadRewinds, TrackerRewinds, StreamRewinds, VoiceRewinds, AdlRewinds, RadRewinds,
  MidiRewinds, ComposerRewinds, GamesRewinds, XmiRewinds, A2mRewinds DEF Rewind

\* It depends on the song and the fields, and the song stays.
LEMMA LeftByStays ==
  ASSUME song' = song, NEW format, NEW to, NEW r, LeftBy(format, to, r)
  PROVE  LeftBy(format, to, r)'
<1>1. HypFresh' = HypFresh
  BY DEF HypFresh
<1>2. PsiFresh' = PsiFresh
  BY DEF PsiFresh
<1>3. FlashFresh' = FlashFresh
  BY DEF FlashFresh
<1>4. RatFresh' = RatFresh
  BY DEF RatFresh
<1>5. HybridFresh' = HybridFresh
  BY DEF HybridFresh
<1>6. BmfFresh' = BmfFresh
  BY DEF BmfFresh
<1>7. \A q : HscFresh(q)' = HscFresh(q)
  BY DEF HscFresh
<1>8. S3mFresh' = S3mFresh
  BY DEF S3mFresh
<1>9. FmkFresh' = FmkFresh
  BY DEF FmkFresh
<1>10. SngFresh' = SngFresh
  BY DEF SngFresh
<1>11. ImfFresh' = ImfFresh
  BY DEF ImfFresh
<1>12. DroFresh' = DroFresh
  BY DEF DroFresh
<1>13. Dro2Fresh' = Dro2Fresh
  BY DEF Dro2Fresh
<1>14. VgmFresh' = VgmFresh
  BY DEF VgmFresh
<1>15. \A q : MscFresh(q)' = MscFresh(q)
  BY DEF MscFresh
<1>16. XsmFresh' = XsmFresh
  BY DEF XsmFresh
<1>17. \A q : KsmFresh(q)' = KsmFresh(q)
  BY DEF KsmFresh, KsmStart, Entry, KsmVoices
<1>18. BamFresh' = BamFresh
  BY DEF BamFresh, BamLabel, Undefined
<1>19. JbmFresh' = JbmFresh
  BY DEF JbmFresh, JbmVoices
<1>20. MkjFresh' = MkjFresh
  BY DEF MkjFresh, MkjChannels
<1>21. \A s : D00Fresh(s)' = D00Fresh(s)
  BY DEF D00Fresh, D00Voices, D00Speed
<1>22. \A q : LdsFresh(q)' = LdsFresh(q)
  BY DEF LdsFresh, LdsVoices
<1>23. \A q : PlxFresh(q)' = PlxFresh(q)
  BY DEF PlxFresh, PlxVoices
<1>24. SopFresh' = SopFresh
  BY DEF SopFresh, SopTracks
<1>25. McsFresh' = McsFresh
  BY DEF McsFresh, McsRow, McsStart, McsAdvance
<1>26. PisFresh' = PisFresh
  BY DEF PisFresh
<1>27. WmFresh' = WmFresh
  BY DEF WmFresh, WmVoices
<1>28. \A s, q : AdlFresh(s, q)' = AdlFresh(s, q)
  BY DEF AdlFresh
<1>29. \A q : RadFresh(q)' = RadFresh(q)
  BY DEF RadFresh, RadTrack
<1>30. \A q : CmfFresh(q)' = CmfFresh(q)
  BY DEF CmfFresh, CmfRhythmMode
<1>31. \A s : MidFresh(s)' = MidFresh(s)
  BY DEF MidFresh, MidSection, MidStyle, MidSierra, MidInst
<1>32. HeradFresh' = HeradFresh
  BY DEF HeradFresh, HeradTracks
<1>33. \A q : RolFresh(q)' = RolFresh(q)
  BY DEF RolFresh, RolVoices
<1>34. \A q : MusFresh(q)' = MusFresh(q)
  BY DEF MusFresh
<1>35. \A q : MdiFresh(q)' = MdiFresh(q)
  BY DEF MdiFresh, Derived, CmpDefaults, CmpHas, NumMelodic, DefaultTimbre, CmpRhythm,
    CmpFreq, Tomtom, Snare, ComposerReset, Each, MaxVolume, MusReset
<1>36. \A q : CoktelFresh(q)' = CoktelFresh(q)
  BY DEF CoktelFresh, CoktelVoices
<1>37. \A q : U6mFresh(q)' = U6mFresh(q)
  BY DEF U6mFresh, Each
<1>38. \A s : RixFresh(s)' = RixFresh(s)
  <2>1. \A s_ : RixTune(s_)' = RixTune(s_)
    BY DEF RixTune
  <2> QED BY <2>1 DEF RixFresh
<1>39. \A s, q : XmiFresh(s, q)' = XmiFresh(s, q)
  BY DEF XmiFresh, XmiTrack
<1>40. \A q : A2mFresh(q)' = A2mFresh(q)
  BY DEF A2mFresh, A2mTrack, A2mLines, A2mSetOrder, A2mFollow, A2mOrder, A2mMarker,
    A2mStop
<1> QED BY <1>1, <1>2, <1>3, <1>4, <1>5, <1>6, <1>7, <1>8, <1>9, <1>10, <1>11, <1>12,
  <1>13, <1>14, <1>15, <1>16, <1>17, <1>18, <1>19, <1>20, <1>21, <1>22, <1>23, <1>24,
  <1>25, <1>26, <1>27, <1>28, <1>29, <1>30, <1>31, <1>32, <1>33, <1>34, <1>35, <1>36,
  <1>37, <1>38, <1>39, <1>40 DEF LeftBy, ImfFormats

----------------------------------------------------------------------------
(* Two rewinds to the same subsong differ in the fields they leave.        *)

Alike(a, b, K) == DOMAIN a = DOMAIN b /\ \A k \in DOMAIN a \ K : a[k] = b[k]

LEMMA HscAlike ==
  ASSUME NEW a, NEW b
  PROVE  Alike(HscFresh(a), HscFresh(b), Leaves("hsc"))
<1> DEFINE A == HscFresh(a)
           B == HscFresh(b)
<1>1. /\ DOMAIN A = {"row", "order", "break", "speed", "del", "ended", "mode6",
                     "drums", "fadein", "on", "key", "freq"}
      /\ DOMAIN B = DOMAIN A
  BY DEF HscFresh
<1>2. /\ A.row = B.row /\ A.order = B.order /\ A.break = B.break
      /\ A.speed = B.speed /\ A.del = B.del /\ A.ended = B.ended
      /\ A.mode6 = B.mode6 /\ A.drums = B.drums /\ A.fadein = B.fadein
      /\ A.on = B.on
  BY DEF HscFresh
<1>3. Leaves("hsc") = {"key", "freq"}
  BY DEF Leaves
<1> HIDE DEF A, B
<1>4. \A k \in DOMAIN A \ Leaves("hsc") : A[k] = B[k]
  BY <1>1, <1>2, <1>3
<1> QED
  <2>1. Alike(A, B, Leaves("hsc"))
    BY <1>1, <1>4 DEF Alike
  <2> QED BY <2>1 DEF A, B

LEMMA MscAlike ==
  ASSUME NEW a, NEW b
  PROVE  Alike(MscFresh(a), MscFresh(b), Leaves("msc"))
<1> DEFINE A == MscFresh(a)
           B == MscFresh(b)
<1>1. /\ DOMAIN A = {"dec_prefix", "block_num", "block_pos", "raw", "delay", "cmnd",
                     "dec_len", "dec_dist"}
      /\ DOMAIN B = DOMAIN A
  BY DEF MscFresh
<1>2. /\ A.dec_prefix = B.dec_prefix /\ A.block_num = B.block_num /\ A.block_pos = B.block_pos
      /\ A.raw = B.raw /\ A.delay = B.delay /\ A.cmnd = B.cmnd
  BY DEF MscFresh
<1>3. Leaves("msc") = {"dec_len", "dec_dist"}
  BY DEF Leaves
<1> HIDE DEF A, B
<1>4. \A k \in DOMAIN A \ Leaves("msc") : A[k] = B[k]
  BY <1>1, <1>2, <1>3
<1> QED
  <2>1. Alike(A, B, Leaves("msc"))
    BY <1>1, <1>4 DEF Alike
  <2> QED BY <2>1 DEF A, B

LEMMA KsmAlike ==
  ASSUME NEW a, NEW b
  PROVE  Alike(KsmFresh(a), KsmFresh(b), Leaves("ksm"))
<1> DEFINE A == KsmFresh(a)
           B == KsmFresh(b)
<1>1. /\ DOMAIN A = {"count", "countstop", "nownote", "songend", "drums", "freq",
                     "age"}
      /\ DOMAIN B = DOMAIN A
  BY DEF KsmFresh
<1>2. /\ A.count = B.count /\ A.countstop = B.countstop /\ A.nownote = B.nownote
      /\ A.songend = B.songend /\ A.freq = B.freq /\ A.age = B.age
  BY DEF KsmFresh
<1>3. Leaves("ksm") = {"drums"}
  BY DEF Leaves
<1> HIDE DEF A, B
<1>4. \A k \in DOMAIN A \ Leaves("ksm") : A[k] = B[k]
  BY <1>1, <1>2, <1>3
<1> QED
  <2>1. Alike(A, B, Leaves("ksm"))
    BY <1>1, <1>4 DEF Alike
  <2> QED BY <2>1 DEF A, B

LEMMA LdsAlike ==
  ASSUME NEW a, NEW b
  PROVE  Alike(LdsFresh(a), LdsFresh(b), Leaves("lds"))
<1> DEFINE A == LdsFresh(a)
           B == LdsFresh(b)
<1>1. /\ DOMAIN A = {"pace", "tempo_now", "playing", "songlooped", "pattplay",
                     "posplay", "jumppos", "packpos", "packwait", "keycount",
                     "chandelay", "keyoff", "glide", "on"}
      /\ DOMAIN B = DOMAIN A
  BY DEF LdsFresh
<1>2. /\ A.tempo_now = B.tempo_now /\ A.playing = B.playing /\ A.songlooped = B.songlooped
      /\ A.pattplay = B.pattplay /\ A.posplay = B.posplay /\ A.jumppos = B.jumppos
      /\ A.packpos = B.packpos /\ A.packwait = B.packwait /\ A.keycount = B.keycount
      /\ A.chandelay = B.chandelay /\ A.keyoff = B.keyoff /\ A.glide = B.glide
      /\ A.on = B.on
  BY DEF LdsFresh
<1>3. Leaves("lds") = {"pace"}
  BY DEF Leaves
<1> HIDE DEF A, B
<1>4. \A k \in DOMAIN A \ Leaves("lds") : A[k] = B[k]
  BY <1>1, <1>2, <1>3
<1> QED
  <2>1. Alike(A, B, Leaves("lds"))
    BY <1>1, <1>4 DEF Alike
  <2> QED BY <2>1 DEF A, B

LEMMA PlxAlike ==
  ASSUME NEW a, NEW b
  PROVE  Alike(PlxFresh(a), PlxFresh(b), Leaves("plx"))
<1> DEFINE A == PlxFresh(a)
           B == PlxFresh(b)
<1>1. /\ DOMAIN A = {"offset", "pos", "songpos", "rate", "on"}
      /\ DOMAIN B = DOMAIN A
  BY DEF PlxFresh
<1>2. /\ A.offset = B.offset /\ A.pos = B.pos /\ A.songpos = B.songpos
      /\ A.on = B.on
  BY DEF PlxFresh
<1>3. Leaves("plx") = {"rate"}
  BY DEF Leaves
<1> HIDE DEF A, B
<1>4. \A k \in DOMAIN A \ Leaves("plx") : A[k] = B[k]
  BY <1>1, <1>2, <1>3
<1> QED
  <2>1. Alike(A, B, Leaves("plx"))
    BY <1>1, <1>4 DEF Alike
  <2> QED BY <2>1 DEF A, B

LEMMA AdlAlike ==
  ASSUME NEW s, NEW a, NEW b
  PROVE  Alike(AdlFresh(s, a), AdlFresh(s, b), Leaves("adl"))
<1> DEFINE A == AdlFresh(s, a)
           B == AdlFresh(s, b)
<1>1. /\ DOMAIN A = {"ch", "rnd", "programQueue", "programStartTimeout", "reads",
                     "globalTempo", "callbackTimer", "beat", "rhythmBits",
                     "depthBits", "drumLevels", "extraLevel2"}
      /\ DOMAIN B = DOMAIN A
  BY DEF AdlFresh
<1>2. /\ A.ch = B.ch /\ A.rnd = B.rnd /\ A.programQueue = B.programQueue
      /\ A.programStartTimeout = B.programStartTimeout /\ A.reads = B.reads
  BY DEF AdlFresh
<1>3. Leaves("adl") = {"globalTempo", "callbackTimer", "beat", "rhythmBits", "depthBits",
                       "drumLevels", "extraLevel2"}
  BY DEF Leaves
<1> HIDE DEF A, B
<1>4. \A k \in DOMAIN A \ Leaves("adl") : A[k] = B[k]
  BY <1>1, <1>2, <1>3
<1> QED
  <2>1. Alike(A, B, Leaves("adl"))
    BY <1>1, <1>4 DEF Alike
  <2> QED BY <2>1 DEF A, B

LEMMA U6mAlike ==
  ASSUME NEW a, NEW b
  PROVE  Alike(U6mFresh(a), U6mFresh(b), Leaves("u6m"))
<1> DEFINE A == U6mFresh(a)
           B == U6mFresh(b)
<1>1. /\ DOMAIN A = {"instOffsets", "songend", "pos", "loopPos", "delay", "stack",
                     "freq", "slide", "vb", "mf", "timbre"}
      /\ DOMAIN B = DOMAIN A
  BY DEF U6mFresh
<1>2. /\ A.songend = B.songend /\ A.pos = B.pos /\ A.loopPos = B.loopPos
      /\ A.delay = B.delay /\ A.stack = B.stack /\ A.freq = B.freq
      /\ A.slide = B.slide /\ A.vb = B.vb /\ A.mf = B.mf
      /\ A.timbre = B.timbre
  BY DEF U6mFresh
<1>3. Leaves("u6m") = {"instOffsets"}
  BY DEF Leaves
<1> HIDE DEF A, B
<1>4. \A k \in DOMAIN A \ Leaves("u6m") : A[k] = B[k]
  BY <1>1, <1>2, <1>3
<1> QED
  <2>1. Alike(A, B, Leaves("u6m"))
    BY <1>1, <1>4 DEF Alike
  <2> QED BY <2>1 DEF A, B

LEMMA XmiAlike ==
  ASSUME NEW s, NEW a, NEW b
  PROVE  Alike(XmiFresh(s, a), XmiFresh(s, b), Leaves("xmi"))
<1> DEFINE A == XmiFresh(s, a)
           B == XmiFresh(s, b)
<1>1. /\ DOMAIN A = {"vprot", "track", "pos", "interval", "done", "loops", "queue",
                     "slots", "rover", "joined", "chans", "chip"}
      /\ DOMAIN B = DOMAIN A
  BY DEF XmiFresh
<1>2. /\ A.track = B.track /\ A.pos = B.pos /\ A.interval = B.interval
      /\ A.done = B.done /\ A.loops = B.loops /\ A.queue = B.queue
      /\ A.slots = B.slots /\ A.rover = B.rover /\ A.joined = B.joined
      /\ A.chans = B.chans /\ A.chip = B.chip
  BY DEF XmiFresh
<1>3. Leaves("xmi") = {"vprot"}
  BY DEF Leaves
<1> HIDE DEF A, B
<1>4. \A k \in DOMAIN A \ Leaves("xmi") : A[k] = B[k]
  BY <1>1, <1>2, <1>3
<1> QED
  <2>1. Alike(A, B, Leaves("xmi"))
    BY <1>1, <1>4 DEF Alike
  <2> QED BY <2>1 DEF A, B

LEMMA RadAlike ==
  ASSUME NEW a, NEW b
  PROVE  Alike(RadFresh(a), RadFresh(b), Leaves("rad"))
<1> DEFINE A == RadFresh(a)
           B == RadFresh(b)
<1>1. /\ DOMAIN A = {"order", "line", "track", "Speed", "speedCnt", "orderMap",
                     "repeating", "jump", "entrances", "last", "inst", "flags",
                     "riffCnt", "riffs", "busy"}
      /\ DOMAIN B = DOMAIN A
  BY DEF RadFresh, RadTrack
<1>2. /\ A.order = B.order /\ A.line = B.line /\ A.track = B.track
      /\ A.speedCnt = B.speedCnt /\ A.orderMap = B.orderMap /\ A.repeating = B.repeating
      /\ A.jump = B.jump /\ A.entrances = B.entrances /\ A.last = B.last
      /\ A.inst = B.inst /\ A.flags = B.flags /\ A.riffCnt = B.riffCnt
      /\ A.busy = B.busy
  BY DEF RadFresh, RadTrack
<1>3. Leaves("rad") = {"Speed", "riffs"}
  BY DEF Leaves
<1> HIDE DEF A, B
<1>4. \A k \in DOMAIN A \ Leaves("rad") : A[k] = B[k]
  BY <1>1, <1>2, <1>3
<1> QED
  <2>1. Alike(A, B, Leaves("rad"))
    BY <1>1, <1>4 DEF Alike
  <2> QED BY <2>1 DEF A, B

----------------------------------------------------------------------------
(* The players that derive from CcomposerBackend.                          *)

Bends == {"fnumPtr", "oldFNumPtr", "oldBend", "oldHalfTone", "pitchStep", "struck"}
BackendFields ==
  Bends \union {"rhythmMode", "halfTone", "volumeCache", "timbres", "noteCache", "keyOn", "on"}
SameBackend(a, b) == DOMAIN a = BackendFields /\ Alike(a, b, Bends)

\* The reset leaves rhythmMode as well, and every player sets it next.
LEMMA ModeAlike ==
  ASSUME NEW a, NEW b, NEW mode
  PROVE  SameBackend([ComposerReset(a) EXCEPT !.rhythmMode = mode],
                     [ComposerReset(b) EXCEPT !.rhythmMode = mode])
<1> DEFINE A == ComposerReset(a)
           B == ComposerReset(b)
<1>1. DOMAIN A = BackendFields /\ DOMAIN B = BackendFields
  BY DEF ComposerReset, BackendFields, Bends
<1>2. /\ A.halfTone = B.halfTone /\ A.volumeCache = B.volumeCache
      /\ A.timbres = B.timbres /\ A.noteCache = B.noteCache
      /\ A.keyOn = B.keyOn /\ A.on = B.on
  BY DEF ComposerReset
<1> HIDE DEF A, B
<1>3. \A k \in DOMAIN A \ (Bends \union {"rhythmMode"}) : A[k] = B[k]
  BY <1>1, <1>2 DEF BackendFields
<1>4. SameBackend([A EXCEPT !.rhythmMode = mode], [B EXCEPT !.rhythmMode = mode])
  BY <1>1, <1>3 DEF Alike, SameBackend
<1> QED BY <1>4 DEF A, B

LEMMA FreqAlike ==
  ASSUME NEW a, NEW b, SameBackend(a, b), NEW v, NEW key, NEW keyed
  PROVE  SameBackend(CmpFreq(a, v, key, keyed), CmpFreq(b, v, key, keyed))
BY DEF SameBackend, Alike, CmpFreq, BackendFields, Bends

LEMMA RhythmAlike ==
  ASSUME NEW a, NEW b, NEW mode
  PROVE  SameBackend(CmpRhythm(ComposerReset(a), mode), CmpRhythm(ComposerReset(b), mode))
BY ModeAlike, FreqAlike DEF CmpRhythm

LEMMA RangeAlike ==
  ASSUME NEW a, NEW b, SameBackend(a, b), NEW range
  PROVE  SameBackend(CmpPitchRange(a, range), CmpPitchRange(b, range))
BY DEF SameBackend, Alike, CmpPitchRange, BackendFields, Bends

LEMMA DefaultsAlike ==
  ASSUME NEW a, NEW b, SameBackend(a, b)
  PROVE  SameBackend(CmpDefaults(a), CmpDefaults(b))
<1>1. a.rhythmMode = b.rhythmMode /\ a.timbres = b.timbres
  BY DEF SameBackend, Alike, BackendFields, Bends
<1>2. \A v : CmpHas(a, v) <=> CmpHas(b, v)
  BY <1>1 DEF CmpHas
<1> QED BY <1>1, <1>2 DEF SameBackend, Alike, CmpDefaults, BackendFields, Bends

LEMMA DerivedAlike ==
  ASSUME NEW a, NEW b, SameBackend(a, b), NEW player
  PROVE  Alike(Derived(a, player), Derived(b, player), Bends)
BY DEF Derived, SameBackend, Alike

LEMMA RolAlike ==
  ASSUME NEW a, NEW b
  PROVE  Alike(RolFresh(a), RolFresh(b), Leaves("rol"))
<1>1. Leaves("rol") = Bends
  BY DEF Leaves, Bends
<1> QED BY <1>1, RhythmAlike, DerivedAlike DEF RolFresh

LEMMA MusAlike ==
  ASSUME NEW a, NEW b
  PROVE  Alike(MusFresh(a), MusFresh(b), Leaves("mus"))
<1>1. Leaves("mus") = Bends
  BY DEF Leaves, Bends
<1> QED BY <1>1, RhythmAlike, RangeAlike, DefaultsAlike, DerivedAlike DEF MusFresh

LEMMA MdiAlike ==
  ASSUME NEW a, NEW b
  PROVE  Alike(MdiFresh(a), MdiFresh(b), Leaves("mdi"))
<1>1. Leaves("mdi") = Bends
  BY DEF Leaves, Bends
<1> QED BY <1>1, RhythmAlike, DefaultsAlike, DerivedAlike DEF MdiFresh

LEMMA CoktelAlike ==
  ASSUME NEW a, NEW b
  PROVE  Alike(CoktelFresh(a), CoktelFresh(b), Leaves("coktel"))
<1>1. Leaves("coktel") = Bends
  BY DEF Leaves, Bends
<1> DEFINE Emptied(q) ==
      [q EXCEPT !.timbres = [v \in ComposerVoices |-> IF v \in CoktelVoices THEN <<0, {}>> ELSE @[v]]]
<1>2. ASSUME NEW q, NEW r, SameBackend(q, r)
      PROVE  SameBackend(Emptied(q), Emptied(r))
  BY <1>2 DEF SameBackend, Alike, BackendFields, Bends
<1> HIDE DEF Emptied
<1>3. SameBackend(Emptied(CmpRhythm(ComposerReset(a), song.rhythm)),
                  Emptied(CmpRhythm(ComposerReset(b), song.rhythm)))
  BY <1>2, RhythmAlike
<1> QED BY <1>1, <1>3, DerivedAlike DEF CoktelFresh, Emptied

----------------------------------------------------------------------------
(* rewind() sets the mode of a song of General MIDI drums only.            *)

CmfFields ==
  {"percussive", "at", "songend", "delay", "count", "start", "held", "owner", "timbre",
   "patch", "bend", "transpose", "bd", "now", "fix", "on"}

LEMMA CmfModeAlike ==
  ASSUME NEW a, NEW b, NEW mode, DOMAIN a = CmfFields, Alike(a, b, {"percussive"})
  PROVE  Alike(CmfRhythmMode(a, mode), CmfRhythmMode(b, mode), {"percussive"})
BY DEF Alike, CmfRhythmMode, CmfFree, CmfFields

LEMMA CmfAlike ==
  ASSUME NEW a, NEW b
  PROVE  Alike(CmfFresh(a), CmfFresh(b), Leaves("cmf"))
<1> DEFINE First(q) ==
      [percussive |-> q.percussive, at |-> 1, songend |-> FALSE, delay |-> song.first,
       count |-> 0, start |-> Each(MidiVoices, 0), held |-> Each(MidiVoices, Nobody),
       owner |-> Each(MidiVoices, Nobody), timbre |-> Each(MidiVoices, Nobody),
       patch |-> Each(MidiChannels, 0), bend |-> Each(MidiChannels, 64),
       transpose |-> Each(MidiChannels, 0),
       bd |-> [rhythm |-> FALSE, depth |-> 0, drums |-> {}],
       now |-> Each(MidiChannels, 255), fix |-> {}, on |-> {}]
           A == First(a)
           B == First(b)
<1>1. DOMAIN A = CmfFields /\ DOMAIN B = CmfFields
  BY DEF CmfFields
<1>2. /\ A.at = B.at /\ A.songend = B.songend /\ A.delay = B.delay /\ A.count = B.count
      /\ A.start = B.start /\ A.held = B.held /\ A.owner = B.owner /\ A.timbre = B.timbre
      /\ A.patch = B.patch /\ A.bend = B.bend /\ A.transpose = B.transpose
      /\ A.bd = B.bd /\ A.now = B.now /\ A.fix = B.fix /\ A.on = B.on
  OBVIOUS
<1>3. CmfFresh(a) = (IF CmfMidiDrums(song.events) THEN CmfRhythmMode(A, TRUE) ELSE A)
  BY DEF CmfFresh
<1>4. CmfFresh(b) = (IF CmfMidiDrums(song.events) THEN CmfRhythmMode(B, TRUE) ELSE B)
  BY DEF CmfFresh
<1> HIDE DEF A, B
<1>5. \A k \in DOMAIN A \ {"percussive"} : A[k] = B[k]
  BY <1>1, <1>2 DEF CmfFields
<1>6. Alike(A, B, {"percussive"})
  BY <1>1, <1>5 DEF Alike
<1>7. Leaves("cmf") = {"percussive"}
  BY DEF Leaves
<1> QED BY <1>1, <1>3, <1>4, <1>6, <1>7, CmfModeAlike

----------------------------------------------------------------------------
(* Markers that lead around stop the player, which clears the locks.       *)

A2mFields ==
  {"locks", "songend", "order", "pattern", "line", "next", "break", "delay", "tickD", "ticks",
   "irq", "looper", "macroLooper", "speed", "tempo", "ch"}
SameA2m(a, b) == DOMAIN a = A2mFields /\ Alike(a, b, {"locks"})

LEMMA A2mOrderAlike ==
  ASSUME NEW a, NEW b, SameA2m(a, b), NEW order
  PROVE  SameA2m(A2mSetOrder(a, order), A2mSetOrder(b, order))
<1> DEFINE f == A2mFollow(IF order < 128 THEN order ELSE 0)
<1> HIDE DEF f
<1>1. ASSUME NEW q, NEW r, SameA2m(q, r)
      PROVE  /\ SameA2m([q EXCEPT !.songend = @ \/ f.back], [r EXCEPT !.songend = @ \/ f.back])
             /\ SameA2m([q EXCEPT !.order = f.found], [r EXCEPT !.order = f.found])
  BY <1>1 DEF SameA2m, Alike, A2mFields
<1>2. ASSUME NEW q, NEW r, SameA2m(q, r)
      PROVE  SameA2m(A2mStop(q), A2mStop(r))
  BY <1>2 DEF SameA2m, Alike, A2mFields, A2mStop
<1> DEFINE Looked(q) == [q EXCEPT !.songend = @ \/ f.back]
<1>3. SameA2m(Looked(a), Looked(b))
  BY <1>1
<1>4. \A q : A2mSetOrder(q, order) =
             IF f.found = -1 THEN A2mStop(Looked(q)) ELSE [Looked(q) EXCEPT !.order = f.found]
  BY DEF A2mSetOrder, f
<1>5. /\ SameA2m(A2mStop(Looked(a)), A2mStop(Looked(b)))
      /\ SameA2m([Looked(a) EXCEPT !.order = f.found], [Looked(b) EXCEPT !.order = f.found])
  <2> HIDE DEF Looked
  <2> QED BY <1>1, <1>2, <1>3
<1> HIDE DEF Looked
<1>6. CASE f.found = -1
  <2>1. /\ A2mSetOrder(a, order) = A2mStop(Looked(a))
        /\ A2mSetOrder(b, order) = A2mStop(Looked(b))
    BY <1>4, <1>6
  <2> QED BY <1>5, <2>1
<1>7. CASE f.found # -1
  <2>1. /\ A2mSetOrder(a, order) = [Looked(a) EXCEPT !.order = f.found]
        /\ A2mSetOrder(b, order) = [Looked(b) EXCEPT !.order = f.found]
    BY <1>4, <1>7
  <2> QED BY <1>5, <2>1
<1> QED BY <1>6, <1>7

LEMMA A2mAlike ==
  ASSUME NEW a, NEW b
  PROVE  Alike(A2mFresh(a), A2mFresh(b), Leaves("a2m"))
<1> DEFINE tracks == [c \in song.tracks |->
                 [A2mTrack(c + 1) EXCEPT !.note = IF c \in {16, 17} THEN KeyOffFlag ELSE 0]]
           First(q) ==
             [locks |-> q.locks, songend |-> FALSE, order |-> 0, pattern |-> 0, line |-> 0,
              next |-> 0, break |-> FALSE, delay |-> FALSE, tickD |-> 0, ticks |-> 0,
              irq |-> TRUE, looper |-> 0, macroLooper |-> 0, speed |-> song.speed,
              tempo |-> song.tempo, ch |-> tracks]
           A == First(a)
           B == First(b)
           Ready(r) == IF r.irq THEN [r EXCEPT !.pattern = A2mOrder(r.order)] ELSE r
<1> HIDE DEF tracks
<1>1. DOMAIN A = A2mFields /\ DOMAIN B = A2mFields
  BY DEF A2mFields
<1>2. /\ A.songend = B.songend /\ A.order = B.order /\ A.pattern = B.pattern
      /\ A.line = B.line /\ A.next = B.next /\ A.break = B.break /\ A.delay = B.delay
      /\ A.tickD = B.tickD /\ A.ticks = B.ticks /\ A.irq = B.irq /\ A.looper = B.looper
      /\ A.macroLooper = B.macroLooper /\ A.speed = B.speed /\ A.tempo = B.tempo
      /\ A.ch = B.ch
  OBVIOUS
<1>3. /\ A2mFresh(a) = Ready(A2mSetOrder(A, 0))
      /\ A2mFresh(b) = Ready(A2mSetOrder(B, 0))
  BY DEF A2mFresh, tracks
<1> HIDE DEF A, B
<1>4. \A k \in DOMAIN A \ {"locks"} : A[k] = B[k]
  BY <1>1, <1>2 DEF A2mFields
<1>5. SameA2m(A, B)
  BY <1>1, <1>4 DEF Alike, SameA2m
<1>6. ASSUME NEW q, NEW r, SameA2m(q, r)
      PROVE  Alike(Ready(q), Ready(r), {"locks"})
  BY <1>6 DEF SameA2m, Alike, A2mFields
<1> HIDE DEF Ready
<1>7. Leaves("a2m") = {"locks"}
  BY DEF Leaves
<1> QED BY <1>3, <1>5, <1>6, <1>7, A2mOrderAlike


----------------------------------------------------------------------------
(* The other formats set every field.                                      *)

LeavesNothing == ImfFormats \union {"hyp", "psi", "flash", "rat", "hybrid", "bmf",
  "s3m", "fmk", "sng", "dro", "dro2", "vgm", "xsm", "bam", "jbm", "mkj", "d00", "sop",
  "cmfmcsop", "pis", "wm", "mid", "herad", "rix"}

LEMMA NothingLeft ==
  ASSUME NEW format \in LeavesNothing, NEW s, NEW a, NEW b,
         LeftBy(format, s, a), LeftBy(format, s, b)
  PROVE  a = b
BY DEF LeftBy, ImfFormats, LeavesNothing

LEMMA LeftAlike ==
  ASSUME NEW format, NEW s, NEW a, NEW b, LeftBy(format, s, a), LeftBy(format, s, b)
  PROVE  Alike(a, b, Leaves(format))
<1>1. CASE format = "hsc"
  <2>1. (\E q : a = HscFresh(q)) /\ (\E q : b = HscFresh(q))
    BY <1>1 DEF LeftBy, ImfFormats
  <2> QED BY <1>1, <2>1, HscAlike
<1>2. CASE format = "msc"
  <2>1. (\E q : a = MscFresh(q)) /\ (\E q : b = MscFresh(q))
    BY <1>2 DEF LeftBy, ImfFormats
  <2> QED BY <1>2, <2>1, MscAlike
<1>3. CASE format = "ksm"
  <2>1. (\E q : a = KsmFresh(q)) /\ (\E q : b = KsmFresh(q))
    BY <1>3 DEF LeftBy, ImfFormats
  <2> QED BY <1>3, <2>1, KsmAlike
<1>4. CASE format = "lds"
  <2>1. (\E q : a = LdsFresh(q)) /\ (\E q : b = LdsFresh(q))
    BY <1>4 DEF LeftBy, ImfFormats
  <2> QED BY <1>4, <2>1, LdsAlike
<1>5. CASE format = "plx"
  <2>1. (\E q : a = PlxFresh(q)) /\ (\E q : b = PlxFresh(q))
    BY <1>5 DEF LeftBy, ImfFormats
  <2> QED BY <1>5, <2>1, PlxAlike
<1>6. CASE format = "adl"
  <2>1. (\E q : a = AdlFresh(s, q)) /\ (\E q : b = AdlFresh(s, q))
    BY <1>6 DEF LeftBy, ImfFormats
  <2> QED BY <1>6, <2>1, AdlAlike
<1>7. CASE format = "rad"
  <2>1. (\E q : a = RadFresh(q)) /\ (\E q : b = RadFresh(q))
    BY <1>7 DEF LeftBy, ImfFormats
  <2> QED BY <1>7, <2>1, RadAlike
<1>8. CASE format = "cmf"
  <2>1. (\E q : a = CmfFresh(q)) /\ (\E q : b = CmfFresh(q))
    BY <1>8 DEF LeftBy, ImfFormats
  <2> QED BY <1>8, <2>1, CmfAlike
<1>9. CASE format = "rol"
  <2>1. (\E q : a = RolFresh(q)) /\ (\E q : b = RolFresh(q))
    BY <1>9 DEF LeftBy, ImfFormats
  <2> QED BY <1>9, <2>1, RolAlike
<1>10. CASE format = "mus"
  <2>1. (\E q : a = MusFresh(q)) /\ (\E q : b = MusFresh(q))
    BY <1>10 DEF LeftBy, ImfFormats
  <2> QED BY <1>10, <2>1, MusAlike
<1>11. CASE format = "mdi"
  <2>1. (\E q : a = MdiFresh(q)) /\ (\E q : b = MdiFresh(q))
    BY <1>11 DEF LeftBy, ImfFormats
  <2> QED BY <1>11, <2>1, MdiAlike
<1>12. CASE format = "coktel"
  <2>1. (\E q : a = CoktelFresh(q)) /\ (\E q : b = CoktelFresh(q))
    BY <1>12 DEF LeftBy, ImfFormats
  <2> QED BY <1>12, <2>1, CoktelAlike
<1>13. CASE format = "u6m"
  <2>1. (\E q : a = U6mFresh(q)) /\ (\E q : b = U6mFresh(q))
    BY <1>13 DEF LeftBy, ImfFormats
  <2> QED BY <1>13, <2>1, U6mAlike
<1>14. CASE format = "xmi"
  <2>1. (\E q : a = XmiFresh(s, q)) /\ (\E q : b = XmiFresh(s, q))
    BY <1>14 DEF LeftBy, ImfFormats
  <2> QED BY <1>14, <2>1, XmiAlike
<1>15. CASE format = "a2m"
  <2>1. (\E q : a = A2mFresh(q)) /\ (\E q : b = A2mFresh(q))
    BY <1>15 DEF LeftBy, ImfFormats
  <2> QED BY <1>15, <2>1, A2mAlike
<1>16. CASE format \in LeavesNothing
  BY <1>16, NothingLeft DEF Alike
<1>17. format \in LeavesNothing \union {"hsc", "msc", "ksm", "lds", "plx", "adl",
        "rad", "cmf", "rol", "mus", "mdi", "coktel", "u6m", "xmi", "a2m"}
  BY DEF LeftBy, LeavesNothing
<1> QED BY <1>1, <1>2, <1>3, <1>4, <1>5, <1>6, <1>7, <1>8, <1>9, <1>10, <1>11, <1>12,
  <1>13, <1>14, <1>15, <1>16, <1>17

----------------------------------------------------------------------------
(* The theorems.                                                           *)

\* The format is one that load() may choose, and what the first rewind() to a
\* subsong left is remembered.
Remembered ==
  /\ fmt \in DOMAIN Songs
  /\ DOMAIN fresh = Subsongs
  /\ \A s \in Subsongs : fresh[s] = Unset \/ LeftBy(fmt, s, fresh[s])

LEMMA InitRemembered == Init => Remembered
BY DEF Init, Loaded, Remembered

\* A step of a frontend is a rewind or a step of an update().
LEMMA StepCases ==
  ASSUME [Next]_vars
  PROVE  \/ Steady
         \/ \E s \in Subsongs : Rewound(s, p') /\ LeftBy(fmt, s, p')
<1>1. CASE Rewind
  BY <1>1, RewindLeaves
<1>2. CASE Update
  BY <1>2, UpdateSteady
<1>3. CASE UNCHANGED vars
  BY <1>3 DEF vars, Steady
<1> QED BY <1>1, <1>2, <1>3 DEF Next

LEMMA StepRemembers == Remembered /\ [Next]_vars => Remembered'
<1> SUFFICES ASSUME Remembered, [Next]_vars
             PROVE  Remembered'
  OBVIOUS
<1>1. CASE Steady
  <2>1. UNCHANGED <<fmt, song, fresh>>
    BY <1>1 DEF Steady
  <2> QED BY <2>1, LeftByStays DEF Remembered
<1>2. ASSUME NEW s \in Subsongs, Rewound(s, p'), LeftBy(fmt, s, p')
      PROVE  Remembered'
  <2>1. UNCHANGED <<fmt, song>>
    BY <1>2 DEF Rewound, client
  <2>2. fresh' = IF fresh[s] = Unset THEN [fresh EXCEPT ![s] = p'] ELSE fresh
    BY <1>2 DEF Rewound
  <2>3. fmt' \in DOMAIN Songs /\ DOMAIN fresh' = Subsongs
    BY <2>1, <2>2 DEF Remembered
  <2>4. ASSUME NEW t \in Subsongs
        PROVE  fresh'[t] = Unset \/ LeftBy(fmt, t, fresh'[t])
    BY <1>2, <2>2 DEF Remembered
  <2> QED BY <2>1, <2>3, <2>4, LeftByStays DEF Remembered
<1> QED BY <1>1, <1>2, StepCases

\* rewind() leaves the replayer as the first rewind() to that subsong did,
\* in every field but those listed in Kept, whatever the song and whatever
\* was played: the rewind() of each format resets what its update() changes.
THEOREM RewindsRestore == Spec => RewindRestores
<1>1. ASSUME Remembered, [Next]_vars
      PROVE  [plays' # plays =>
               \A f \in DOMAIN p' \ Kept[fmt] : p'[f] = fresh'[sub'][f]]_vars
  <2>1. CASE Steady
    BY <2>1 DEF Steady
  <2>2. ASSUME NEW s \in Subsongs, Rewound(s, p'), LeftBy(fmt, s, p'),
               NEW f \in DOMAIN p' \ Kept[fmt]
        PROVE  p'[f] = fresh'[sub'][f]
    <3>1. fresh' = (IF fresh[s] = Unset THEN [fresh EXCEPT ![s] = p'] ELSE fresh) /\ sub' = s
      BY <2>2 DEF Rewound
    <3>2. CASE fresh[s] = Unset
      BY <1>1, <3>1, <3>2 DEF Remembered
    <3>3. CASE fresh[s] # Unset
      <4>1. Alike(p', fresh[s], Leaves(fmt))
        BY <1>1, <2>2, <3>3, LeftAlike DEF Remembered
      <4>2. Leaves(fmt) \subseteq Kept[fmt]
        BY <1>1, KeptAssumption DEF Remembered
      <4> QED BY <2>2, <3>1, <3>3, <4>1, <4>2 DEF Alike
    <3> QED BY <3>2, <3>3
  <2> QED BY <1>1, <2>1, <2>2, StepCases
<1> QED BY <1>1, InitRemembered, StepRemembers, PTL DEF Spec, RewindRestores
==============================================================================
