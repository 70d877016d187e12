----------------------------- MODULE LoadPaths -----------------------------
(***************************************************************************)
(* What every CPlayer::load() does with files, memory and rewind(), as the *)
(* set of its paths.  A path is the sequence of the steps that matter to   *)
(* the object's owner; a step that may refuse the file names what load()   *)
(* gives back before it returns FALSE.  The data read in between decides   *)
(* which path is taken and where it is refused, and is left out.           *)
(***************************************************************************)
EXTENDS Sequences, FiniteSets

Step(does, thing, gives) == [does |-> does, thing |-> thing, gives |-> gives]

\* fp.open(), which may find no file: load() then gives back c.
OpensOr(x, c) == Step("open", x, c)
Opens == OpensOr("f", {})
\* new, malloc() or an fp.open() known to succeed on this path
Takes(x) == Step("take", x, {})
\* delete, free() or fp.close()
Gives(x) == Step("give", x, {x})
\* load() may find the data wrong.
Checks(c) == Step("check", "data", c)
\* load() refuses a file whose extension is not in names.
Named(names, c) == [Step("name", "name", c) EXCEPT !.thing = names]
Rewinds == Step("rewind", "song", {})

F == {"f"}
Closes == Gives("f")

\* A load with these paths, of an object whose destructor frees these members.
Loader(paths, members) == [paths |-> paths, frees |-> members]

Maybe(path) == {<<>>, path}

----------------------------------------------------------------------------
(* The loaders of trackers played by CmodPlayer, which keeps the patterns. *)

A2mSections ==
  {<<Takes("org"), Takes("secdata"), Gives("secdata"), Checks({"org", "f"}), Gives("org")>>,
   <<Takes("org"), Checks({"org", "f"}), Gives("org")>>}
A2mLoad ==
  Loader({<<Opens, Checks(F)>> \o s \o s \o <<Closes, Rewinds>> : s \in A2mSections}, {})

AdtrackLoad ==
  Loader({<<Opens, Named({"sng"}, F), Checks(F), OpensOr("instf", F),
            Checks({"instf", "f"}), Gives("instf"), Checks(F), Closes, Rewinds>>}, {})

\* Faulty variant: the song is not rewound.
AmdLoadUnready == Loader({<<Opens, Checks(F), Closes>>}, {})
AmdLoad == Loader({<<Opens, Checks(F), Closes, Rewinds>>}, {})

CffModule(module) == <<Checks({module}), Gives(module), Checks({}), Rewinds>>
CffLoad ==
  Loader({<<Opens, Checks(F), Takes("module"), Closes>> \o CffModule("module"),
          <<Opens, Checks(F), Takes("packed_module"), Closes, Takes("module"),
            Takes("unpacker"), Gives("unpacker"), Gives("packed_module")>>
            \o CffModule("module")}, {})

DfmLoad == Loader({<<Opens, Checks(F), Closes, Rewinds>>}, {})
DtmLoad == Loader({<<Opens, Checks(F), Closes, Checks({}), Rewinds>>}, {})
FmcLoad == Loader({<<Opens, Checks(F), Closes, Checks({}), Rewinds>>}, {})
MadLoad == Loader({<<Opens, Checks(F), Closes, Rewinds>>}, {})
MtrLoad == Loader({<<Opens, Checks(F), Closes, Rewinds>>}, {})

\* Faulty variant: a wrong header leaves the file open.
Sa2LoadOpen == Loader({<<Opens, Checks({}), Closes, Rewinds>>}, {})
Sa2Load == Loader({<<Opens, Checks(F), Closes, Rewinds>>}, {})

----------------------------------------------------------------------------
(* The loaders derived from other players. *)

\* Faulty variant: the packed data, given back already, is given back again with the rest.
HspLoadTwice ==
  Loader({<<Opens, Named({"hsp"}, F), Checks(F), Takes("cmp"), Closes,
            Takes("org"), Gives("cmp"), Checks({"org", "cmp"}), Gives("org"), Rewinds>>}, {})

HspLoad ==
  Loader({<<Opens, Named({"hsp"}, F), Checks(F), Takes("cmp"), Closes,
            Takes("org"), Gives("cmp"), Checks({"org"}), Gives("org"), Rewinds>>}, {})

MtkLoad ==
  Loader({<<Opens, Checks(F), Takes("org"), Checks({"f", "org"}), Closes,
            Gives("org"), Rewinds>>}, {})

DmoLoad ==
  Loader({<<Opens, Checks(F), Takes("packed_module"), Closes, Takes("module"),
            Checks({"packed_module", "module"}), Gives("packed_module"),
            Checks({"module"}), Gives("module"), Rewinds>>}, {})

\* CxadPlayer::load(); checks is xadplayer_load() of the format.
XadLoad(checks) ==
  Loader({<<Opens, Checks(F), Takes("tune"), Closes>> \o checks \o <<Rewinds>>}, {"tune"})
BmfLoad == XadLoad(<<Checks({})>>)
FlashLoad == XadLoad(<<Checks({})>>)
HybridLoad == XadLoad(<<Checks({})>>)
HypLoad == XadLoad(<<Checks({})>>)
PsiLoad == XadLoad(<<Checks({})>>)
RatLoad == XadLoad(<<Checks({})>>)

----------------------------------------------------------------------------
(* The other trackers. *)

\* A file that does not open fails the same test as one that is wrong.
HscLoad == Loader({<<Opens, Named({"hsc"}, F), Checks(F), Closes, Rewinds>>}, {})

S3mLoad == Loader({<<Opens, Checks(F), Closes, Rewinds>>}, {})

\* Versions 0 and 1 have no mark and are known by their name.
D00Old ==
  <<Opens, Takes("checkhead"), Gives("checkhead"), Named({"d00"}, F), Takes("ch"),
    Checks({"ch", "f"}), Gives("ch")>>
D00New == <<Opens, Takes("checkhead"), Gives("checkhead")>>
D00Load ==
  Loader({head \o <<Takes("filedata"), Closes, Checks({}), Rewinds>> :
            head \in {D00Old, D00New}}, {"filedata"})

LdsLoad ==
  Loader({<<Named({"lds", "ld0"}, {}), Opens, Checks(F), Takes("soundbank"),
            Takes("positions"), Takes("patterns"), Closes, Rewinds>>},
         {"soundbank", "positions", "patterns"})

PlxLoad ==
  Loader({<<Opens, Checks(F), Takes("songdata"), Takes("song"), Closes, Rewinds>>},
         {"songdata", "song"})

PisLoad == Loader({<<Opens, Named({"pis"}, F), Closes, Rewinds>>}, {})

\* RADValidate() refuses a tune, or Init() leaves it no timer; it is Init()
\* that makes it ready, and newdata becomes data.
Rad2Load ==
  Loader({<<Opens, Checks(F), Takes("newdata"), Closes, Checks({"newdata"})>>}, {"newdata"})

A2mv2Load ==
  Loader({<<Opens, Named({"a2m", "a2t"}, F), Takes("tune"), Closes, Gives("tune"),
            Checks({}), Rewinds>>}, {})

FmkLoad ==
  Loader({<<Opens, Named({"fmk"}, F), Checks(F), Takes("m_data"), Closes,
            Checks({"m_data"}), Rewinds>>}, {"m_data"})

WmLoad ==
  Loader({<<Opens, Checks(F), Takes("data"), Checks({"f", "data"}), Closes>> \o insts
            \o <<Takes("work"), Rewinds>> : insts \in Maybe(<<Takes("insts")>>)},
         {"data", "insts", "work"})

SopLoad ==
  Loader({<<Opens, Named({"sop"}, F), Checks(F), Takes("chanMode"), Takes("inst"),
            Checks(F), Takes("track"), Checks(F), Closes, Takes("drv"), Rewinds>>},
         {"chanMode", "inst", "track", "drv"})

\* binistream_closer closes the file wherever load() is left.
CmfmcsopLoad ==
  Loader({<<Named({"cmf"}, {}), Opens, Checks(F), Rewinds, Closes>>}, {})

----------------------------------------------------------------------------
(* Streams of events. *)

SngLoad == Loader({<<Opens, Checks(F), Takes("data"), Rewinds, Closes>>}, {"data"})

\* A file without the header of Apogee's format is known by its name; what
\* follows the music is a footer, which Muse's own replaces by two strings.
ImfNoHeader == Named({"imf", "wlf"}, F)
ImfPaths(head) ==
  {<<Opens>> \o head \o <<Checks(F), Takes("data")>> \o foot \o <<Closes, Rewinds>> :
     foot \in Maybe(<<Takes("footer")>>) \union {<<Takes("footer"), Gives("footer")>>}}
ImfLoad ==
  Loader(UNION {ImfPaths(head) : head \in Maybe(<<ImfNoHeader>>)}, {"data", "footer"})

BamLoad == Loader({<<Opens, Checks(F), Takes("song"), Closes, Rewinds>>}, {"song"})
RawLoad == Loader({<<Opens, Checks(F), Takes("data"), Closes, Rewinds>>}, {"data"})
XsmLoad == Loader({<<Opens, Checks(F), Takes("music"), Closes, Rewinds>>}, {"music"})
DroLoad == Loader({<<Opens, Checks(F), Takes("data"), Closes, Rewinds>>}, {"data"})

Dro2Load ==
  Loader({<<Opens, Checks(F), Takes("piConvTable"), Takes("data"), Closes, Rewinds>>},
         {"piConvTable", "data"})

MscLoad ==
  Loader({<<Opens, Checks(F), Takes("msc_data"), Takes("raw_data"), Closes, Rewinds>>},
         {"msc_data", "raw_data"})

RixLoad ==
  Loader({<<Opens, Checks(F), Takes("file_buffer"), Closes, Rewinds>>}, {"file_buffer"})

GotLoad ==
  Loader({<<Opens, Named({"got"}, F), Checks(F), Takes("data"), Closes, Rewinds>>}, {"data"})

JbmLoad ==
  Loader({<<Opens, Named({"jbm"}, F), Checks(F), Takes("m"), Checks(F), Closes,
            Checks({}), Takes("sequences"), Rewinds>>}, {"m", "sequences"})

MkjLoad ==
  Loader({<<Opens, Checks(F), Takes("songbuf"), Checks(F), Closes, Rewinds>>}, {"songbuf"})

\* The instruments come from insts.dat beside the song, read first.
KsmLoad ==
  Loader({<<Takes("fn"), Named({"ksm"}, {"fn"}), OpensOr("f", {"fn"}), Gives("fn"), Closes,
            Opens, Takes("note"), Closes, Rewinds>>}, {"note"})

U6mLoad ==
  Loader({<<Opens, Checks(F), Takes("song_data"), Takes("compressed_song_data"), Closes,
            Checks({"compressed_song_data"}), Gives("compressed_song_data"), Rewinds>>},
         {"song_data"})

\* A gzipped file is unpacked into a second buffer.
VgmGzip ==
  <<Checks({"buf"}), Takes("decomp"), Gives("buf"), Checks({"decomp"})>>
VgmTune(buf) == <<Checks({buf}), Takes("vgmData"), Gives(buf), Rewinds>>
VgmHead ==
  <<Opens, Named({"vgm", "vgz"}, F), Checks(F), Takes("buf"), Closes>>
VgmLoad ==
  Loader({VgmHead \o VgmTune("buf"), VgmHead \o VgmGzip \o VgmTune("decomp")}, {"vgmData"})

----------------------------------------------------------------------------
(* MIDI and its relatives. *)

CmfLoad ==
  Loader({<<Opens, Checks(F), Takes("pInstruments"), Checks(F), Takes("data"), Closes,
            Rewinds>>}, {"pInstruments", "data"})

CoktelLoad ==
  Loader({<<Opens, Named({"adl"}, F), Checks(F), Takes("insts"), Takes("data"), Closes,
            Rewinds>>}, {"insts", "data"})

MdiLoad ==
  Loader({<<Opens, Named({"mdi"}, F), Checks(F), Takes("data"), Closes, Rewinds>>}, {"data"})

\* A Sierra song needs its patch file, which load_sierra_ins() looks for.
MidSierra ==
  <<Takes("pfilename"), OpensOr("bank", {"pfilename", "f"}), Gives("pfilename"), Gives("bank")>>
MidLoad ==
  Loader({<<Opens>> \o head \o <<Takes("data"), Closes, Rewinds>> :
            head \in {<<Checks(F)>>, MidSierra}}, {"data"})

\* Timbres come with the song, or from a bank of one of several names, which
\* may be missing or wrong: LoadTimbreBank() and FetchTimbreData().
MusTimbreBank ==
  {<<>>, <<Takes("bank"), Gives("bank")>>,
   <<Takes("bank"), Takes("insts"), Gives("bank")>>}
MusBnk == Maybe(<<Takes("bank"), Gives("bank")>>)
MusLoad ==
  Loader({<<Opens, Named({"mus", "mdy", "ims"}, F), Checks(F), Takes("data")>> \o timbres
            \o <<Rewinds>> :
            timbres \in {<<Closes>> \o b : b \in MusTimbreBank}
                        \union {<<Takes("insts"), Closes>> \o b : b \in MusBnk}},
         {"data", "insts"})

\* Every spelling of the bank's name is probed; the last guess is opened.
RolVoices == <<OpensOr("bnk_file", F), Gives("bnk_file")>>
RolLoad ==
  Loader({<<Opens, Takes("fn")>> \o probe \o <<Gives("fn"), Takes("mpROLHeader"), Checks(F)>>
            \o RolVoices \o <<Closes, Rewinds>> :
            probe \in Maybe(<<Takes("probe"), Gives("probe")>>)}, {"mpROLHeader"})

XmiStrings == UNION {{t, t \o <<Takes("author_str")>>} : t \in Maybe(<<Takes("title_str")>>)}
XmiBank ==
  {<<>>, <<Takes("bf"), Gives("bf")>>, <<Takes("bf"), Takes("ext_bank_data"), Gives("bf")>>}
XmiPaths(s) ==
  {<<Opens, Checks(F), Takes("xmi_data"), Closes, Checks({"xmi_data"})>> \o s \o b
     \o <<Rewinds>> : b \in XmiBank}
XmiLoad ==
  Loader(UNION {XmiPaths(s) : s \in XmiStrings},
         {"xmi_data", "title_str", "author_str", "ext_bank_data"})

\* HSQ and SQX files are unpacked first.
HeradUnpacked ==
  Maybe(<<Takes("out"), Gives("data"), Takes("data"), Gives("out")>>)
HeradLoad ==
  Loader({<<Opens, Named({"hsq", "sqx", "sdb", "agd", "ha2"}, F), Checks(F), Takes("data"),
            Closes>> \o u \o
          <<Checks({"data"}), Takes("track"), Takes("chn"), Takes("inst"), Gives("data"),
            Rewinds>> : u \in HeradUnpacked}, {"track", "chn", "inst"})

AdlLoad ==
  Loader({<<Named({"adl"}, {}), Opens, Checks(F), Takes("_soundDataPtr"), Closes,
            Checks({"_soundDataPtr"}), Rewinds>>}, {"_soundDataPtr"})

----------------------------------------------------------------------------
\* What the players of CAdPlug::allplayers load with.
Loaders ==
  {HscLoad, SngLoad, ImfLoad, A2mLoad, A2mv2Load, AdtrackLoad, AmdLoad, BamLoad, CmfLoad,
   CoktelLoad, D00Load, DfmLoad, HspLoad, KsmLoad, MadLoad, MusLoad, MdiLoad, MidLoad, MkjLoad,
   CffLoad, DmoLoad, S3mLoad, DtmLoad, FmcLoad, MtkLoad, MtrLoad, Rad2Load, RawLoad, Sa2Load,
   BmfLoad, FlashLoad, HybridLoad, HypLoad, PsiLoad, RatLoad, LdsLoad, PlxLoad, U6mLoad, RolLoad,
   XmiLoad, XsmLoad, DroLoad, Dro2Load, PisLoad, MscLoad, RixLoad, AdlLoad, JbmLoad, GotLoad,
   CmfmcsopLoad, VgmLoad, SopLoad, HeradLoad, WmLoad, FmkLoad}
=============================================================================
