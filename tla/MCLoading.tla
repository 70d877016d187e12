----------------------------- MODULE MCLoading -----------------------------
(***************************************************************************)
(* CAdPlug::allplayers, whole.                                             *)
(***************************************************************************)
EXTENDS Loading

AllPlayers == <<
  <<"hsc", HscLoad, {"hsc"}>>,
  <<"sng", SngLoad, {"sng"}>>,
  <<"imf", ImfLoad, {"imf", "wlf", "adlib"}>>,
  <<"a2m", A2mLoad, {"a2m"}>>,
  <<"a2mv2", A2mv2Load, {"a2m", "a2t"}>>,
  <<"adtrack", AdtrackLoad, {"sng"}>>,
  <<"amd", AmdLoad, {"amd"}>>,
  <<"amd", AmdLoad, {"xms"}>>,
  <<"bam", BamLoad, {"bam"}>>,
  <<"cmf", CmfLoad, {"cmf"}>>,
  <<"coktel", CoktelLoad, {"adl"}>>,
  <<"d00", D00Load, {"d00"}>>,
  <<"dfm", DfmLoad, {"dfm"}>>,
  <<"hsp", HspLoad, {"hsp"}>>,
  <<"ksm", KsmLoad, {"ksm"}>>,
  <<"mad", MadLoad, {"mad"}>>,
  <<"mus", MusLoad, {"mus", "mdy", "ims"}>>,
  <<"mdi", MdiLoad, {"mdi"}>>,
  <<"mid", MidLoad, {"mid", "sci", "laa"}>>,
  <<"mkj", MkjLoad, {"mkj"}>>,
  <<"cff", CffLoad, {"cff"}>>,
  <<"dmo", DmoLoad, {"dmo"}>>,
  <<"s3m", S3mLoad, {"s3m"}>>,
  <<"dtm", DtmLoad, {"dtm"}>>,
  <<"fmc", FmcLoad, {"sng"}>>,
  <<"mtk", MtkLoad, {"mtk"}>>,
  <<"mtr", MtrLoad, {"mtr"}>>,
  <<"rad2", Rad2Load, {"rad"}>>,
  <<"raw", RawLoad, {"rac", "raw"}>>,
  <<"sa2", Sa2Load, {"sat", "sa2"}>>,
  <<"bmf", BmfLoad, {"xad", "bmf"}>>,
  <<"flash", FlashLoad, {"xad"}>>,
  <<"hybrid", HybridLoad, {"xad"}>>,
  <<"hyp", HypLoad, {"xad"}>>,
  <<"psi", PsiLoad, {"xad"}>>,
  <<"rat", RatLoad, {"xad"}>>,
  <<"lds", LdsLoad, {"lds"}>>,
  <<"plx", PlxLoad, {"plx"}>>,
  <<"u6m", U6mLoad, {"m"}>>,
  <<"rol", RolLoad, {"rol"}>>,
  <<"xmi", XmiLoad, {"xmi"}>>,
  <<"xsm", XsmLoad, {"xsm"}>>,
  <<"dro", DroLoad, {"dro"}>>,
  <<"dro2", Dro2Load, {"dro"}>>,
  <<"pis", PisLoad, {"pis"}>>,
  <<"msc", MscLoad, {"msc"}>>,
  <<"rix", RixLoad, {"rix", "mkf"}>>,
  <<"adl", AdlLoad, {"adl"}>>,
  <<"jbm", JbmLoad, {"jbm"}>>,
  <<"got", GotLoad, {"got"}>>,
  <<"cmfmcsop", CmfmcsopLoad, {"cmf"}>>,
  <<"vgm", VgmLoad, {"vgm", "vgz"}>>,
  <<"sop", SopLoad, {"sop"}>>,
  <<"herad", HeradLoad, {"hsq", "sqx", "sdb", "agd", "ha2"}>>,
  <<"wm", WmLoad, {"wm", "m"}>>,
  <<"fmk", FmkLoad, {"fmk"}>> >>

AllExtensions ==
  {"none", "ld0"} \union UNION {AllPlayers[i][3] : i \in 1 .. Len(AllPlayers)}
=============================================================================
