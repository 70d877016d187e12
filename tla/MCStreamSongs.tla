--------------------------- MODULE MCStreamSongs ---------------------------
(***************************************************************************)
(* Small songs for the replayers of ReplayStreams.  Loops that never       *)
(* pause, notes beyond a table and jumps to labels nobody has set are left *)
(* out: update() does not return from the first, see the README.           *)
(***************************************************************************)
EXTENDS Replayers

Triples(S) == {<<a, b, c>> : a \in S, b \in S, c \in S}

SngEntry(r, v) == [reg |-> r, val |-> v]
SngSongs ==
  {[start |-> s, loop |-> l, delay |-> 2, compressed |-> c,
    data |-> d \o <<SngEntry(0, 1)>>] :
     s \in {0, 2}, l \in {0, 1}, c \in BOOLEAN,
     d \in Triples({SngEntry(1, 3), SngEntry(0, 0), SngEntry(0, 3)})}

ImfSongs == {[data |-> d] : d \in Triples({0, 1, 3})}

\* Bytes: short pauses, long ones, banks and writes, also broken off.
DroSongs ==
  {[data |-> d \o e] : d \in {<<0, 2>>, <<1, 3, 0>>, <<4, 1, 0>>, <<5, 0, 3>>},
                       e \in {<<>>, <<0, 0>>, <<1, 5>>, <<2, 1>>, <<4, 0>>, <<9>>, <<3, 0, 7, 1, 0, 0>>}}
Dro2Songs ==
  {[data |-> d \o e, short |-> 1, long |-> 2, codemap |-> 5] :
     d \in {<<1, 2>>, <<2, 0>>, <<0, 9, 1, 0>>},
     e \in {<<>>, <<131, 1>>, <<4, 4, 2, 1>>, <<1, 1, 130, 0>>}}

VgmCmd(c, a) == [cmd |-> c, arg |-> a]
VgmSongs ==
  {[loop |-> l, data |-> <<VgmCmd("wait", 735)>> \o d] :
     l \in {-1, 0},
     d \in Triples({VgmCmd("write", 0), VgmCmd("wait", 39), VgmCmd("wait", 40),
                    VgmCmd("end", 0), VgmCmd("cut", 0)})}

\* The first block begins with a copy, so that what dec_len is before does
\* not matter: four bytes, then 155 or 175 with a length and a distance.
MscSongs ==
  {[data |-> <<a, b>>] :
     a \in {<<3, 155, 16, 255, 4>>, <<255, 2, 155, 16>>, <<3, 255, 155, 0, 155, 47, 1, 255, 3>>},
     b \in {<<255, 0>>, <<175, 0, 1, 175, 0, 0>>, <<255, 3, 255, 2, 175, 18, 0, 9, 9>>, <<>>}}

XsmSongs == {[data |-> d] : d \in Triples({<<0, 0>>, <<12, 0>>, <<12, 24>>})}

KsmWord(t, k, f, o) == [time |-> t, track |-> k, freq |-> f, off |-> o]
KsmSong(d, q, s) == [tracks |-> <<1, 1, 2>>, drums |-> d,
                     quanter |-> [k \in {1, 2, 12} |-> q], data |-> s]
KsmSongs ==
  {KsmSong(d, q, <<KsmWord(1, 1, 5, FALSE)>> \o s) :
     d \in BOOLEAN, q \in {1, 2},
     s \in {<<KsmWord(2, 1, f, FALSE), KsmWord(3, k, 5, o)>> :
              f \in {5, 6}, k \in {1, 2, 12}, o \in BOOLEAN} \union
           {<<KsmWord(1, 12, 7, FALSE), KsmWord(4, 1, 5, TRUE)>>}}

Bam(c, l, a) == [cmd |-> c, c |-> l, arg |-> a]
BamWaits == Bam("wait", 0, 1)
BamStop == Bam("stop", 0, 0)
BamSongs ==
  {[data |-> <<BamWaits>> \o d] :
     d \in {<<Bam("label", 1, 0), BamWaits, Bam("jump", 1, r), BamStop>> : r \in {0, 1, 2, 254}} \union
           {<<Bam("label", 1, 0), Bam("note", 1, 0), BamWaits, Bam("return", 0, 0),
              Bam("jump", 1, 255), BamWaits, BamStop>>} \union
           {<<Bam("jump", 0, 255), BamWaits>>, <<Bam("note", 0, 0), BamWaits>>}}

JbmEv(k) == [kind |-> k, time |-> 0, gate |-> TRUE]
JbmNote(t, g) == [kind |-> "note", time |-> t, gate |-> g]
JbmSongs ==
  {[tracks |-> t, data |-> <<a, <<JbmNote(1, FALSE), JbmEv("end")>>>>] :
     t \in {<<<<1>>>>, <<<<1, 2>>, <<2>>>>, <<<<2, 2, 1>>, <<1, 2>>>>},
     a \in {<<JbmNote(0, TRUE), JbmEv("end")>>, <<JbmEv("inst"), JbmNote(2, TRUE), JbmEv("end")>>,
            <<JbmNote(0, TRUE), JbmNote(1, TRUE), JbmEv("end")>>}}

MkjSongs ==
  {[maxchannel |-> 2, maxnotes |-> 16,
    rows |-> <<<<253, 0>>, <<1, 255>>, <<68, k>>, <<x, 254>>, <<y, 3>>, <<251, 252>>,
               <<0, 300>>, <<0, 255>>, <<0, 5>>, <<0, 251>>>>] :
     x \in {68, 255, 254, 252}, y \in {1, 9, 301}, k \in {1, 2, -1}}

StreamSongs ==
  [sng |-> SngSongs, imf |-> ImfSongs, got |-> ImfSongs, dro |-> DroSongs, dro2 |-> Dro2Songs,
   vgm |-> VgmSongs, msc |-> MscSongs, xsm |-> XsmSongs, ksm |-> KsmSongs, bam |-> BamSongs,
   jbm |-> JbmSongs, mkj |-> MkjSongs]
=============================================================================
