--------------------------- MODULE ReplayStreams ---------------------------
(***************************************************************************)
(* Replayers of streams: register dumps, note lists and byte codes that    *)
(* update() reads up to the next pause.  Registers and instruments are     *)
(* left out; a song's data is a sequence, read from position 0 as in C.    *)
(* Where a call can read any number of entries it takes a step for each.   *)
(***************************************************************************)
EXTENDS Replay

In(format) == fmt = format /\ pc # Idle
Begin(format) == MayUpdate(format) /\ Within(p, 1)
Entry(i) == song.data[i + 1]
Size == Len(song.data)

----------------------------------------------------------------------------
(* Faust Music Creator (sng.cpp): an entry with register 0 ends a tick. *)

SngFresh ==
  [pos |-> song.start, del |-> song.delay, songend |-> FALSE]

SngRewind == MayRewind("sng", 0) /\ Rewound(0, SngFresh)

SngDelayed == song.compressed /\ p.del > 0
SngWait ==
  /\ MayUpdate("sng") /\ SngDelayed
  /\ Updated([p EXCEPT !.del = @ - 1], {}, ~p.songend)

SngOn(q) ==
  IF q.pos + 1 < Size THEN [q EXCEPT !.pos = @ + 1]
  ELSE [q EXCEPT !.pos = song.loop, !.songend = TRUE]

SngWrite ==
  /\ In("sng")
  /\ Entry(p.pos).reg # 0
  /\ Within(SngOn(p), 1)

SngTick ==
  /\ In("sng")
  /\ Entry(p.pos).reg = 0
  /\ LET val == Entry(p.pos).val
         q == SngOn([p EXCEPT !.del = IF val # 0 THEN val - 1 ELSE @])
     IN  Updated(q, {}, ~q.songend)

SngBegin == MayUpdate("sng") /\ ~SngDelayed /\ Within(p, 1)
SngUpdate == SngWait \/ SngBegin \/ SngWrite \/ SngTick

----------------------------------------------------------------------------
(* Apogee IMF (imf.cpp) and God of Thunder (got.cpp): an entry is the time *)
(* to wait after a write.                                                  *)

ImfFormats == {"imf", "got"}

ImfFresh == [pos |-> 0, del |-> 0, timer |-> Unset, songend |-> FALSE]

ImfRewind == \E format \in ImfFormats : MayRewind(format, 0) /\ Rewound(0, ImfFresh)

\* timer is rate / del, or rate as long as it is Unset; it stays at a wrap.
ImfUpdate ==
  \E format \in ImfFormats :
    /\ MayUpdate(format)
    /\ LET pauses == {i \in p.pos .. Size - 1 : Entry(i) # 0 \/ i = Size - 1}
           stop == Min(pauses)
           q == [p EXCEPT !.del = Entry(stop)]
           r == IF stop + 1 >= Size THEN [q EXCEPT !.pos = 0, !.songend = TRUE]
                ELSE [q EXCEPT !.pos = stop + 1, !.timer = Entry(stop)]
       IN  Updated(r, {}, ~r.songend)

----------------------------------------------------------------------------
(* DOSBox Raw OPL 0.1 (dro.cpp), a stream of bytes, and 2.0 (dro2.cpp), of *)
(* pairs of an index and a value.  Neither starts again at its end.        *)

Missing(k) == p.pos + k >= Size

DroFresh ==
  [delay |-> 0, pos |-> 0, chip |-> 0]

DroRewind == MayRewind("dro", 0) /\ Rewound(0, DroFresh)

\* A delay, a bank and an escaped register are bytes 0 to 4; a command whose
\* bytes are missing is passed over alone.
DroPause(operands, delay) ==
  IF Missing(operands) THEN Updated([p EXCEPT !.pos = @ + 1], {}, FALSE)
  ELSE Updated([p EXCEPT !.pos = @ + 1 + operands, !.delay = delay], {}, TRUE)

DroWrite(operands) ==
  IF Missing(operands) THEN Updated([p EXCEPT !.pos = @ + 1], {}, FALSE)
  ELSE Within([p EXCEPT !.pos = @ + 1 + operands], 1)

DroCommand ==
  /\ In("dro") /\ p.pos < Size
  /\ \/ Entry(p.pos) = 0 /\ DroPause(1, Entry(p.pos + 1) + 1)
     \/ /\ Entry(p.pos) = 1
        /\ DroPause(2, Entry(p.pos + 1) + 256 * Entry(p.pos + 2) + 1)
     \/ /\ Entry(p.pos) \in {2, 3}
        /\ Within([p EXCEPT !.pos = @ + 1, !.chip = Entry(p.pos) - 2], 1)
     \/ Entry(p.pos) = 4 /\ DroWrite(2)
     \/ Entry(p.pos) > 4 /\ DroWrite(1)

DroEnd == In("dro") /\ p.pos >= Size /\ Updated(p, {}, FALSE)
DroUpdate == Begin("dro") \/ DroCommand \/ DroEnd

Dro2Fresh ==
  [delay |-> 0, pos |-> 0]

Dro2Rewind == MayRewind("dro2", 0) /\ Rewound(0, Dro2Fresh)

\* An index beyond the codemap is taken for the end, but the next call goes on.
Dro2Command ==
  /\ In("dro2") /\ p.pos < Size
  /\ LET q == [p EXCEPT !.pos = @ + 2]
         index == Entry(p.pos)
         value == Entry(p.pos + 1)
     IN  \/ index = song.short /\ Updated([q EXCEPT !.delay = value + 1], {}, TRUE)
         \/ index = song.long /\ Updated([q EXCEPT !.delay = (value + 1) * 256], {}, TRUE)
         \/ /\ index \notin {song.short, song.long}
            /\ IF index % 128 >= song.codemap THEN Updated(q, {}, FALSE)
               ELSE Within(q, 1)

Dro2End == In("dro2") /\ p.pos >= Size /\ Updated(p, {}, FALSE)
Dro2Update == Begin("dro2") \/ Dro2Command \/ Dro2End

----------------------------------------------------------------------------
(* Video Game Music (vgm.cpp): an entry is a command with its operands;    *)
(* loop is the entry at loop_ofs, -1 when there is none.                   *)

VgmFresh ==
  [pos |-> 0, songend |-> FALSE, wait |-> 0]

VgmRewind == MayRewind("vgm", 0) /\ Rewound(0, VgmFresh)

VgmBegin == MayUpdate("vgm") /\ Within([p EXCEPT !.wait = 0], 1)

\* Pauses of less than 40 samples are left out.
Audible(wait) == IF wait < 40 THEN 0 ELSE wait

VgmCommand ==
  /\ In("vgm") /\ p.pos < Size
  /\ LET c == Entry(p.pos)
         wait == IF c.cmd = "wait" THEN Audible(c.arg) ELSE 0
         next == IF c.cmd = "end" THEN Size ELSE p.pos + 1
         over == p.songend \/ next >= Size
         q == [p EXCEPT !.wait = wait, !.songend = over,
                        !.pos = IF next >= Size /\ song.loop >= 0 THEN song.loop
                                ELSE next]
     IN  IF c.cmd = "cut" THEN Within([p EXCEPT !.pos = Size], 1)
         ELSE IF wait = 0 THEN Within(q, 1)
         ELSE Updated(q, {}, ~over)

VgmEnd ==
  /\ In("vgm") /\ p.pos >= Size
  /\ Updated([p EXCEPT !.songend = TRUE], {}, FALSE)

VgmUpdate == VgmBegin \/ VgmCommand \/ VgmEnd

----------------------------------------------------------------------------
(* AdLib MSCplay (msc.cpp): compressed blocks of bytes that make pairs of  *)
(* a register and a value; register 255 is a pause.  pc is Command while   *)
(* the first byte of a pair is decoded, Operand then.  Neither rewind()    *)
(* nor the constructor sets dec_len and dec_dist.                          *)

Command == 1
Operand == 2

MscConstructed == [dec_len : {0, 1}, dec_dist : {0}]

MscFresh(q) ==
  [dec_prefix |-> 0, block_num |-> 0, block_pos |-> 0, raw |-> <<>>,
   delay |-> 0, cmnd |-> Unset,
   dec_len |-> q.dec_len, dec_dist |-> q.dec_dist]

MscRewind == MayRewind("msc", 0) /\ Rewound(0, MscFresh(p))

MscBlock == song.data[p.block_num + 1]

\* What the program may read outside a block, which a stale dec_len permits.
Stray == {0, 155}
MscBytes ==
  IF p.block_pos < Len(MscBlock) THEN {MscBlock[p.block_pos + 1]} ELSE Stray

\* The end of a pause, or of the write that a decoded pair is.
MscPaused(q) == Updated([q EXCEPT !.delay = @ - 1, !.cmnd = Unset], {}, TRUE)

MscOutput(q, octet) ==
  LET r == [q EXCEPT !.raw = Append(@, octet)]
  IN  IF pc = Command THEN Within([r EXCEPT !.cmnd = octet], Operand)
      ELSE IF p.cmnd = 255 THEN MscPaused([r EXCEPT !.delay = 1 + Byte(octet + 255)])
      ELSE Within(r, Command)

MscWait == MayUpdate("msc") /\ p.delay > 0 /\ MscPaused(p)
MscBegin == MayUpdate("msc") /\ p.delay = 0 /\ Within(p, Command)

MscOver == p.block_num >= Size
BlockDone == p.block_pos >= Len(MscBlock) /\ p.dec_len = 0

\* The end of the last block, now or in an earlier call.
MscEnd ==
  /\ In("msc")
  /\ \/ MscOver /\ Updated(p, {}, FALSE)
     \/ /\ ~MscOver /\ BlockDone
        /\ p.block_num + 1 >= Size
        /\ Updated([p EXCEPT !.block_num = @ + 1], {}, FALSE)

MscDecodes(prefixes) == In("msc") /\ ~MscOver /\ ~BlockDone /\ p.dec_prefix \in prefixes

MscNextBlock ==
  /\ In("msc") /\ ~MscOver /\ BlockDone
  /\ p.block_num + 1 < Size
  /\ Within([p EXCEPT !.block_num = @ + 1, !.block_pos = 0, !.raw = <<>>], pc)

\* A byte stands for itself, or is the prefix of a copy.
MscPlain ==
  /\ MscDecodes({0})
  /\ \E octet \in MscBytes :
       LET q == [p EXCEPT !.block_pos = @ + 1]
       IN  IF octet \in {155, 175} THEN Within([q EXCEPT !.dec_prefix = octet], pc)
           ELSE MscOutput(q, octet)

\* A prefix is followed by 0, and then stands for itself, or by the length
\* and the distance of the copy.
MscPrefix ==
  /\ MscDecodes({155, 175})
  /\ \E octet \in MscBytes :
       LET q == [p EXCEPT !.block_pos = @ + 1]
       IN  IF octet = 0 THEN MscOutput([q EXCEPT !.dec_prefix = 0], p.dec_prefix)
           ELSE Within([q EXCEPT !.dec_len = octet % 16,
                                 !.dec_dist = octet \div 16 +
                                              IF p.dec_prefix = 155 THEN 1 ELSE 0,
                                 !.dec_prefix = @ + 1], pc)

\* 175 takes a byte more of the distance, and 15 one more of the length:
\* the block's length is not looked at while dec_len is not 0.  Both
\* prefixes go through 156, the second with a length one greater.
MscDistance ==
  /\ MscDecodes({176})
  /\ \E octet \in MscBytes :
       Within([p EXCEPT !.block_pos = @ + 1, !.dec_dist = @ + 17 + 16 * octet,
                        !.dec_prefix = 157], pc)

MscLength ==
  /\ MscDecodes({156, 157})
  /\ LET correction == IF p.dec_prefix = 156 THEN 2 ELSE 3
         q == [p EXCEPT !.dec_prefix = 255]
     IN  IF p.dec_len # 15 THEN Within([q EXCEPT !.dec_len = @ + correction], pc)
         ELSE \E octet \in MscBytes :
                Within([q EXCEPT !.dec_len = @ + octet + correction,
                                 !.block_pos = @ + 1], pc)

MscCopy ==
  /\ MscDecodes({255})
  /\ LET from == Len(p.raw) - p.dec_dist
         octet == IF from >= 0 THEN p.raw[from + 1] ELSE 0
     IN  MscOutput([p EXCEPT !.dec_len = @ - 1,
                             !.dec_prefix = IF p.dec_len = 1 THEN 0 ELSE @], octet)

MscUpdate ==
  \/ MscWait \/ MscBegin \/ MscEnd \/ MscNextBlock
  \/ MscPlain \/ MscPrefix \/ MscDistance \/ MscLength \/ MscCopy

----------------------------------------------------------------------------
(* eXtra Simple Music (xsm.cpp): a row of nine notes a tick.  Every voice  *)
(* is keyed on at every row, again when its note is another one.           *)

XsmFresh ==
  [notenum |-> 0, last |-> 0, songend |-> FALSE, struck |-> {}]

XsmRewind == MayRewind("xsm", 0) /\ Rewound(0, XsmFresh)

XsmUpdate ==
  /\ MayUpdate("xsm")
  /\ LET over == p.notenum >= Size
         row  == IF over THEN 0 ELSE p.notenum
         last == IF over THEN 0 ELSE p.last
         q == [p EXCEPT !.last = row, !.notenum = row + 1, !.songend = @ \/ over,
                        !.struck = {c \in DOMAIN Entry(row) :
                                      Entry(row)[c] # Entry(last)[c]}]
     IN  Updated(q, {row}, ~q.songend)

----------------------------------------------------------------------------
(* Ken Silverman's Music (ksm.cpp): timed notes of 16 tracks, of which 11  *)
(* to 15 may be drums; a track has one or more voices.  age is chanage,    *)
(* drums the key bits in drumstat, which rewind() writes back as they are. *)

KsmVoices == DOMAIN song.tracks         \* [voice -> its track], by trchan
KsmConstructed == [drums : {{}}]

\* Times are rounded to the track's quantum.
KsmTime(note) ==
  LET quanter == song.quanter[note.track]
  IN  ((note.time + quanter \div 2) \div quanter) * quanter

\* count and countstop are unsigned: Never stands for the largest of their
\* values, which is what a first note at time 0 makes of both.
Never == 1000000
KsmStart == (Entry(0).time - 1) % (Never + 1)
KsmCount == (p.count + 1) % (Never + 1)

KsmFresh(q) ==
  [count |-> KsmStart, countstop |-> KsmStart,
   nownote |-> 0, songend |-> FALSE, drums |-> q.drums,
   freq |-> [v \in KsmVoices |-> 0], age |-> [v \in KsmVoices |-> 0]]

KsmRewind == MayRewind("ksm", 0) /\ Rewound(0, KsmFresh(p))

KsmWait ==
  /\ MayUpdate("ksm")
  /\ KsmCount < p.countstop
  /\ Updated([p EXCEPT !.count = KsmCount], {}, ~p.songend)

KsmBegin ==
  /\ MayUpdate("ksm")
  /\ KsmCount >= p.countstop
  /\ Within([p EXCEPT !.count = KsmCount], 1)

\* A note off ends the first voice of its track that plays the note; a note on
\* takes the track's voice whose note is oldest, the last of equals.  Once the
\* song has begun again, a note of the last round is taken to be very old.
KsmAge(v) == (p.countstop - p.age[v]) % (Never + 1)

KsmOff(note) ==
  LET playing == {v \in KsmVoices : /\ song.tracks[v] = note.track
                                    /\ p.freq[v] = note.freq}
  IN  IF playing = {} THEN p
      ELSE [p EXCEPT !.freq[Min(playing)] = 0, !.age[Min(playing)] = 0]

KsmOn(note) ==
  LET voices == {v \in KsmVoices : song.tracks[v] = note.track}
      oldest == {v \in voices : \A w \in voices : KsmAge(v) >= KsmAge(w)}
  IN  IF voices = {} THEN p
      ELSE [p EXCEPT !.freq[Max(oldest)] = note.freq,
                     !.age[Max(oldest)] = p.countstop]

KsmDrum(note) ==
  IF song.drums THEN [p EXCEPT !.drums = @ \union {note.track}] ELSE p

KsmNote ==
  /\ In("ksm") /\ p.count >= p.countstop
  /\ LET note == Entry(p.nownote)
         q == IF note.off THEN KsmOff(note)
              ELSE IF note.track < 11 THEN KsmOn(note) ELSE KsmDrum(note)
         over == p.nownote + 1 >= Size
         next == IF over THEN 0 ELSE p.nownote + 1
     IN  Within([q EXCEPT !.nownote = next, !.songend = @ \/ over,
                          !.count = IF over THEN KsmStart ELSE @,
                          !.countstop = KsmTime(Entry(next))], 1)

KsmEnd == In("ksm") /\ p.count < p.countstop /\ Updated(p, {}, ~p.songend)
KsmUpdate == KsmWait \/ KsmBegin \/ KsmNote \/ KsmEnd

----------------------------------------------------------------------------
(* Bob's Adlib Music (bam.cpp): byte codes with labels, counted loops and  *)
(* a chorus, which is a subroutine that is not nested.                     *)

Undefined == 255

BamLabel(c) == [target |-> 0, defined |-> c = 0, count |-> Undefined]
BamFresh ==
  [pos |-> 0, songend |-> FALSE, del |-> 0, gosub |-> 0,
   chorus |-> FALSE, label |-> [c \in 0..15 |-> BamLabel(c)]]

BamRewind == MayRewind("bam", 0) /\ Rewound(0, BamFresh)

BamWait ==
  /\ MayUpdate("bam")
  /\ p.del > 0
  /\ Updated([p EXCEPT !.del = @ - 1], {}, ~p.songend)

BamBegin ==
  /\ MayUpdate("bam")
  /\ p.del = 0
  /\ Within(IF p.pos >= Size THEN [p EXCEPT !.pos = 0, !.songend = TRUE] ELSE p, 1)

BamPassed == [p EXCEPT !.pos = @ + 1]

\* A jump: 254 for ever, 255 to the chorus, or arg times.
BamJump(c, arg) ==
  LET label == p.label[c]
      there == [p EXCEPT !.pos = label.target]
  IN  CASE ~label.defined -> p
        [] label.defined /\ arg = 254 -> [there EXCEPT !.songend = TRUE]
        [] label.defined /\ arg = 255 /\ ~p.chorus ->
             [there EXCEPT !.chorus = TRUE, !.gosub = p.pos + 1]
        [] label.defined /\ (arg = 0 \/ (arg = 255 /\ p.chorus)) -> BamPassed
        [] label.defined /\ arg \in 1..253 /\ label.count = 0 ->
             [BamPassed EXCEPT !.label[c].count = Undefined]
        [] label.defined /\ arg \in 1..253 /\ label.count # 0 ->
             [there EXCEPT !.label[c].count =
                IF label.count < Undefined THEN label.count - 1 ELSE arg - 1]

BamCommand ==
  /\ In("bam")
  /\ Entry(p.pos).cmd # "wait"
  /\ LET e == Entry(p.pos)
     IN  Within(CASE e.cmd = "stop"  -> [p EXCEPT !.pos = 0, !.songend = TRUE]
                  [] e.cmd = "label" ->
                       [BamPassed EXCEPT !.label[e.c].target = p.pos + 1,
                                         !.label[e.c].defined = TRUE]
                  [] e.cmd = "jump"  -> BamJump(e.c, e.arg)
                  [] e.cmd = "return" /\ p.chorus ->
                       [p EXCEPT !.pos = p.gosub, !.chorus = FALSE]
                  [] OTHER -> BamPassed, 1)

BamPause ==
  /\ In("bam")
  /\ Entry(p.pos).cmd = "wait"
  /\ Updated([BamPassed EXCEPT !.del = Entry(p.pos).arg], {}, ~p.songend)

BamUpdate == BamWait \/ BamBegin \/ BamCommand \/ BamPause

----------------------------------------------------------------------------
(* Johannes Bjerregaard's JBM (jbm.cpp): each voice plays a track, a list  *)
(* of sequences.  pc is the voice that update() is at.                     *)

JbmVoices == DOMAIN song.tracks
JbmFresh ==
  [voicemask |-> JbmVoices,
   trkpos |-> [v \in JbmVoices |-> 1], seqpos |-> [v \in JbmVoices |-> 1],
   keyed |-> [v \in JbmVoices |-> FALSE],
   delay |-> [v \in JbmVoices |-> 1], spos |-> 0]

JbmRewind == MayRewind("jbm", 0) /\ Rewound(0, JbmFresh)

JbmSequence(v) == song.data[song.tracks[v][p.trkpos[v]]]
JbmBegin == Begin("jbm")
InJbm == In("jbm") /\ pc \in JbmVoices

\* --delay of a short; a note that ends is keyed off.  spos is where the
\* voice's events are read from, 0 when they are not.
JbmCount ==
  /\ InJbm /\ p.spos = 0
  /\ LET left == (p.delay[pc] - 1) % 65536
         q == [p EXCEPT !.delay[pc] = left]
     IN  IF left # 0 THEN Within(q, pc + 1)
         ELSE Within([q EXCEPT !.keyed[pc] = FALSE, !.spos = p.seqpos[pc]], pc)

\* The events of a voice up to its next note.  A sequence that ends leads to
\* the track's next one, from the last one to the first; after a note that
\* is out of range the voice stays at a delay of 0.
JbmEvent ==
  /\ InJbm /\ p.spos # 0
  /\ LET e == JbmSequence(pc)[p.spos]
         last == p.trkpos[pc] = Len(song.tracks[pc])
     IN  \/ /\ e.kind = "inst"
            /\ Within([p EXCEPT !.spos = @ + 1], pc)
         \/ /\ e.kind = "end"
            /\ Within([p EXCEPT !.trkpos[pc] = IF last THEN 1 ELSE @ + 1,
                               !.seqpos[pc] = 1, !.spos = 1,
                               !.voicemask = IF last THEN @ \ {pc} ELSE @], pc)
         \/ /\ e.kind = "note"
            /\ Within([p EXCEPT !.seqpos[pc] = p.spos + 1, !.spos = 0,
                               !.delay[pc] = e.time + 1, !.keyed[pc] = e.gate], pc + 1)
         \/ /\ e.kind = "bad"
            /\ Updated([p EXCEPT !.spos = 0], {}, FALSE)

JbmEnd ==
  /\ In("jbm") /\ pc \notin JbmVoices
  /\ Updated(p, {}, p.voicemask # {})

JbmUpdate == JbmBegin \/ JbmCount \/ JbmEvent \/ JbmEnd

----------------------------------------------------------------------------
(* MKJamz (mkj.cpp): one list of numbers, read by each channel from a row  *)
(* of its own.  pc is the channel that update() is at.                     *)

MkjChannels == 1 .. song.maxchannel
MkjAt(c, row) == song.rows[row + 1][c]

MkjFresh ==
  [pstat |-> [c \in MkjChannels |-> 0], speed |-> [c \in MkjChannels |-> 0],
   row |-> [c \in MkjChannels |-> 0], songend |-> FALSE, reads |-> FALSE]

MkjRewind == MayRewind("mkj", 0) /\ Rewound(0, MkjFresh)

MkjBegin == Begin("mkj")

MkjWait ==
  /\ In("mkj") /\ pc \in MkjChannels /\ ~p.reads
  /\ IF p.pstat[pc] > 0 THEN Within([p EXCEPT !.pstat[pc] = @ - 1], pc + 1)
     ELSE Within([p EXCEPT !.reads = TRUE], pc)

\* maxnotes bounds the distance in the list, not the row.
MkjNext(q) ==
  LET on == [q EXCEPT !.row[pc] =
               IF @ * song.maxchannel < song.maxnotes THEN @ + 1 ELSE 0]
  IN  IF on.pstat[pc] = 0 THEN Within(on, pc)
      ELSE Within([on EXCEPT !.reads = FALSE], pc + 1)

\* The end of the song, and a value that is out of range.
MkjOver ==
  Updated([p EXCEPT !.row = [c \in MkjChannels |-> 0], !.songend = TRUE,
                    !.reads = FALSE], {}, FALSE)

MkjNote ==
  /\ In("mkj") /\ pc \in MkjChannels /\ p.reads
  /\ LET row == p.row[pc]
         note == MkjAt(pc, row)
         value == MkjAt(pc, row + 1)
     IN  CASE note \notin 251..255 ->
                MkjNext(IF row > 1 /\ note # 0 /\ note < 250
                        THEN [p EXCEPT !.pstat[pc] = p.speed[pc]] ELSE p)
           [] note = 255 /\ value >= 0 ->
                MkjNext([p EXCEPT !.row[pc] = @ + 1, !.pstat[pc] = value])
           [] note = 253 /\ value >= 0 ->
                MkjNext([p EXCEPT !.row[pc] = @ + 1, !.speed[pc] = value])
           [] (note = 254 /\ value \in 0..7) \/ (note = 252 /\ value \in 300..555) ->
                MkjNext([p EXCEPT !.row[pc] = @ + 1])
           [] OTHER -> MkjOver

MkjEnd ==
  /\ In("mkj") /\ pc \notin MkjChannels
  /\ Updated(p, {}, ~p.songend)

MkjUpdate == MkjBegin \/ MkjWait \/ MkjNote \/ MkjEnd

----------------------------------------------------------------------------
StreamRewind ==
  \/ SngRewind \/ ImfRewind \/ DroRewind \/ Dro2Rewind \/ VgmRewind \/ MscRewind
  \/ XsmRewind \/ KsmRewind \/ BamRewind \/ JbmRewind \/ MkjRewind
StreamUpdate ==
  \/ SngUpdate \/ ImfUpdate \/ DroUpdate \/ Dro2Update \/ VgmUpdate \/ MscUpdate
  \/ XsmUpdate \/ KsmUpdate \/ BamUpdate \/ JbmUpdate \/ MkjUpdate
=============================================================================
