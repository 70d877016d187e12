----------------------------- MODULE ModPlayer -----------------------------
(***************************************************************************)
(* CmodPlayer as a whole: the sequencer of ModSequencer, and with each of  *)
(* its steps what the step does to the channels and to the OPL chips.      *)
(*                                                                         *)
(* A handler works on one channel through a `voice', the channel's record  *)
(* together with the registers the handler may write: those of the OPL     *)
(* voice it addresses, and register 0xbd of that voice's chip.  Which chip *)
(* the writes reach is decided by the chip the OPL object has selected,    *)
(* and set_opl_chip() selects another one only if its own note of the      *)
(* selection, curchip, says that it must.                                  *)
(***************************************************************************)
EXTENDS ModSequencer, ModPitch

CONSTANT VoicesPerChip    \* 9 on the OPL2

ASSUME VoicesAssumption == VoicesPerChip \in Nat \ {0}

VARIABLES
  channel,    \* the players' channel records
  regbd,      \* shadow of register 0xbd
  curchip,    \* the chip CmodPlayer believes selected
  opl,        \* the object `opl' points to: "real", or "silent" in songlength()
  selected,   \* per object, the chip it has selected (Copl::currChip)
  fnum,       \* registers 0xa0/0xb0 per chip and voice: <<frequency, block, key>>
  level,      \* registers 0x40/0x43 per chip and voice: <<modulator, carrier>>
  bd          \* register 0xbd per chip

chipVars == <<opl, selected, fnum, level, bd>>
voiceVars == <<channel, regbd, curchip>>
modVars == <<seqVars, voiceVars, chipVars>>

inst == song.inst         \* per instrument number, as loaded
notetable == song.notetable

Channels == 0 .. (nchans - 1)
ChipVoices == 0 .. (VoicesPerChip - 1)
Chips == {0, 1}

ZeroChannel ==
  [freq |-> 0, nextfreq |-> 0, oct |-> 0, vol1 |-> 0, vol2 |-> 0, inst |-> 0,
   fx |-> 0, info1 |-> 0, info2 |-> 0, key |-> 0, nextoct |-> 0, note |-> 0,
   portainfo |-> 0, vibinfo1 |-> 0, vibinfo2 |-> 0, arppos |-> 0,
   arpspdcnt |-> 0, trigger |-> 0]

(***************************************************************************)
(* What the channel handlers take for granted of a song's data: cells name *)
(* instruments the loader has filled in, a tone portamento has its target  *)
(* within the eight octaves (or is a key-off), command 9 has two digits,   *)
(* and every channel has a voice of its own.                               *)
(***************************************************************************)
Instrument ==
  [data : [0 .. 10 -> Byte], misc : Byte, slide : -128 .. 127, arpstart : Byte, arpspeed : Byte]

PlayableCell(s, cell) ==
  /\ cell.note <= 127 /\ (cell.command = 3 => cell.note <= 96 \/ cell.note = 127)
  /\ cell.inst = 0 \/ cell.inst - 1 \in DOMAIN s.inst
  /\ cell.command = 9 => cell.param1 <= 9 /\ cell.param2 <= 9

Playable(s) ==
  /\ 0 \in DOMAIN s.inst /\ \A i \in DOMAIN s.inst : s.inst[i] \in Instrument
  /\ s.notetable \in [0 .. 11 -> Word]
  /\ s.arp = <<>> \/ s.arp \in [Byte -> [cmd : Byte, list : Byte]]
  /\ s.nchans <= 2 * VoicesPerChip
  /\ \A t \in DOMAIN s.tracks : \A r \in 0 .. (s.nrows - 1) : PlayableCell(s, s.tracks[t][r])

(***************************************************************************)
(* Enough for a song never to slide a sounding channel below frequency 0,  *)
(* where the unsigned short wraps: no slide goes down by more than half of *)
(* the lowest frequency of the song's notes, lo, so that the next octave's *)
(* doubled frequency is lo again at least, and no note is above ten bits.  *)
(* Nor does a gentle song combine key-offs and the retrigger command, which*)
(* could key on a channel that has had a key-off before any note.          *)
(***************************************************************************)
Amount(s, cell) ==
  (cell.param1 * (IF "Decimal" \in s.flags THEN 10 ELSE 16) + cell.param2) % 256

PlayedCells(s) == {s.tracks[t][r] : t \in DOMAIN s.tracks, r \in 0 .. (s.nrows - 1)}

GentleCell(s, cell, lo) ==
  /\ cell.command \in {2, 3, 24} => 2 * Amount(s, cell) <= lo
  /\ cell.command = 14 /\ cell.param1 = 7 => 2 * cell.param2 <= lo

GentleAbove(s, lo) ==
  /\ \A k \in 0 .. 11 : /\ s.notetable[k] \in lo .. 1023
                        /\ \A i \in DOMAIN s.inst : s.notetable[k] + s.inst[i].slide \in lo .. 1023
  /\ \A cell \in PlayedCells(s) : GentleCell(s, cell, lo)

Retriggering(s) == \E cell \in PlayedCells(s) : cell.command = 14 /\ cell.param1 = 3
Releasing(s) == \E cell \in PlayedCells(s) : cell.note = 127

Gentle(s) ==
  /\ \E lo \in 16 .. Lowest : GentleAbove(s, lo)
  /\ ~(Retriggering(s) /\ Releasing(s))

-----------------------------------------------------------------------------
(***************************************************************************)
(* Register writes.  Of the frequency ten bits reach the chip, of the      *)
(* octave three before it runs into the key-on bit.  Levels are written as *)
(* 63 - volume plus the instrument's two key scaling bits, in eight bits.  *)
(***************************************************************************)

Ins(v) == inst[v.ch.inst]
Additive(v) == Ins(v).data[0] % 2 = 1
Scaling(byte) == byte - (byte % 64)     \* data & 192
Level(byte) == byte % 64                \* data & 63

setfreq(v) ==
  [v EXCEPT !.fnum = << v.ch.freq % 1024, v.ch.oct % 8,
                        IF v.ch.key # 0 THEN 1 ELSE (v.ch.oct \div 8) % 2 >>]

setvolume(v) ==
  LET Register(vol, byte) ==
        IF "Faust" \in flags
        THEN ((63 - (vol % 64) + Level(byte)) \div 2 + Scaling(byte)) % 256
        ELSE (63 - vol + Scaling(byte)) % 256
  IN  [v EXCEPT !.level = << Register(v.ch.vol2, Ins(v).data[9]),
                             Register(v.ch.vol1, Ins(v).data[10]) >>]

playnote(v) ==
  LET keyed == setfreq([v EXCEPT !.ch.key = 1, !.bd = Ins(v).misc])
  IN  setvolume(IF "Faust" \in flags
                THEN [keyed EXCEPT !.ch.vol1 = 63, !.ch.vol2 = 63] ELSE keyed)

setnoteUnheard(v, note) ==  \* faulty variant: the key-off stays in the channel
  LET n == Greatest(1, Least(96, note))
  IN  IF note = 127 THEN [v EXCEPT !.ch.key = 0]
      ELSE [v EXCEPT !.ch.freq = Wrapped(NoteFreq(notetable, n) + Ins(v).slide),
                     !.ch.oct = NoteOct(n)]

setnote(v, note) ==
  LET n == Greatest(1, Least(96, note))
  IN  IF note = 127 THEN setfreq([v EXCEPT !.ch.key = 0])
      ELSE [v EXCEPT !.ch.freq = Wrapped(NoteFreq(notetable, n) + Ins(v).slide),
                     !.ch.oct = NoteOct(n)]

SlideUnheard(v, ch) == [v EXCEPT !.ch = ch]     \* faulty variant: without setfreq()
Slide(v, ch) == setfreq([v EXCEPT !.ch = ch])
Volume(v, ch) == setvolume([v EXCEPT !.ch = ch])

-----------------------------------------------------------------------------
(***************************************************************************)
(* The tick loop: the special arpeggio of the instrument, if the song has  *)
(* arpeggio tables, and then the timer dependent part of the command.      *)
(***************************************************************************)

arpcmd(pos) == song.arp[pos].cmd
arplist(pos) == song.arp[pos].list

ArpCommand(v) ==
  LET pos == v.ch.arppos
      vol == Least(63, arplist(pos))
  IN  CASE arpcmd(pos) = 252 -> Volume(v, [v.ch EXCEPT !.vol1 = vol, !.vol2 = vol])
        [] arpcmd(pos) = 253 -> setfreq([v EXCEPT !.ch.key = 0])
        [] arpcmd(pos) = 254 -> [v EXCEPT !.ch.arppos = arplist(pos)]
        [] OTHER -> v

ArpNote(v) ==
  LET pos == v.ch.arppos
  IN  CASE arpcmd(pos) = 252 -> setnote(v, v.ch.note)
        [] arpcmd(pos) # 252 /\ arplist(pos) <= 96 -> setnote(v, v.ch.note + arplist(pos))
        [] arpcmd(pos) # 252 /\ arplist(pos) >= 100 -> setnote(v, arplist(pos) - 100)
        [] OTHER -> v

SpecialArpeggio(v) ==
  LET played1 == setfreq(ArpNote(ArpCommand(v)))
      pos == played1.ch.arppos
  IN  CASE song.arp = <<>> \/ Ins(v).arpstart = 0 -> v
        [] OTHER ->
           IF v.ch.arpspdcnt > 0 THEN [v EXCEPT !.ch.arpspdcnt = @ - 1]
           ELSE IF arpcmd(v.ch.arppos) = 255 THEN v
           ELSE [played1 EXCEPT
                   !.ch.arppos = IF arpcmd(pos) = 255 THEN pos ELSE (pos + 1) % 256,
                   !.ch.arpspdcnt = (Ins(v).arpspeed - 1) % 256]

Arpeggio(v) ==
  LET t == IF v.ch.trigger < 2 THEN v.ch.trigger + 1 ELSE 0
      turned == [v EXCEPT !.ch.trigger = t]
  IN  setfreq(setnote(turned, v.ch.note + << 0, v.ch.info1, v.ch.info2 >>[t + 1]))

TonePortamento(v) == Slide(v, tone_portamento(v.ch, v.ch.portainfo))
Vibrato(v) ==
  IF v.ch.vibinfo1 = 0 \/ v.ch.vibinfo2 = 0 THEN v
  ELSE Slide(v, vibrato(v.ch, v.ch.vibinfo1, v.ch.vibinfo2))

VolumeSlide(v, both) ==
  Volume(v, IF v.ch.info1 > 0 THEN VolumeUp(v.ch, v.ch.info1, both)
                              ELSE VolumeDown(v.ch, v.ch.info2, both))
SlowVolumeSlide(v, both) == IF del % 4 = 0 THEN VolumeSlide(v, both) ELSE v

FrameSlide(v) ==        \* command 28: a step up and a step down while they last
  LET up(c) == IF c.info1 > 0 THEN [slide_up(c, 1) EXCEPT !.info1 = @ - 1] ELSE c
      down(c) == IF c.info2 > 0 THEN [slide_down(c, 1) EXCEPT !.info2 = @ - 1] ELSE c
  IN  Slide(v, down(up(v.ch)))

TickCommand(v) ==
  LET fx == v.ch.fx
      info == InfoOf(v.ch.info1, v.ch.info2)
  IN  CASE fx = 0 /\ info > 0 -> Arpeggio(v)
        [] fx = 1 -> Slide(v, slide_up(v.ch, info))
        [] fx = 2 -> Slide(v, slide_down(v.ch, info))
        [] fx = 3 -> TonePortamento(v)
        [] fx = 4 -> Vibrato(v)
        [] fx = 5 -> SlowVolumeSlide(TonePortamento(v), TRUE)
        [] fx = 6 -> SlowVolumeSlide(Vibrato(v), TRUE)
        [] fx = 10 -> SlowVolumeSlide(v, TRUE)
        [] fx = 14 /\ v.ch.info1 = 3 /\ del % (v.ch.info2 + 1) = 0 -> playnote(v)
        [] fx = 16 -> SlowVolumeSlide(v, Additive(v))
        [] fx = 20 -> Volume(v, IF info < 50 THEN VolumeDown(v.ch, info, Additive(v))
                                             ELSE VolumeUp(v.ch, info - 50, Additive(v)))
        [] fx = 26 -> VolumeSlide(v, TRUE)
        [] fx = 28 -> FrameSlide(v)
        [] OTHER -> v

-----------------------------------------------------------------------------
(***************************************************************************)
(* The row loop: instrument, note, and the row dependent commands of the   *)
(* channel's cell, in this order.                                          *)
(***************************************************************************)

LoadInstrument(v, cell) ==
  LET ins == inst[cell.inst - 1]
      loaded == [v EXCEPT !.ch.inst = cell.inst - 1]
  IN  IF cell.inst = 0 THEN v
      ELSE IF "Faust" \in flags THEN loaded
      ELSE Volume(loaded, [loaded.ch EXCEPT !.vol1 = 63 - Level(ins.data[10]),
                                            !.vol2 = 63 - Level(ins.data[9])])

StartsNote(cell) == cell.note # 0 /\ cell.command # 3

StartNote(v, cell) ==
  LET noted == setnote([v EXCEPT !.ch.note = cell.note], cell.note)
  IN  IF ~StartsNote(cell) THEN v
      ELSE [noted EXCEPT !.ch.nextfreq = noted.ch.freq, !.ch.nextoct = noted.ch.oct,
                         !.ch.arppos = Ins(v).arpstart, !.ch.arpspdcnt = 0]

SetCommand(v, cell) ==
  [v EXCEPT !.ch.fx = cell.command, !.ch.info1 = cell.param1, !.ch.info2 = cell.param2]

PortamentoTarget(v, note) ==
  CASE note = 0 -> v
    [] note = 127 -> [v EXCEPT !.ch.nextfreq = v.ch.freq, !.ch.nextoct = v.ch.oct]
    [] OTHER -> [v EXCEPT !.ch.nextfreq = NoteFreq(notetable, note),
                          !.ch.nextoct = NoteOct(note)]

(* regbd holds tremolo depth in bit 7 and vibrato depth in bit 6.          *)
DepthBits(tremolo, vib) == (IF tremolo THEN 128 ELSE 0) + (IF vib THEN 64 ELSE 0)
HasTremolo(byte) == byte \div 128 = 1
HasVibrato(byte) == (byte \div 64) % 2 = 1
SetDepthAdds(v, tremolo, vib) ==    \* faulty variant: + for |
  [v EXCEPT !.regbd = @ + DepthBits(tremolo, vib), !.bd = v.regbd + DepthBits(tremolo, vib)]
SetDepth(v, tremolo, vib) ==
  LET byte == (v.regbd % 64) + DepthBits(tremolo, vib)
  IN  [v EXCEPT !.regbd = byte, !.bd = byte]

ExtendedCommand(v, x, y) ==
  CASE x = 0 -> SetDepth(v, y # 0, HasVibrato(v.regbd))
    [] x = 1 -> SetDepth(v, HasTremolo(v.regbd), y # 0)
    [] x = 4 -> Volume(v, VolumeUp(v.ch, y, Additive(v)))
    [] x = 5 -> Volume(v, VolumeDown(v.ch, y, Additive(v)))
    [] x = 6 -> Slide(v, slide_up(v.ch, y))
    [] x = 7 -> Slide(v, slide_down(v.ch, y))
    [] OTHER -> v

RowCommand(v, cell) ==
  LET fx == cell.command
      x == cell.param1
      y == cell.param2
      info == InfoOf(x, y)
      vol == Least(63, info)
      target == PortamentoTarget(v, cell.note)
  IN  CASE fx = 3 -> IF info > 0 THEN [target EXCEPT !.ch.portainfo = info] ELSE target
        [] fx = 4 /\ info > 0 -> [v EXCEPT !.ch.vibinfo1 = x, !.ch.vibinfo2 = y]
        [] fx = 8 -> setfreq([v EXCEPT !.ch.key = 0])
        [] fx = 9 -> Volume(v, IF x > 0 THEN [v.ch EXCEPT !.vol1 = (x * 7) % 256]
                                        ELSE [v.ch EXCEPT !.vol2 = (y * 7) % 256])
        [] fx = 12 -> Volume(v, [v.ch EXCEPT !.vol1 = vol, !.vol2 = vol])
        [] fx = 14 -> ExtendedCommand(v, x, y)
        [] fx = 17 -> Volume(v, [v.ch EXCEPT !.vol1 = vol,
                                             !.vol2 = IF Additive(v) THEN vol ELSE @])
        [] fx = 21 -> Volume(v, [v.ch EXCEPT !.vol2 = vol])
        [] fx = 22 -> Volume(v, [v.ch EXCEPT !.vol1 = vol])
        [] fx = 23 -> Slide(v, slide_up(v.ch, info))
        [] fx = 24 -> Slide(v, slide_down(v.ch, info))
        [] fx = 27 -> SetDepth(v, x # 0, y # 0)
        [] OTHER -> v

PlayCell(v, cell) ==
  LET noted == SetCommand(StartNote(LoadInstrument(v, cell), cell), cell)
      struck == IF StartsNote(cell) /\ cell.note # 127 THEN playnote(noted) ELSE noted
  IN  RowCommand(struck, cell)

-----------------------------------------------------------------------------
(***************************************************************************)
(* set_opl_chip(), and the effect of a handler on the channel and on the   *)
(* registers of the chip that is then selected.  Writes to the silent      *)
(* object of songlength() go nowhere.                                      *)
(***************************************************************************)

ChipOf(c) == IF c < VoicesPerChip THEN 0 ELSE 1

set_opl_chipLate(c) ==  \* faulty variant: curchip is assigned before it is tested
  /\ curchip' = ChipOf(c)
  /\ selected' = IF ChipOf(c) = curchip' THEN selected
                 ELSE [selected EXCEPT ![opl] = ChipOf(c)]

set_opl_chip(c) ==
  /\ curchip' = ChipOf(c)
  /\ selected' = IF ChipOf(c) = curchip THEN selected
                 ELSE [selected EXCEPT ![opl] = ChipOf(c)]

Voice(c) ==
  LET s == selected'[opl]
      o == c % VoicesPerChip
  IN  [ch |-> channel[c], regbd |-> regbd,
       fnum |-> fnum[s][o], level |-> level[s][o], bd |-> bd[s]]

VoiceBecomes(c, v) ==
  LET s == selected'[opl]
      o == c % VoicesPerChip
  IN  /\ channel' = [channel EXCEPT ![c] = v.ch]
      /\ regbd' = v.regbd
      /\ IF opl = "silent" THEN UNCHANGED <<fnum, level, bd>>
         ELSE /\ fnum' = [fnum EXCEPT ![s][o] = v.fnum]
              /\ level' = [level EXCEPT ![s][o] = v.level]
              /\ bd' = [bd EXCEPT ![s] = v.bd]
      /\ UNCHANGED opl

ModTick ==
  /\ TickChannel
  /\ set_opl_chip(chan)
  /\ VoiceBecomes(chan, TickCommand(SpecialArpeggio(Voice(chan))))

ModRow ==
  /\ RowChannel
  /\ set_opl_chip(chan)
  /\ IF Skipped THEN UNCHANGED <<channel, regbd, opl, fnum, level, bd>>
     ELSE VoiceBecomes(chan, PlayCell(Voice(chan), Cell))

(* The steps of update() that leave channels and chips alone.              *)
ModControl ==
  /\ FullStop \/ BeginUpdate \/ Wait \/ NextRowDue \/ Resolve \/ StrayRow \/ Advance
  /\ UNCHANGED <<voiceVars, chipVars>>

ModUpdate == ModTick \/ ModRow \/ ModControl

(***************************************************************************)
(* rewind(): init() clears the chips' registers and selects the first chip *)
(* (the silent object's init() does nothing); in OPL3 mode the second chip *)
(* is selected in between.  curchip is left as it is.                      *)
(***************************************************************************)
Cleared(value) == [s \in Chips |-> [o \in ChipVoices |-> value]]

VoicesRewound ==
  LET byte == DepthBits("Tremolo" \in flags, "Vibrato" \in flags)
      chip == IF opl = "silent" /\ "Opl3" \notin flags THEN selected[opl] ELSE 0
  IN  /\ channel' = [c \in 0 .. (nchans - 1) |-> ZeroChannel]
      /\ regbd' = byte
      /\ selected' = [selected EXCEPT ![opl] = chip]
      /\ IF opl = "silent" THEN UNCHANGED <<fnum, level, bd>>
         ELSE /\ fnum' = Cleared(<<0, 0, 0>>) /\ level' = Cleared(<<0, 0>>)
              /\ bd' = [s \in Chips |-> IF s = chip THEN byte ELSE 0]
      /\ UNCHANGED <<curchip, opl>>

ModRewind == SeqRewind /\ VoicesRewound

(* A player is constructed on a Copl object that may have either chip      *)
(* selected, and its loader ends with rewind(0).                           *)
ModInit ==
  /\ SeqInit
  /\ curchip \in Chips /\ opl = "real"
  /\ selected = [o \in {"real", "silent"} |-> 0]
  /\ channel = [c \in 0 .. (nchans - 1) |-> ZeroChannel]
  /\ regbd = DepthBits("Tremolo" \in flags, "Vibrato" \in flags)
  /\ fnum = Cleared(<<0, 0, 0>>) /\ level = Cleared(<<0, 0>>)
  /\ bd = [s \in Chips |-> IF s = 0 THEN regbd ELSE 0]

ModNext == ModUpdate \/ ModRewind

ModSpec == ModInit /\ [][ModNext]_modVars

-----------------------------------------------------------------------------
(* Type invariant of the channels and registers.                           *)
ChannelType ==
  [freq : Word, nextfreq : Word, oct : 0 .. 10, nextoct : 0 .. 10, vol1 : Byte, vol2 : Byte,
   inst : Byte, fx : Byte, info1 : Byte, info2 : Byte, key : {0, 1}, note : 0 .. 127,
   portainfo : Byte, vibinfo1 : Byte, vibinfo2 : Byte, arppos : Byte, arpspdcnt : Byte,
   trigger : 0 .. 63]

ModTypeOK ==
  /\ TypeOK
  /\ \A c \in Channels : channel[c] \in ChannelType
  /\ regbd \in Byte /\ curchip \in Chips
  /\ opl \in {"real", "silent"} /\ selected \in [{"real", "silent"} -> Chips]
  /\ fnum \in [Chips -> [ChipVoices -> (0 .. 1023) \X (0 .. 7) \X {0, 1}]]
  /\ level \in [Chips -> [ChipVoices -> Byte \X Byte]]
  /\ bd \in [Chips -> Byte]

(***************************************************************************)
(* What a handler writes for a channel reaches that channel's own chip,    *)
(* although set_opl_chip() trusts curchip, which neither rewind() (whose   *)
(* init() and OPL3 setup change the selection), nor songlength() (which    *)
(* exchanges the OPL object), nor the constructor keeps in step.           *)
(***************************************************************************)
WritesReachTheirChip ==
  [][chan' = chan + 1 /\ pc \in {"tick", "row"} => selected'[opl] = ChipOf(chan)]_modVars

(***************************************************************************)
(* The OPL sounds what the channels say: a channel that plays a note has   *)
(* exactly its frequency, octave and key in the frequency registers of its *)
(* voice, not a truncated one and not the one before the last effect.      *)
(* `fresh' excludes the time after songlength(), see Player.               *)
(***************************************************************************)
PitchMirrored(c) ==
  fnum[ChipOf(c)][c % VoicesPerChip] = << channel[c].freq, channel[c].oct, 1 >>

PitchSounds ==
  \A c \in Channels : channel[c].key = 1 /\ channel[c].note # 0 => PitchMirrored(c)

(* A released channel is silent on the chip too.                           *)
ReleaseSounds ==
  \A c \in Channels : channel[c].key = 0 => fnum[ChipOf(c)][c % VoicesPerChip][3] = 0

(***************************************************************************)
(* The level registers hold the channel's volumes, in range, next to the   *)
(* key scaling bits of the channel's instrument: no volume command lets    *)
(* 63 - volume underflow into those bits.  (Before the first volume write  *)
(* they hold what init() put there.  In Faust mode the instrument change   *)
(* itself writes no volume.)                                               *)
(***************************************************************************)
LevelMirrored(c) ==
  LET ins == inst[channel[c].inst]
  IN  level[ChipOf(c)][c % VoicesPerChip] =
        << 63 - channel[c].vol2 + Scaling(ins.data[9]),
           63 - channel[c].vol1 + Scaling(ins.data[10]) >>

LevelsSound ==
  "Faust" \notin flags =>
    \A c \in Channels :
      \/ level[ChipOf(c)][c % VoicesPerChip] = <<0, 0>>
      \/ channel[c].vol1 <= 63 /\ channel[c].vol2 <= 63 /\ LevelMirrored(c)

=============================================================================
