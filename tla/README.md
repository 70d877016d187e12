# A TLA+ model of AdPlug

AdPlug (`src/src`) plays music that was written for the Yamaha OPL2/OPL3
chips.  A *loader* reads a file into a *player*; a frontend then calls the
player's `update()` once per timer tick, and the player writes chip registers
through a *Copl* object, which is an emulator, real hardware, a file, or a
filter in front of two other Copl objects.  A *song database* identifies files
by key.  The library is sequential: what is hard about it is protocol, not
threads.  State is kept in several places that must agree (the order position
and the end flag, the channel records and the chip, a cached chip selection and
the real one, a list and its hash chains), and long sequences of legal commands
or calls drive these places apart.

## 1. Inventory

| component | state | operations | what makes it correct |
|---|---|---|---|
| CmodPlayer sequencer (`protrack.cpp`) | order position, row, speed, tempo, tick counter, end flag | `update()`, `resolve_order()`, `rewind()` | no command takes it out of a song whose entries are in range; the end is reported before anything repeats; every call returns and every song ends |
| CmodPlayer voices (`protrack.cpp`) | channel records, `regbd`, `curchip`; the chips' registers | the effects of `update()`, `setfreq()`, `setvolume()`, `playnote()`, `set_opl_chip()` | the chips sound what the channel records say; a write reaches the channel's own chip |
| CPlayer (`player.cpp`) | the player, the `opl` pointer, the song clock | `songlength()`, `seek()` | the length depends on the song alone; `seek()` finds the same end; measuring is silent; both return |
| song database (`database.cpp`) | linear list, hash chains, deleted flags, current position, record ownership | `insert`, `wipe`, `lookup`, `search`, the moves, `load`, `save` | list and chains agree; one live record per key; each record is deleted once |
| surround OPL (`surroundopl.cpp`) | shadows of the frequency registers of both chips, chip selection | `write`, `setchip`, `init` | the second chip plays the first one's note, transposed |
| format detection (`adplug.cpp`, `players.cpp`, `fprovide.cpp`) | the list of players; the object being tried and what it holds | `factory()`, every `load()` | every refusal is clean; what is handed out has been rewound; it returns |
| recording OPL (`diskopl.cpp`) and RAW replayer (`raw.cpp`) | file, rate, chip selection; position, delay, speed | `write`, `setchip`, `init`, `update`, `setnowrite`; `load`, `update`, `rewind` | what is played back is what was recorded, at its time and on its chip |
| hardware OPL (`realopl`, `analopl`) | volume shadows | `write`, `setvolume`, `setquiet` | the chips hold the shadows less the master volume |
| CmodPlayer loaders (`sa2`, `a2m`, `amd`, `adtrack`, `cff`, `dfm`, `dtm`, `fmc`, `mad`, `mtr`) | none that lasts | `load()` | leave a song that fits the arrays it is in; the order list is checked by some only |
| XAD replayers (`xad`, `hyp`, `psi`, `flash`, `rat`, `hybrid`, `bmf`) | a shared tick counter; position, loops | `xadplayer_rewind()`, `xadplayer_update()` | the contract of `update()` below |
| trackers (`hsc`, `s3m`, `fmk`, `sng`, `xsm`, `ksm`, `d00`, `lds`, `plx`, `sop`, `cmfmcsop`, `pis`, `wm`, `bam`, `jbm`, `mkj`, `got`) | an order list, a stream, or one per voice; key bits | `rewind()`, `update()` | the contract; no row repeats before the end is reported |
| Reality AdLib Tracker (`rad2.cpp`) | order, line, riffs and instrument riffs of each channel | `Stop()`, `Update()` | the contract |
| AdLib Tracker 2 (`a2m-v2.cpp`) | order, row, pattern loops and delays, macro tables, locks | `a2t_stop()`, `a2t_play()`, `newtimer()` | the contract; no row repeats before the end is reported |
| Westwood driver (`adl.cpp`) | programs of ten channels, a queue of programs, a stack for calls | `rewind()`, `callback()`, the opcodes | the contract; a callback returns |
| MIDI-like replayers (`cmf`, `mid`, `herad`, `xmi`, `rol`, `mus`, `mdi`, `coktel`, `u6m`, `rix`) | event positions, loop stacks, voice allocation | `rewind()`, `update()` | the contract; an update returns |
| register dump replayers (`dro`, `dro2`, `vgm`, `imf`, `msc`) | stream position, delay | `rewind()`, `update()` | the contract; an update returns |
| decompressors, emulators | - | - | third-party code, used as is |

**Interactions.** A frontend owns a player and a Copl.  A player holds a
pointer to the Copl; `songlength()` exchanges that pointer for a silent object
while it plays the song once.  The player tells the Copl which of two chips the
next writes are for (`setchip`) and remembers what it said (`curchip`), so the
chip selection is known in two places.  Loaders fill the player's song and end
with `rewind(0)`.  `factory()` and the database are used before playing.

**The contract of `update()`.**  `CPlayer::songlength()` and `CPlayer::seek()`
call whatever replayer they are given until `update()` returns false, and
`libadplug.texi:375-386` says what a frontend may expect: `update()` returns
true until the end and false from then on, and `rewind()` goes back to the
beginning.  So a song has one length, whatever was played before.  The module
`Contract` states this, and every replayer is held to it.

**Hard behaviours.** End-of-song detection across wraps, jump markers, position
jumps and pattern breaks; state that `rewind()` leaves; stale caches of the chip
selection; arithmetic in 8 and 16 bits; deleted records that stay in two lists;
a `load()` that is refused half way.  There are no threads, and nothing but the
database file survives a restart.

`PROJECT.json` lists the hazards by line; section 3 says which property answers
which.

## 2. The modules

| module | models | extends |
|---|---|---|
| `ModSequencer` | the control flow of `update()`, `resolve_order()` and `rewind()` | |
| `ModPitch` | the helpers on a channel's frequency and volumes | |
| `ModPlayer` | the effects of each step on channels and chips | `ModSequencer`, `ModPitch` |
| `Player` | `songlength()`, `seek()` and a frontend around `ModPlayer` | `ModPlayer` |
| `RecordStore` | the abstract database: a set of records | |
| `Database` | `CAdPlugDatabase`; instantiates `RecordStore` as what it implements | |
| `SurroundOpl` | `CSurroundopl`: tables, transposition, chip selections | |
| `DiskOpl` | `CDiskopl`: the words it writes to its file | |
| `RawPlayer` | `CrawPlayer`: `update()`, `rewind()`, the data `load()` leaves | |
| `Contract` | the abstract replayer: what `songlength()` and `seek()` rely on | |
| `Replay` | the object a frontend holds and its calls; the properties of all replayers; instantiates `Contract` | |
| `ReplayXad` | `CxadPlayer` and its six formats | `Replay` |
| `ReplayTrackers` | `hsc`, `s3m`, `fmk`: patterns whose rows all voices share | `ReplayXad` |
| `ReplayStreams` | `sng`, `imf`, `got`, `dro`, `dro2`, `vgm`, `msc`, `xsm`, `ksm`, `bam`, `jbm`, `mkj`: one stream | `Replay` |
| `ReplayVoices` | `d00`, `lds`, `plx`, `sop`, `cmfmcsop`, `pis`, `wm`: a track for each voice | `ReplayStreams` |
| `ReplayAdl`, `ReplayRad` | the Westwood driver; Reality AdLib Tracker | `ReplayVoices`, `ReplayAdl` |
| `ReplayMidi` | `cmf`, `mid`, `herad`: channels that share voices | `ReplayRad` |
| `ReplayComposer` | `composer.cpp` and `rol`, `mus`, `mdi`, `coktel`, which drive it | `ReplayMidi` |
| `ReplayGames`, `ReplayXmi`, `ReplayA2m` | `u6m` and `rix`; `xmi`; AdLib Tracker 2 | the one before |
| `Replayers` | a frontend with one of the replayers | all of them |
| `LoadPaths` | the paths of every `load()`, as far as an owner can tell them apart | |
| `Loading` | `CAdPlug::factory()` over the list of players | `LoadPaths` |
| `Tape` | a recording by the one, played back by the other; captured files | `DiskOpl`, `RawPlayer` |
| `ModSequencerProofs`, `DatabaseProofs`, `SurroundOplProofs`, `TapeProofs`, `LoadingProofs` | theorems about the module of that name | the module, `TLAPS` |
| `PlayerProofs` | theorems about `Player`: what update() is under `songlength()` and `seek()` | `Player`, `ModSequencerProofs` |
| `VoiceProofs` | theorems about channels and chips, in `ModPlayer` and under `Player` | `PlayerProofs` |
| `ReplayersProofs` | theorems about all the replayers of `Replayers` | `Replayers`, `TLAPS` |
| `MCSequencer`, `MCPlayer`, `MCPlayerOps`, `MCDatabase`, `MCSurround`, `MCTape`, `MCReplayers`, `MCLoading` | songs, keys, files and register values for TLC | the module they instantiate |
| `MCStreamSongs`, `MCVoiceSongs`, `MCMidiSongs` | songs of `MCReplayers`, by kind | one another |

**ModSequencer.**  One call of `update()` is a run of steps, from `pc =
"ready"` back to it.  The steps are the bodies of the code's loops: one
`TickChannel` per channel, `Wait` or `NextRowDue` on the tick counter,
`resolve_order()` as one step per order list entry it looks at (so that a loop
of markers is an infinite behaviour and not an undefined operator), one row
step per channel, and `Advance`.  `ord`, `rw`, `del`, `speed`, `tempo`,
`songend` are the members of that name; `pattnr`, `row`, `pattbreak`,
`pattern_delay` are locals of `update()`.  `ret` and `played` are ghosts: the
last result, and the rows played since the last rewind.  Numbers keep their
width: parameters and delays are taken modulo 256.  The song is a constant
record that satisfies `WellFormed`: it fits the arrays that `realloc_patterns()`
and `realloc_order()` allocate, and no more is asked of its order list.
`norders` is the size of that array; the bytes between `length` and `norders`,
which some loaders leave uninitialised, are arbitrary.  `Closed` says of a song
that every jump marker, the restart position and every pattern named is in
range.  The loaders `a2m`, `adtrack`, `dtm` and `sa2` make sure of it and the
other six do not (section 3, divergences).  A step that would read outside the
order list, the patterns or the rows leads to `pc = "outside"` instead
(`StrayOrder`, `StrayRow`, `ReadsOutside`); what the program does from there on
is undefined, so the behaviour ends there.

**ModPlayer** conjoins to each sequencer step what that step does to a channel
record and to the OPL voice of that channel.  A `voice` is the channel record
with the registers the handler may write; handlers are functions from voices to
voices in the order of the code.  Modelled registers: frequency/block/key
(0xa0, 0xb0), the two levels (0x40, 0x43) and 0xbd.  The instrument and
waveform registers, which `playnote()` copies unchanged, are left out.  The
real Copl object keeps a selection of its own, `selected`, beside the player's
`curchip`.  A constructed player may be given either value of `curchip`: the
constructor asks the Copl it is handed, which may have been used before.

**Player** adds the frontend, which calls `update()`, `rewind()`, `seek()` and
`songlength()` in any order, and the loops of the last two around the same
`ModPlayer` actions.  Time is `1000 / getrefresh()` in whole milliseconds.
`clock` is what a frontend, `songlength()` or `seek()` adds up.

**Database** keeps `db_linear` and `db_hashed` as in the code.  A record object
is its key and an identity; `freed` are the objects that have been deleted,
`mine` those a caller has not yet handed over.  `wipe()` and `insert()` are
atomic; `save()` and `load()` run record by record.  The first bucket in a chain
that matches decides a lookup.  `RecordStore` is the specification on which the
documentation agrees with the code: distinct keys, a first record that stays,
a capacity counted in insertions.

**SurroundOpl** is the filter between a player and two Copl objects.  `write()`
is three actions, for the two halves of a note and for every other register;
`init()`, `setchip()` and `set_offset()` are one each.  The filter has a chip
selection of its own, `currChip`, and its children have theirs, `selected`; its
tables `fmReg` and `tweaked` are indexed with the former, the chips' registers
`chipA` and `chipB` with the latter.  The code transposes in doubles.  The model
divides integers and admits only offsets that are powers of two up to 1024, for
which the doubles are exact; the default, 128, is one.  `tuned`, `parted` and
`astray` are ghosts: the offset a voice was last written with, whether `init()`
has left the two selections different, and whether anything was written then.

**DiskOpl**, **RawPlayer** and **Tape** put two components together that no test
of the repository does: what `CDiskopl` writes, `CrawPlayer` reads.  `file` is
the sequence of two-byte words behind the header.  Each call of the recorder is
an action; a call of the replayer's `update()` is a run of steps, one per word.
A refresh rate is its period in units of 1192737 Hz, the constant the recorder
divides by the rate, so that its `18.2 / rate` is a division by 65535.  (The
replayer divides 1193180 by the clock; that it plays everything 0.04% faster is
left out.)  `heard` and `sounded` are ghosts, the writes given to the recorder
and those made by the replayer, each with its chip and time; `slack` adds up
what the recorder's divisions lose.  `lastpass` is what a song that returns to
its start sounded like before.  The emulators' `init()`, which selects chip 0
(`nemuopl.cpp:51`), is part of `Rewound`.

**Replay** holds what the replayers share: `p`, the record of the fields of the
one that `load()` has chosen, and the counters of `Contract`.  A replayer is an
action for `rewind()` and one or more for `update()`.  Where `update()` reads a
bounded number of entries it is one step; where the song decides how many, as in
streams and byte codes, each entry is a step of its own (`pc` says where), so
that a call that never returns is an infinite behaviour.  An event stands for
its bytes.  What is kept: positions, counters, delays, loop and call stacks, end
flags, the allocation of voices, key bits, and every field that `rewind()` or a
later play depends on.  `read` and `past` are ghosts, for the formats of
patterns: the rows the last `update()` read and those that the updates before it
have read since the rewind, a row being its order, its number and the count of
the loop it is in.  FMK needs one in its record as well, `rows`: its `next_row()`
comes to a row, handles it, and may go on to others by way of jumps and breaks,
and each is handled once more by the next `update()` with tick 0.  What is left
out: frequencies, levels, instruments, and
the effects that change only these.  `Constructed` gives the fields that a
constructor and `load()` leave, arbitrary where they leave them uninitialised.
`Kept` names, for each replayer, the fields its `rewind()` does not reset
(`Leaves`); `RewindRestores` excludes these and no others, and `KeepsContract` shows for the
songs of the run that they cannot change a song's length:

| replayer | fields that survive `rewind()` |
|---|---|
| `hsc` | the shadow `adl_freq` (key bits, frequencies to slide from) |
| `ksm`, `msc` | `drumstat`; `dec_len` and `dec_dist` of a copy that is broken off |
| `lds`, `plx` | the tempo and the speed that a song has set |
| `adl` | `_globalTempo`, `_callbackTimer`, the beat counters, rhythm and depth bits, drum levels, extra levels |
| `rad` | `Speed`, and what is left of riffs that have stopped |
| `cmf`, `u6m`, `xmi`, `a2m` | `bPercussive`; `instrument_offsets`; `MIDI_vprot`; the lock flags |
| `rol`, `mus`, `mdi`, `coktel` | in `composer.cpp`: the drums struck, the pitch range and the memory of the last bend |

**Loading.**  A `load()` is the set of its paths, a path the sequence of steps
that its owner can tell apart: opening and closing, taking and freeing memory,
`rewind()`, and the checks at which it may refuse, each with what it gives back
before it returns.  What a file contains decides only which path is taken and
where it ends, with one restriction: a format that has refused a file refuses it
whenever it is asked again, since `load()` depends on nothing else.  `factory()`
is the two passes over `allplayers` with the life of each object.

Operators whose comment begins with *faulty variant* are not part of the model:
each is the definition below it with a plausible mistake.  `PROJECT.json` pairs
each one with the property that the mistake violates, which shows that the
property is about the code and can fail.

## 3. What is checked

| run | module | what it asks | answer |
|---|---|---|---|
| `sequencer` | `MCSequencer` | Does `update()` read inside a closed song (`InBounds`), stop only where it records an end (`StopIsAnEnd`), report the end before a row repeats (`NoReplayBeforeReport`), keep to the report (`EndIsSticky`), return (`UpdateReturns`), and report every song's end at some time (`SongEnds`)? | yes |
| `voices` | `MCPlayer` | Do the chips hold what the channel records say: pitch (`PitchSounds`), key-on (`ReleaseSounds`), levels (`LevelsSound`), in the ranges of their C++ types (`ModTypeOK`)? | yes, with parameters of 9xy up to 9 |
| `operations` | `MCPlayerOps` | Is the length the song's own (`LengthIsTheSongs`), does measuring leave the chips alone (`MeasuresInSilence`), is the real Copl connected whenever the player sounds (`SoundFollows`), does every write reach the channel's own chip (`WritesReachTheirChip`), does `seek()` end the song exactly where it is sent beyond its measured length (`SeekMeetsLength`), do both return (`OperationsReturn`)? | yes |
| `database` | `MCDatabase` | Do list and chains agree (`ChainsMatchList`), are keys and owners unique (`KeysDistinct`, `OneOwner`), are counts and position right (`HeaderCounts`, `PositionValid`), does loading merge (`LoadMerges`), and is all of it a `RecordStore` (`StoreSpec`)? | yes |
| `database_wipe` | `MCDatabase` | Does `wipe(record)` remove only that record? | no |
| `surround` | `MCSurround` | Are the tables what the chips hold (`TablesTrue`), and does the second chip play the first one's notes, transposed (`Harmonic`), unless a write follows `init()` on another chip than 0? | yes |
| `surround_init` | `MCSurround` | And without that condition? | no |
| `tape` | `MCTape` | Does a replay make the recorded writes at their times on their chips (`ReplayFaithful`), all of them (`ReplayComplete`), does a looping song sound the same in every pass (`EveryPassTheSame`), is its end reported (`ReplayEnds`) for good (`RawEndIsSticky`)? | yes, without registers 0, 2, 255 |
| `tape_commands` | `MCTape` | And with register 2? | no |
| `replayers` | `MCReplayers` | For each of 41 replayers: is no row read a second time before the end is reported (`RepeatsAreReported`), does `rewind()` restore everything but `Kept` (`RewindRestores`), does the replayer implement `Contract` (`KeepsContract`), does `update()` return (`UpdateReturns`), is the end of a song that is played on always reported (`EndReported`)? | yes, for the songs below |
| `replayers_speed` | `MCReplayers` | And for a RAD tune that changes its speed? | no |
| `loading` | `MCLoading` | Is every way out of a `load()` clean (`LeftClean`), is nothing given back twice (`GivenOnce`), is a player rewound exactly if its file is valid (`RewoundIfValid`), does `factory()` return (`FactoryReturns`)? | yes |

How the hazards are answered, in short: for a cached chip selection
`WritesReachTheirChip`, `TablesTrue` and `Harmonic`; for the order list and its
end `InBounds`, `NoReplayBeforeReport`, `EndIsSticky`, `SongEnds` and, in the
other replayers, `EndReported` and `KeepsContract`; for jumps, breaks and loops
in several channels of a row `RepeatsAreReported`; for two loops that must find
one end `SeekMeetsLength`; for what `rewind()` leaves behind
`LengthIsTheSongs` and `RewindRestores`; for deleted records in two lists
`ChainsMatchList`, `KeysDistinct` and `OneOwner`; for refused and partial loads
`LoadMerges`, `LeftClean` and `GivenOnce`; for arithmetic at its limits
`PitchSounds`, `LevelsSound` and `SurroundTypeOK`; for a format written in one
place and read in another `ReplayFaithful` and `ReplayComplete`; for loops that
may not end `UpdateReturns`, `OperationsReturn`, `ReplayEnds` and
`FactoryReturns`.  One hazard has no property: the delay that wraps in
`CmodPlayer`'s `del`, which the model has and no document limits.

Bounds, and why they are enough:

- *sequencer* - two channels, two patterns of two rows, order lists of two to
  four entries.  Two channels are what a conflict of two commands in a row
  needs; two rows what a break into the middle of a pattern needs; the order
  lists have a wrap to the start, a wrap into the middle, a wrap onto a marker,
  a leading marker, markers forward and back, and one that points at itself.
  Every jump stands against every jump and every timing command in the other
  channel, and three follow-ups in the other pattern.  Besides these closed
  songs there are broken ones (`BrokenSongs`): a marker beyond the array and one
  beyond the song, a pattern that does not exist, restart positions beyond the
  array and the song, and empty lists, each with every jump; they do reach
  `"outside"`, and `EndIsSticky` and `StopIsAnEnd` hold of them up to there.
  Nothing else bounds the run: the engine's state is finite.
- *voices* - two channels on two chips of one voice each (`VoicesPerChip = 1`),
  one pattern of two rows: every pair of commands in a row each, on the lowest
  and the highest note, followed by no note, a note, or a release; every
  command under each loader's flags; every command above a special arpeggio.
  Speed 2 gives each command a tick of its own.  The song repeats, so that
  effects accumulate to their limits.
- *operations* - `MaxMeasures = 2` calls of `songlength()` (two are needed to
  differ), songs of 60 or 80 ms, a `Limit` of 200 ms in place of the 10 minutes
  of `player.cpp:54`, seeks to the start, to 60 and 61 ms
  (the end of the shorter songs, the point behind it, and the middle of the
  longer ones), and far behind the end, called before and after it.
- *database* - three keys, two in one chain, a table of three buckets (in place
  of 65521) so that it fills up, two files, one of them with a record of unknown
  type and one with a key twice; `MaxAllocs = 4` record objects in a behaviour,
  of which the caller holds `MaxMine = 1` at a time.
- *surround* - one voice on both chips; low and high bytes that combine to
  F-numbers below, on and above both limits at which the block changes, in
  blocks 0, 3 and 7, with the key on and off; one register without pitch;
  offsets 64 and 128.  The filter treats the voices alike and each by itself,
  so a second voice would repeat the first; the proof covers all nine, and all
  F-numbers.
- *tape* - recordings of up to `MaxWords = 7` words before the last command, on
  one channel of both chips (`Channels = 1`, `init()` is then three words): room
  for two changes of rate with a write after each, among chip selections, pauses
  and resets.  One period is a tick of the file, one takes two with a remainder.
  The captures end in an end mark with and without a tag, break off inside a
  speed command, change chip and speed before they loop, have a delay of 256
  ticks (a zero byte), and a clock of zero.

- *replayers* - three plays of each song (`MaxPlays`: two are needed for a
  rewind in the middle and a full play after it, the third comes after that),
  with a rewind possible after every update; `MaxTicks = 600` is more than any
  song of the run lasts, so it never cuts a play short, or `EndReported` would
  fail.  After a reported end the frontend makes two more calls (`Overrun`); for
  `plx` and `adl` none, because they go on after it (below).  Two voices, or one
  of each kind that the code treats differently (`ComposerVoices`: melodic,
  bass drum, the drums that share a voice), two rows, two channels.  Each song
  set combines every event its `update()` tells apart, two or three at a time,
  with order lists that end, jump forward, back and to themselves, and name
  missing patterns.  HYBRID's songs jump in the last voice and in the first one,
  where a jump takes the voices after it to another order in the same row
  (`hybrid.cpp:147`, 168).  Counters whose wrap is what ends a song are scaled:
  `HscOrders` (50), `S3mOrders` (256), `A2mOrders` (128), `WmTicks` (2000000),
  `AdlBytes` (256 values of durations).  A step that could leave everything as
  it is would hide a call that never returns, since it looks like no step;
  there is none in the run.
- *loading* - nothing is scaled: every format of `allplayers` in its order, all
  extensions, one that no player lists, and one of a side file.  The state is
  one object at a time, because `factory()` holds one at a time.

**Fairness.**  Safety needs none.  `SeqLiveSpec` assumes weak fairness of the
steps of `update()`: a call that has begun runs on, because nothing preempts a
C++ function, and a frontend calls `update()` again, as `test/playertest.cpp`
does in its loop.  `PlayerLiveSpec` assumes only that a begun `songlength()` or
`seek()` runs on; the frontend need not call anything.  `RunsOn` says so with
weak fairness of the steps of the two loops, and for the steps of `update()`
inside them with the condition written out (`stage = "run"` does not last
without a step), because TLC would evaluate the enabledness of that large
disjunction in every state; each state of `update()` has its next step, which
the deadlock check of the run confirms.  `TapeLiveSpec` assumes that a frontend
that has loaded a file plays on.  `Replay`
assumes of a frontend that it loads (`Started`) and that its timer goes on
calling `update()` and that a call that has begun runs on (`Timer`); it may
rewind whenever it likes, but not for ever, since plays are bounded.  `Timer` is
written out as a condition on `Playing` for the same reason as
`RunsOn`: while a replayer plays or is in `update()` it has a next step.
`Loading` assumes weak fairness of its steps: `factory()` is one call.  The
database and the surround filter have no liveness property: their loops are over finite lists, or there is none.

Deadlock is checked in every run but those of `MCReplayers`, where a frontend
stops after the last play, `loading`, where `factory()` has returned, and
`sequencer`, where a broken song ends in an undefined read.  Closed songs do not
stop: `SongEnds` and `UpdateReturns` would fail.

**Divergences.**  Four runs end in a violation of something a comment or the
documentation states; `PROJECT.json` quotes the lines.

- `database_wipe`: `wipe(record)` promises to remove exactly that object and to
  do nothing if it is not in the database (texi 992); it removes whichever
  record has an equal key (`database.cpp:182`).
- `surround_init`: `init()` puts the children on chip 0 and does not reset
  `currChip` (`surroundopl.cpp:226`), so that the writes up to the next
  `setchip()` are remembered for the other chip, and a later note on that voice
  is transposed with the wrong half.  `raw.cpp` is a player that does this.
- `tape_commands`: `CDiskopl` promises to write all OPL commands to the file (texi
  289-292); a write to register 0, 2 or 255 is a command of the file format
  (`diskopl.cpp:71`).  `dro.cpp:238` and `fmk.cpp:711` make such writes in
  `rewind()`.
- `replayers_speed`: `Stop()` promises to reset the tune (`rad2.cpp:882`) and
  `rewind()` to go back to the beginning (texi 383); `Speed` stays, and a tune
  that changes it is played again at another length.

Other divergences were met and have no run of their own.  The models have them
as the code does; where one would end a run, the run's songs leave it out, and
the list says so.

*Order lists that are not checked.*  `protrack.cpp:197` indexes the patterns with
the order list's entries and `protrack.cpp:490` follows its markers, both
without a test.  Six loaders do not make sure that they may: `amd.cpp:95-99`
tests the pattern numbers and not the targets of markers; `cff.cpp:234` tests
`order[0]` alone against 0x36 where the others are tested against 36;
`dfm.cpp:73-76`, `mad.cpp:78` (which stores the byte less one, so 255 for 0) and
`mtr.cpp:109-112` test nothing, nor does `mtr.cpp:201` the restart position;
`fmc.cpp:155-160` may leave an empty list, whose restart position is then outside
it.  Such songs are among the model's; `InBounds` claims nothing of them but is
not vacuous by that, since being in range entry by entry does not yet keep
markers away from `trackord`.  A marker to beyond the end of the list also defeats
the report before the repetition, so `NoReplayBeforeReport` asks for
`JumpsInside`.  Channels beyond 18 (`fmc.cpp:47` takes 32, `mtr.cpp:73` up to 256,
where `update()`'s `unsigned char chan` never reaches `nchans`, and bits of
`activechan` beyond 31 do not exist) are in the sequencer's theorems up to 255,
but not in the model of the voices.

*CmodPlayer, database, RAW.*  Two jump markers that point at each other keep
`resolve_order()` running for ever, which detects only a marker that points at
itself (`protrack.cpp:490`; the songs of `sequencer` have no such cycle, so that
`UpdateReturns` says that all else returns, and would not show this).
Command 9xy with a parameter of 10 and above sets a volume beyond 63, which
writes below zero into the level register (`protrack.cpp:289`, texi 1530; the
songs of `voices` stop at 9, so that `LevelsSound` does not meet it).  A pattern delay above 250 frames wraps in `del`
(`protrack.cpp:449`, texi 1558); a frequency slide by more than the frequency
wraps in `freq` (`protrack.cpp:710`, texi 1523; no slide in the songs of `voices`
is that large); notes 97 to 126, which texi
1500-1504 says are ignored, sound as note 96 (`protrack.cpp:700`).
`get_record()` returns a pointer to the deleted record after `wipe()`
(`database.cpp:202`, texi 1012).  The RAW replayer tests for the end of the data
before the delay that is left (`raw.cpp:129`), so that the last tick of a slow
recording is cut short; `ReplayComplete` allows for it.  A chip selection made
while `setnowrite()` hides the recorder's output is not in the file
(`diskopl.cpp:65`).

*Songs that never end, or updates that never return.*  Left out of the songs of
`replayers`: two pattern loops in one pattern share their count in `s3m`; loops
without a pause in `vgm`, `sng`, `wm` and `u6m`, two nested loops in `pis`, a
label that is not defined in `bam`, order jumps in a circle in `d00`; data that
ends in a delay, or has only delays of zero, in `cmf`; a last position without a
jump in `lds`; subsongs with zero repetitions in `u6m`; version 1 of `adl`,
which never finds that a song repeats; pattern loops on two channels of a row,
and an order list without room for a mark, in `a2m-v2` (2936-2965, 3026-3038).
Left out too are songs that repeat without a report: `hybrid` knows no end but a
jump back (`hybrid.cpp:168-171`), so a song without one reads on behind its order
list (221-225), and a jump to 255 is no jump back but leads to order 0; a jump
back of `fmk` (`fmk.cpp:769-774`) sets no end flag; `lds` takes a jump
for the end only below its position (`lds.cpp:257`), so not one to the position
itself, nor the wrap of a break or of the last position (251, 367).  Data of `mus`
and `mdi` that ends in a delay other than zero stalls at its end: nothing is left
to play, and `songend` is set only after a command (`mus.cpp:520-545`).

*Songs whose second play differs.*  Left out likewise: tempo commands in `lds`
(529-561) and speed commands in `plx`; `Speed` in `rad2`, but for its run; a
block that begins with a broken copy in `msc`; jumps that skip a speed command
in `fmk`.  `mus` and `mdi`: the running status byte survives `rewind()`
(`mus.cpp:328-343`, 383, `mdi.cpp:99-115`, 147).  It decides how the first event
is read if that has no status of its own.  The model's events carry their status,
so such songs are not among its songs, and the byte is not among its fields.

*Reports that do not last.*  `plx` returns false only on ticks on which a channel
ends, and `adl` true again after a program starts another; texi 375-382 promises
false from then on.  `MCOverrun` ends their plays at the first report.  `rix`
and `coktel` rewind themselves after the end.

*Voices.*  `cmf`: a note-off by status 0x80 does not clear `iNotePlaying`
(405-428).  `mid`: a note-on of velocity 0 with all voices busy cuts the oldest
one (557-575), and a note-off by 0x80 never clears a drum bit.  `xmi`:
`update_priority()` compares with an unsigned -1, so that no voice is ever
stolen (1088-1155); a full note queue overwrites its first entry.  `cmfmcsop`:
`setAxBx()` refuses channel 8 (334-335).  `ksm`: a first note at time 0 is never
played.  `rol`: an event whose tick has passed stalls its list.  `a2m-v2`:
`a2t_stop()` clears lock flags that nothing restores; loops on channel 16 are
read as jumps.  `rad2`: a jump to a line of a pattern that is missing calls
`SkipToLine()` with a null track (1158-1160; left out of the songs).

## 4. What is proved

The eight modules of proofs are checked by TLAPS, for every value of the
constants: every set of songs that fit their arrays; every hash function, table size, set
of keys and files; any voices, bytes and admissible offsets; any recording and
captured files; any list of
the loaders' players and any extensions; any songs of the 41 replayers.  The
assumptions are the
named ones of the modules (`SongsAssumption`, `VoicesAssumption`,
`PlayerAssumption`, `DatabaseAssumption`, `SurroundAssumption`, `DiskAssumption`,
`PlayersAssumption`, `KeptAssumption`), which TLC evaluates on the constants of the runs.  Two
groups of theorems have a hypothesis besides, which their arguments below
explain: that a recorded player does not write the file format's three command
registers, and that songs are `Playable` and, for two theorems, `Gentle`.

| theorem | states | of the run's property |
|---|---|---|
| `TypeInvHolds`, `EndInvHolds` | the sequencer's two inductive invariants | |
| `BoundsSafe` | no command takes `update()` out of a closed song | `InBounds` |
| `StopRecorded` | it stops dead only where the end is recorded | `StopIsAnEnd` |
| `EndStays` | a reported end stays reported until `rewind()` | `EndIsSticky` |
| `NoReplay` | no row is played twice before the report, if markers stay inside the list | `NoReplayBeforeReport` |
| `DbInvHolds` | the database's inductive invariant | |
| `ListsAgree`, `KeysStayDistinct`, `OwnersDistinct`, `PositionStays`, `LengthIsLogical`, `HeaderIsRight` | its parts | `ChainsMatchList`, `KeysDistinct`, `OneOwner`, `PositionValid`, `LogicLength`, `HeaderCounts` |
| `LoadingMerges` | `load()` ends with the file's known keys stored, or with the database full | `LoadMerges` |
| `Implements` | `CAdPlugDatabase` implements `RecordStore` | `StoreSpec` |
| `SurroundInvHolds` | the filter's inductive invariant | |
| `RegistersAreBytes`, `TablesStayTrue`, `SecondChipInTune` | its parts | `SurroundTypeOK`, `TablesTrue`, `Harmonic` |
| `RawEndStays` | a reported end of a RAW file stays reported until `rewind()` | `RawEndIsSticky` |
| `PassInvHolds` | the invariant of the passes over a RAW file | |
| `PassesAreTheSame` | every pass over a file that starts again makes the same writes | `EveryPassTheSame` |
| `TapeInvHolds` | the invariant that ties the recorder to the replayer | |
| `ReplayIsFaithful`, `ReplayIsComplete` | what is replayed is what was recorded, and all of it | `ReplayFaithful`, `ReplayComplete` |
| `PlayerImplementsSequencer` | `PlayerSpec` implements `SeqSpec` | |
| `OperationsKeepSequencer` | the sequencer's properties inside `songlength()` and `seek()` | |
| `ChipInvHolds`, `WalkInvHolds` | the inductive invariants of `Player` | |
| `WritesReach` | a channel's step finds its own chip selected | `WritesReachTheirChip` |
| `MeasuresSilently` | `songlength()` leaves the real chips alone | `MeasuresInSilence` |
| `SeekMeets` | `seek()` ends a song exactly when sent beyond its measured length | `SeekMeetsLength` |
| `LengthStays` | `songlength()` depends on the song alone | `LengthIsTheSongs` |
| `ModInvHolds`, `TornInvHolds` | the inductive invariants of the channels, in `ModPlayer` and under `Player` | |
| `ChannelsStayTyped`, `ReleasesAreHeard`, `LevelsFollow` | no channel member or register leaves its range; released voices are silent; levels are the channels' | `ModTypeOK`, `ReleaseSounds`, `LevelsSound` |
| `PitchFollows` | a keyed voice sounds its channel's octave and frequency, as far as the register holds it | |
| `SoundFollowsOperations` | these four under `songlength()` and `seek()` | |
| `GentlePitchSounds` | in gentle songs a playing channel's frequency is all in its register | `PitchSounds` |
| `GentleSoundFollows` | the same with key-offs and levels, under `songlength()` and `seek()` | `SoundFollows` |
| `RewindsRestore` | each of 41 replayers is rewound to what the first `rewind()` left, but for what `Leaves` names | `RewindRestores` |
| `LoadInvHolds` | the inductive invariant of `factory()` | |
| `LoadsLeaveClean`, `LoadsGiveOnce`, `LoadsRewind` | every `load()` of every player closes, frees and rewinds as it must | `LeftClean`, `GivenOnce`, `RewoundIfValid` |

*The sequencer's argument.*  `TypeInv` is `TypeOK`, which holds whatever the order
list says, with `BoundsInv` for closed songs: nothing has been read outside, the
order position is inside the list whenever `update()` is between two rows or
follows markers, and the entry names a pattern while a row is played.
`InBounds` alone is not inductive: that `FollowJump` may look at its next entry
needs that markers point inside (`Closed`), and that a row is played in an
existing pattern needs the second `resolve_order()`, since a wrap may leave the
first one on a marker.
`EndInv` carries the end.  `PastInv`: while `songend = 0`, every row played
since the last rewind comes before the current position in the order
(`<<ord, rw>>`, compared lexically), or is the row being played now.
`ReportInv` links the last result to `songend`: a `false` was returned with the
end recorded or the engine stopped, and a row that follows anything but `false`
is played from an entry that is no marker, with no end recorded.  A step
back in the order always sets `songend`, so that before the report a new row is
a row not played before; and `update()` resolves the order once more after the
last row, so that it says `false` with that row and not with the next.  That this
second look finds an end of the list is where `JumpsInside` is needed, in
`ReportInv`: a marker may otherwise leave the order position behind the end
unnoticed.

*The database's argument.*  `DbInv` joins the properties the run checks
(`ChainsMatchList`, `KeysDistinct`, `OneOwner`, `LogicLength`, `PositionValid`)
with what they rest on: used buckets are a prefix of the list and hold objects
that have been allocated, `mine` and `freed` hold allocated objects, and `save()`
has written as many records as there are live buckets before `saving`.  None of
the properties is inductive alone: that `Insert` keeps `KeysDistinct` needs that
`lookup()` sees every live record, which is `ChainsMatchList`; that `Wipe` keeps
`LogicLength` needs `PositionValid`.  `Implements` maps the abstract `store` to
the live records and `spent` to `linear_length`.

*The surround filter's argument.*  `SurroundInv` joins `SurroundTypeOK`,
`TablesTrue` and `Harmonic` with `Aligned`: the two selections differ only after
an `init()`.  `Harmonic` alone is not inductive: a key-on is transposed with the
low byte in the filter's table, which must be the chip's.  The arithmetic is one
lemma, `TransposedInTune`: for every F-number, block and offset the transposed
F-number fits its ten bits, the block its three, and the new pitch is the
highest of its block that is not above the raised one; the filter's "sanity
check" therefore never bites.

*The RAW replayer's arguments.*  A reported end is final because it is recorded in
`songend`, or because nothing is left to play; the latter lasts, since the
position only moves on.  That every pass sounds the same (`PassInv`) goes by the
path that `update()` takes from the start of the song.  It is deterministic:
what it goes on from (position, delay, speed, chip, and the writes and the time
so far) decides the next step (`Advance`).  While words are left, the replayer
is at a place of one path, and once a pass is complete that path leads to where
the pass ended.  This rests on every pass beginning with what `Rewound` leaves,
and a pass that ends by starting again leaves exactly that.

*The recording's argument.*  `TapeInv` holds a mark for each place in the file,
from before its first word to behind its last: how many of the recorded writes
a replay has made when it comes there, how much time it has counted, and on
which chip and at which speed it is.  Each word leads from its mark to the next
(`Past`), and the last mark is where the recorder is (`LastMark`): all writes
made, its chip, and a time that is off the player's by at most `slack`, the
rounding of the waits.  While the replayer runs, it is at its
position's mark.  So the two need no lockstep, and the file may contain any
number of changes of rate, pauses and selections.  The theorems assume
`Registers \cap CommandRegisters = {}`: a player that writes register 0, 2 or 255
records commands instead, which is the divergence the run `tape_commands`
shows.

*The operations' argument.*  Everything `Player` adds leaves the sequencer's
variables alone or calls its steps, so `PlayerSpec` implements `SeqSpec`, and
the sequencer's theorems carry over (`OperationsKeepSequencer`).  `ChipInv`
relates `curchip` to the chip that the object written to has selected: in a loop
over the channels they agree, from the second channel on.  Elsewhere they may
differ, after `songlength()` has put the real object back, whose selection is as
old as that call; what is left then is that `curchip = 0` means a selection of 0,
and that a selection of 1 is left only to songs that end on the second chip
(`LastChip`).  That is enough for the first channel: it selects, or need not.
`LengthIsTheSongs` relates two runs of one song that may lie far apart.
`WalkInv` therefore names the walk of the song from `rewind()`: `update()` is
deterministic (`OneStep`), so there is one path from `AtStart`, up to where
`update()` first returns `false`.  A point of it is what decides how `update()`
goes on: speed, tempo and delay, order, row and end flag, of the locals those
that are read again (`LiveLocals`, for each `pc`), and the time counted so far.
Whoever plays, the frontend, `seek()` or `songlength()`, is at a point of this
path or plays on after its end, and each measured length is the time at which
the path first stops, at its end or past `Limit` (`Measured`).  Two measurements
have therefore stopped at the same point.  `SeekMeetsLength` relates such a point
to a third walk.  Time only grows along the path (`Climbs`), its end is the one
point with a result of `false`, and a measurement below `Limit` has stopped
there.  `seek()` begins at `AtStart` with its clock at zero; if it returns at the
end, it went on before it with its clock below the goal, and if it returns
elsewhere, its clock has reached the goal at a time not after the end's.

*The channels' argument.*  Each of the handlers is a function from voices to
voices, and one lemma per handler says that it *plays*: it keeps every member in
its range (`GoodChannel`), never raises a released key's bit, writes the levels
whenever it changes a volume, and calls `setfreq()` after it has moved the pitch
of a sounding voice.  `Plays` composes, so a tick is special arpeggio and then
one command, and a row is an instrument, a note, the command's registers, the
key-on and the rest of the command (`PlayCellPlays`).  `VibratoStep` is applied a
number of times that is not known; that no number of steps leaves the range
goes by the least one that would (`LeastNatural`).  Voices of different channels
are different registers (`OwnVoices`: nine channels to a chip, two chips), so a
handler of one leaves what is said of the others (`VoiceStep`).  `Playable` is
the hypothesis: instruments that cells name exist, there are at most 18
channels, command 9 has two decimal digits (beyond that 63 - volume goes below
zero, see the divergences), and the target of a tone portamento is one of the
96 notes or a key-off (a higher one is taken without `setnote()`'s limit and runs
an octave of 8 into the key-on bit).  `MCPlayer` has TLC evaluate it on its songs.
Under `Player` the chips and the channels part when `songlength()` rewinds
silently (`torn`), and meet again with the next `rewind()`; a torn player keeps
its types (`TornInvHolds`).

*Gentle songs.*  `PitchSounds` is more than `PitchFollows`: the frequency of a
channel that plays must fit the register's ten bits, and `slide_down()` of a
frequency smaller than the amount wraps the unsigned short
(`protrack.cpp:710`, among the divergences above).  So it is proved for the songs
that are `Gentle`, which is enough and can be read off a song: with `lo` the
lowest frequency of its notes, pre-slides included, no downward slide or tone
portamento is by more than `lo / 2`, and the notes are below 1024.  Then a slide
either stays above `Lowest`, 342, or takes what is left, at least `lo / 2`, to the
next octave, doubled; and an upward slide, by 255 at most, is halved from 686 on.
`Ranged` is this interval for a channel's frequency and portamento target;
`Settled` is what makes the amounts still to come small, as a channel remembers
its command and its portamento speed across rows.  One lemma per handler says
that a channel *goes* (`Goes`): both are kept, and no key is raised.  `Goes`
composes as `Plays` does.  What is left is a channel that sounds without having
had a note.  A key-off (note 127) counts as its note, and the retrigger command
may then raise the key at frequency 0; a gentle song does not have both, and
`Heard` names the channels that `Ranged` is claimed of.  The invariant `PitchInv`
speaks of channels alone, so that `songlength()` on the silent object keeps it as
well.  `MCPlayer` has TLC evaluate which of its songs are gentle: 3998 of 4284.

*The loaders' argument.*  A path of a `load()` is shown careful by an outline,
the set of what is held before each of its steps and at its end; `Moves` says
what one step may do to it, and that where the file may be refused everything
but members is given back.  A rewound song counts among what is held, so that a
refusal after `rewind()` would be one that keeps something.  Outlines of parts
of a path join (`Then`), which is how the loaders with several paths are done.
`LoadersCareful` collects the loaders of `Loaders`, and `LoadInv` says that
`factory()` is on an outline of the player it asks.  No order or repetition in
the list matters, nor what the extension is.

*The replayers' arguments.*  What a song was when it is rewound does not matter
if the fields after `rewind()` are a function of the song and the subsong, up to
those that `Leaves` names.  So each format has a lemma that its `rewind()` leaves
the fields in the shape that its `XxxFresh` describes, from whatever values
(`LeftBy`), and one that two records of that shape differ at most in `Leaves`
(`Alike`).  A field that `rewind()` forgets is one whose old value `XxxFresh`
would have to mention, and fails the second.  `Remembered` is the invariant: the
format is a known one, and what the first `rewind()` to each subsong left is of
that shape too.  It rests on `Steady`, one lemma per format: no step of an
`update()` touches the song, what is remembered, or the count of plays.  That a
parameter `Kept` contains `Leaves` is `KeptAssumption`; the run takes them equal.

*Only model-checked.*  Liveness (`UpdateReturns`, `SongEnds`,
`OperationsReturn`, `ReplayEnds`, `FactoryReturns`, the `EndReported` of the
replayers) is beyond the prover.  `PitchSounds` and `SoundFollows` of songs that
are not gentle stay with the runs' songs: they are not true of every playable
song.  So does `KeepsContract`, which the songs of `replayers_speed`
violate: what is true of every song is that the fields outside `Leaves` are
restored.  `RepeatsAreReported` does too: where a row leads is a fold over the
events of its voices, which is an induction over data.

## 5. What is not modelled, and what is left

- Inside the modelled parts: the instrument and waveform registers of
  CmodPlayer; the database records' own fields, `user_read()`/`user_write()` and
  the file ID test of `load()`; running out of memory.
- In the replayers of `Replayers`: frequencies, levels and instruments, unless a
  later play or the end of the song depends on them; the effects that only
  change them; the parsing in `load()`, which is data; getters (titles,
  instrument names, positions for display).  This is why they are listed as
  partly modelled.
- `a2m-v2.cpp`: the importers of its older file versions and the effect
  processors of pitch and volume, more than half of the file.
- The Copl objects `emuopl`, `kemuopl`, `temuopl`, `wemuopl`, `nemuopl`: they
  hand writes to an emulator and mix its samples.  `realopl` and `analopl`: port
  I/O of x86 sound cards, on which nothing modelled depends.
- Decompressors and emulators are third-party code: transformations of bytes and
  samples without protocol state.  `debug.c` is output only, `adplugdb` a command
  line around the database, and the tests' loop is `Player`'s frontend.

Left to prove: that the songs of the formats whose `Leaves` is empty keep
`Contract`, which needs the walk of a song from `rewind()` (`WalkInv`, as for
`CmodPlayer`) for each of them.
