------------------------------ MODULE Database ------------------------------
(***************************************************************************)
(* CAdPlugDatabase (database.cpp): records in the order of their insertion *)
(* and in hash chains.  A record is an object on the heap that belongs to  *)
(* its creator until insert() takes it, and to the database afterwards;    *)
(* wipe() deletes it but keeps its bucket, in the list and in the chain.   *)
(*                                                                         *)
(* Objects are [key, id] records with an id no other object ever has, a    *)
(* chain is the sequence of the indexes its `chain' pointers lead through, *)
(* a database file the sequence of its records' keys behind their number.  *)
(***************************************************************************)
EXTENDS Integers, Sequences, FiniteSets

CONSTANTS
  Keys,           \* CRC16:CRC32 pairs
  hash_radix,     \* 0xfff1: buckets of the hash table, and room in db_linear
  Hash,           \* (crc32 + crc16) % hash_radix of each key
  Unknown,        \* a record of a type factory() does not know
  Files,          \* record sequences of the files load() may be given
  MaxAllocs,      \* bound: record objects created (model checking)
  MaxMine         \* bound: objects the caller holds at a time (model checking)

Slots == 0 .. (hash_radix - 1)

ASSUME DatabaseAssumption ==
  /\ hash_radix \in Nat \ {0} /\ Hash \in [Keys -> Slots]
  /\ Unknown \notin Keys /\ Files \subseteq Seq(Keys \cup {Unknown})
  /\ MaxAllocs \in Nat /\ MaxMine \in Nat

VARIABLES
  db_linear,    \* the buckets' records, in the order of insertion
  deleted,      \* indexes of the buckets whose record is deleted
  db_hashed,    \* the chains
  linear_index, linear_length, linear_logic_length,
  mine,         \* objects that belong to the caller
  freed,        \* objects that have been deleted
  allocs,       \* how many objects have been created
  file,         \* the database file: [length, records]
  busy,         \* "save" or "load" while that operation runs, or "no"
  saving,       \* index of the bucket save() looks at next
  loading,      \* records load() has yet to read
  found         \* the last result of insert() or lookup()

lists == <<db_linear, deleted, db_hashed, linear_length, linear_logic_length>>
heap == <<mine, freed, allocs>>
disk == <<file, busy, saving, loading>>
dbVars == <<lists, linear_index, heap, disk, found>>

NULL == [key |-> Unknown, id |-> 0]
Objects == [key : Keys, id : Nat]

Used == 0 .. (linear_length - 1)
Live == Used \ deleted
LiveRecords == {db_linear[i] : i \in Live}
KeyAt(i) == db_linear[i].key

-----------------------------------------------------------------------------
(* lookup(): the first bucket of the key's chain that is not deleted.      *)
(* search() is lookup() and, if that finds the key, get_record().          *)

Chain(k) == db_hashed[Hash[k]]

MatchesDeleted(k) ==    \* faulty variant: deleted buckets match too
  { p \in 1 .. Len(Chain(k)) : KeyAt(Chain(k)[p]) = k }
Matches(k) ==
  { p \in 1 .. Len(Chain(k)) : Chain(k)[p] \notin deleted /\ KeyAt(Chain(k)[p]) = k }
Contains(k) == Matches(k) # {}

Position(k) ==          \* where lookup() leaves linear_index
  \/ ~Contains(k) /\ UNCHANGED linear_index
  \/ \E p \in Matches(k) : /\ \A q \in Matches(k) : p <= q
                           /\ linear_index' = Chain(k)[p]

Lookup(k) ==
  /\ busy = "no"
  /\ Position(k) /\ found' = Contains(k)
  /\ UNCHANGED <<lists, heap, disk>>

-----------------------------------------------------------------------------
(* insert(): what the call does to the database.  The lookup() in it moves *)
(* linear_index to the record that is in the way.                          *)

HasRoom == linear_length # hash_radix
AcceptsAny(k) == HasRoom    \* faulty variant: without the lookup()
Accepts(k) == HasRoom /\ ~Contains(k)

AddUnlinked(o) ==       \* faulty variant: a bucket that joins no chain
  /\ db_linear' = [db_linear EXCEPT ![linear_length] = o]
  /\ linear_length' = linear_length + 1 /\ linear_logic_length' = linear_logic_length + 1
  /\ UNCHANGED <<db_hashed, deleted>>

Add(o) ==
  /\ db_linear' = [db_linear EXCEPT ![linear_length] = o]
  /\ db_hashed' = [db_hashed EXCEPT ![Hash[o.key]] = Append(@, linear_length)]
  /\ linear_length' = linear_length + 1 /\ linear_logic_length' = linear_logic_length + 1
  /\ UNCHANGED deleted

New(k) ==               \* the caller creates a record object
  /\ busy = "no" /\ allocs < MaxAllocs /\ Cardinality(mine) < MaxMine
  /\ allocs' = allocs + 1 /\ mine' = mine \cup {[key |-> k, id |-> allocs + 1]}
  /\ UNCHANGED <<lists, linear_index, freed, disk, found>>

InsertShared(o) ==      \* faulty variant: the caller keeps the record, too
  /\ busy = "no" /\ o \in mine /\ Accepts(o.key)
  /\ Add(o) /\ found' = TRUE
  /\ UNCHANGED <<linear_index, heap, disk>>

Insert(o) ==
  /\ busy = "no" /\ o \in mine /\ Accepts(o.key)
  /\ Add(o) /\ mine' = mine \ {o} /\ found' = TRUE
  /\ UNCHANGED <<linear_index, freed, allocs, disk>>

Refused(k) == IF HasRoom THEN Position(k) ELSE UNCHANGED linear_index

InsertRefused(o) ==
  /\ busy = "no" /\ o \in mine /\ ~Accepts(o.key)
  /\ Refused(o.key) /\ found' = FALSE
  /\ UNCHANGED <<lists, heap, disk>>

-----------------------------------------------------------------------------
(* The two versions of wipe().                                             *)

Drop(i) ==
  IF i \notin deleted
  THEN /\ deleted' = deleted \cup {i} /\ freed' = freed \cup {db_linear[i]}
       /\ linear_logic_length' = linear_logic_length - 1
       /\ UNCHANGED <<db_linear, db_hashed, linear_length>>
  ELSE UNCHANGED <<lists, freed>>

Wipe ==
  /\ busy = "no" /\ linear_length # 0
  /\ Drop(linear_index)
  /\ UNCHANGED <<linear_index, mine, allocs, disk, found>>

WipeRecord(o) ==        \* o may be any object the caller has a pointer to
  /\ busy = "no" /\ o \in mine \cup LiveRecords
  /\ Contains(o.key) /\ Position(o.key)
  /\ Drop(linear_index')
  /\ UNCHANGED <<mine, allocs, disk, found>>

-----------------------------------------------------------------------------
(* get_record() and the moves of the current position.                     *)

get_record == IF linear_length = 0 THEN NULL ELSE db_linear[linear_index]

MoveTo(i) ==
  /\ busy = "no" /\ linear_index' = i
  /\ UNCHANGED <<lists, heap, disk, found>>

GoForward == linear_index + 1 < linear_length /\ MoveTo(linear_index + 1)
GoBackward == linear_index # 0 /\ MoveTo(linear_index - 1)
GotoBegin == linear_length # 0 /\ MoveTo(0)
GotoEnd == linear_length # 0 /\ MoveTo(linear_length - 1)

-----------------------------------------------------------------------------
(***************************************************************************)
(* save() writes the logical length and the records that are not deleted;  *)
(* load() creates a record for each one it reads, hands it to insert() and *)
(* deletes it again if it is refused.  Nothing else runs until it is done. *)
(***************************************************************************)

SaveHeaderOfAll ==      \* faulty variant: deleted records are counted
  /\ busy = "no" /\ busy' = "save" /\ saving' = 0
  /\ file' = [length |-> linear_length, records |-> <<>>]
  /\ UNCHANGED <<lists, linear_index, heap, loading, found>>

Save ==
  /\ busy = "no" /\ busy' = "save" /\ saving' = 0
  /\ file' = [length |-> linear_logic_length, records |-> <<>>]
  /\ UNCHANGED <<lists, linear_index, heap, loading, found>>

SaveBucket ==
  /\ busy = "save" /\ saving < linear_length /\ saving' = saving + 1
  /\ file' = IF saving \notin deleted
             THEN [file EXCEPT !.records = Append(@, KeyAt(saving))]
             ELSE file
  /\ UNCHANGED <<lists, linear_index, heap, busy, loading, found>>

SaveDone ==
  /\ busy = "save" /\ saving = linear_length /\ busy' = "no" /\ saving' = 0
  /\ UNCHANGED <<lists, linear_index, heap, file, loading, found>>

LoadButLast ==          \* faulty variant: one record short
  /\ busy = "no" /\ allocs + Len(file.records) <= MaxAllocs
  /\ busy' = "load" /\ loading' = SubSeq(file.records, 1, file.length - 1)
  /\ UNCHANGED <<lists, linear_index, heap, file, saving, found>>

Load ==
  /\ busy = "no" /\ allocs + Len(file.records) <= MaxAllocs
  /\ busy' = "load" /\ loading' = SubSeq(file.records, 1, file.length)
  /\ UNCHANGED <<lists, linear_index, heap, file, saving, found>>

LoadDone ==
  /\ busy = "load" /\ loading = <<>> /\ busy' = "no"
  /\ UNCHANGED <<lists, linear_index, heap, file, saving, loading, found>>

LoadUnknown ==          \* factory() returns 0, insert(0) false
  /\ busy = "load" /\ loading # <<>> /\ Head(loading) = Unknown
  /\ loading' = Tail(loading)
  /\ UNCHANGED <<lists, linear_index, heap, file, busy, saving, found>>

LoadedObject == [key |-> Head(loading), id |-> allocs + 1]

LoadAdded ==
  /\ busy = "load" /\ loading # <<>> /\ Head(loading) # Unknown /\ Accepts(Head(loading))
  /\ Add(LoadedObject) /\ found' = TRUE
  /\ loading' = Tail(loading) /\ allocs' = allocs + 1
  /\ UNCHANGED <<linear_index, mine, freed, file, busy, saving>>

LoadRefused ==
  /\ busy = "load" /\ loading # <<>> /\ Head(loading) # Unknown /\ ~Accepts(Head(loading))
  /\ Refused(Head(loading)) /\ found' = FALSE
  /\ loading' = Tail(loading) /\ allocs' = allocs + 1
  /\ freed' = freed \cup {LoadedObject}
  /\ UNCHANGED <<lists, mine, file, busy, saving>>

-----------------------------------------------------------------------------
EmptyOnly ==            \* faulty variant: the position is left
  /\ db_linear' = [i \in Slots |-> NULL] /\ db_hashed' = [h \in Slots |-> <<>>]
  /\ deleted' = {} /\ linear_length' = 0 /\ linear_logic_length' = 0
  /\ UNCHANGED linear_index

Empty ==                \* what the constructor sets up
  /\ db_linear' = [i \in Slots |-> NULL] /\ db_hashed' = [h \in Slots |-> <<>>]
  /\ deleted' = {}
  /\ linear_index' = 0 /\ linear_length' = 0 /\ linear_logic_length' = 0

Replace ==              \* the database is destroyed and a new one created
  /\ busy = "no" /\ Empty
  /\ freed' = freed \cup LiveRecords
  /\ UNCHANGED <<mine, allocs, disk, found>>

DbInit ==
  /\ db_linear = [i \in Slots |-> NULL] /\ db_hashed = [h \in Slots |-> <<>>]
  /\ deleted = {}
  /\ linear_index = 0 /\ linear_length = 0 /\ linear_logic_length = 0
  /\ mine = {} /\ freed = {} /\ allocs = 0
  /\ file \in {[length |-> Len(s), records |-> s] : s \in Files}
  /\ busy = "no" /\ saving = 0 /\ loading = <<>>
  /\ found = FALSE

DbNext ==
  \/ \E k \in Keys : New(k) \/ Lookup(k)
  \/ \E o \in mine : Insert(o) \/ InsertRefused(o)
  \/ Wipe
  \/ \E o \in mine \cup LiveRecords : WipeRecord(o)
  \/ GoForward \/ GoBackward \/ GotoBegin \/ GotoEnd
  \/ Save \/ SaveBucket \/ SaveDone
  \/ Load \/ LoadUnknown \/ LoadAdded \/ LoadRefused \/ LoadDone
  \/ Replace

DbSpec == DbInit /\ [][DbNext]_dbVars

-----------------------------------------------------------------------------
(***************************************************************************)
(* The two lists hold the same buckets: every bucket is in the chain of    *)
(* its own key, once, and nothing else is, so that wipe(), which only      *)
(* knows db_linear, and lookup(), which only knows the chains, agree.      *)
(***************************************************************************)
ChainsMatchList ==
  /\ \A h \in Slots : \A p \in 1 .. Len(db_hashed[h]) :
       /\ db_hashed[h][p] \in Used
       /\ Hash[KeyAt(db_hashed[h][p])] = h
       /\ \A q \in 1 .. Len(db_hashed[h]) : db_hashed[h][p] = db_hashed[h][q] => p = q
  /\ \A i \in Used : \E p \in 1 .. Len(Chain(KeyAt(i))) : Chain(KeyAt(i))[p] = i

(* No key has two live buckets, however often it was wiped and inserted.   *)
KeysDistinct ==
  \A i, j \in Live : KeyAt(i) = KeyAt(j) => i = j

(***************************************************************************)
(* An object has one owner: a live bucket's record has not been deleted,   *)
(* belongs to no caller and to no other bucket, so that neither a second   *)
(* wipe() nor the destructor deletes anything twice.                       *)
(***************************************************************************)
OneOwner ==
  /\ mine \cap freed = {}
  /\ LiveRecords \cap (mine \cup freed) = {}
  /\ \A i \in Live : \A j \in Used : db_linear[i] = db_linear[j] => i = j

(* linear_logic_length, which save() writes as the number of records that  *)
(* follow, is the number of live buckets.                                  *)
LogicLength == linear_logic_length = Cardinality(Live)

(* The current position is a bucket's as soon as there is one.             *)
PositionValid == linear_index \in Used \/ (linear_length = 0 /\ linear_index = 0)

(***************************************************************************)
(* load() merges: when it is done every key of the file is in, unless the  *)
(* list is full.  (That no record is replaced by it is StoreSpec's part.)  *)
(***************************************************************************)
LoadMerges ==
  [][LoadDone =>
       \A i \in 1 .. Len(file.records) :
         file.records[i] # Unknown => Contains(file.records[i]) \/ ~HasRoom]_dbVars

(* A file that save() wrote announces as many records as it has.           *)
HeaderCounts == busy # "save" => file.length = Len(file.records)

(* The database as the set of records it promises to be.                   *)
RS == INSTANCE RecordStore WITH
        Records <- [key : Keys, id : 1 .. MaxAllocs], Capacity <- hash_radix,
        spent <- linear_length, store <- LiveRecords
StoreSpec == RS!StoreSpec

(***************************************************************************)
(* "[wipe(CRecord * )] removes exactly this record from the database ...    *)
(* If the record object is not in the database, nothing is done." (doc/    *)
(* libadplug.texi).                                                        *)
(***************************************************************************)
WipeRemovesThatRecord ==
  [][\A o \in mine : WipeRecord(o) => UNCHANGED lists]_dbVars
=============================================================================
