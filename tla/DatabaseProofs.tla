--------------------------- MODULE DatabaseProofs ---------------------------
(***************************************************************************)
(* Proofs about Database, for any keys, hash function and table size: the  *)
(* two lists agree, keys are distinct, objects have one owner, and the     *)
(* database implements RecordStore.                                        *)
(*                                                                         *)
(* The argument: insert() may only rely on lookup(), so that keys stay     *)
(* distinct only if lookup() finds every live record (ContainsIff), which  *)
(* holds because no bucket ever leaves the chain of its key, and a deleted *)
(* bucket's record is among the freed ones, so that no live record is an   *)
(* object that some wiped bucket still points to.                          *)
(***************************************************************************)
EXTENDS Database, FiniteSetTheorems, TLAPS

Fields == Keys \cup {Unknown}

ListType ==
  /\ db_linear \in [Slots -> Objects \cup {NULL}] /\ deleted \subseteq Used
  /\ db_hashed \in [Slots -> Seq(Slots)]
  /\ linear_length \in 0 .. hash_radix /\ linear_index \in Slots
  /\ \A i \in Used : db_linear[i] \in Objects

ListInv == ListType /\ ChainsMatchList /\ KeysDistinct /\ PositionValid

Known(o) == o.id >= 1 /\ o.id <= allocs

(* Every object was created, and a wiped bucket's record is deleted.       *)
HeapInv ==
  /\ mine \subseteq Objects /\ freed \subseteq Objects /\ allocs \in Nat
  /\ \A o \in mine \cup freed : Known(o)
  /\ \A i \in Used : Known(db_linear[i])
  /\ \A i \in deleted : db_linear[i] \in freed
  /\ OneOwner

(* What save() has written and what load() has left to read.               *)
FileInv ==
  /\ file \in [length : Nat, records : Seq(Fields)]
  /\ busy \in {"no", "save", "load"} /\ saving \in 0 .. linear_length
  /\ (busy # "save" => saving = 0)
  /\ loading \in Seq(Fields) /\ (busy # "load" => loading = <<>>)
  /\ allocs + Len(loading) <= MaxAllocs
  /\ HeaderCounts
  /\ busy = "save" =>
       /\ file.length = linear_logic_length
       /\ Len(file.records) = Cardinality(Live \cap (0 .. saving - 1))

DbInv == ListInv /\ HeapInv /\ LogicLength /\ FileInv

-----------------------------------------------------------------------------
(* lookup() finds a key exactly when a live record has it.                 *)
LEMMA ContainsIff ==
  ASSUME ListType, ChainsMatchList, NEW k \in Keys
  PROVE  Contains(k) <=> \E i \in Live : KeyAt(i) = k
<1> USE DatabaseAssumption
<1>1. Hash[k] \in Slots
  OBVIOUS
<1>2. ASSUME Contains(k) PROVE \E i \in Live : KeyAt(i) = k
  <2>1. PICK p \in 1 .. Len(Chain(k)) : Chain(k)[p] \notin deleted /\ KeyAt(Chain(k)[p]) = k
    BY <1>2 DEF Contains, Matches
  <2>2. Chain(k)[p] \in Used
    BY <1>1, <2>1 DEF ChainsMatchList, Chain
  <2> QED BY <2>1, <2>2 DEF Live
<1>3. ASSUME NEW i \in Live, KeyAt(i) = k PROVE Contains(k)
  <2>1. PICK p \in 1 .. Len(Chain(k)) : Chain(k)[p] = i
    BY <1>3 DEF ChainsMatchList, Live
  <2> QED BY <1>3, <2>1 DEF Contains, Matches, Live
<1> QED BY <1>2, <1>3

(* What lookup() leaves as the current position is a bucket's index.       *)
LEMMA PositionIsUsed ==
  ASSUME ListType, ChainsMatchList, NEW k \in Keys, Position(k)
  PROVE  IF Contains(k) THEN linear_index' \in Live /\ KeyAt(linear_index') = k
                        ELSE linear_index' = linear_index
<1> USE DatabaseAssumption
<1>1. Hash[k] \in Slots
  OBVIOUS
<1>2. ASSUME NEW p \in Matches(k) PROVE Chain(k)[p] \in Live /\ KeyAt(Chain(k)[p]) = k
  <2>1. Chain(k)[p] \in Used
    BY <1>1 DEF ChainsMatchList, Chain, Matches
  <2> QED BY <2>1 DEF Matches, Live
<1>3. CASE Contains(k)
  BY <1>2, <1>3 DEF Position
<1>4. CASE ~Contains(k)
  BY <1>4 DEF Position, Contains
<1> QED BY <1>3, <1>4

-----------------------------------------------------------------------------
(* Append adds one element at the end.                                     *)
LEMMA AppendIs ==
  ASSUME NEW S, NEW s \in Seq(S), NEW x \in S
  PROVE  /\ Append(s, x) \in Seq(S) /\ Len(Append(s, x)) = Len(s) + 1
         /\ \A q \in 1 .. Len(s) : Append(s, x)[q] = s[q]
         /\ Append(s, x)[Len(s) + 1] = x
  OBVIOUS

(* insert() of a record whose key is not in.                               *)
LEMMA AddKeepsLists ==
  ASSUME ListType, ChainsMatchList, KeysDistinct, PositionValid,
         NEW o \in Objects, Accepts(o.key), Add(o), UNCHANGED linear_index
  PROVE  ListType' /\ ChainsMatchList' /\ KeysDistinct' /\ PositionValid'
<1> USE DatabaseAssumption
<1> DEFINE n == linear_length
           h0 == Hash[o.key]
           c == db_hashed[h0]
<1>1. o.key \in Keys /\ h0 \in Slots
  BY DEF Objects
<1>2. n \in Slots /\ n \notin Used /\ Used' = Used \cup {n} /\ Used \subseteq Slots
  BY DEF ListType, Used, Slots, Add, Accepts, HasRoom
<1>3. /\ db_linear' \in [Slots -> Objects \cup {NULL}]
      /\ db_linear'[n] = o /\ \A i \in Used : db_linear'[i] = db_linear[i]
  BY <1>2 DEF ListType, Add
<1>4. c \in Seq(Slots) /\ Append(c, n) \in Seq(Slots)
  BY <1>1, <1>2, AppendIs DEF ListType
<1>5. /\ db_hashed' \in [Slots -> Seq(Slots)]
      /\ db_hashed'[h0] = Append(c, n)
      /\ \A h \in Slots : h # h0 => db_hashed'[h] = db_hashed[h]
  <2>1. db_hashed' = [db_hashed EXCEPT ![h0] = Append(c, n)]
    BY DEF Add
  <2> HIDE DEF c, h0, n
  <2> QED BY <1>1, <1>4, <2>1 DEF ListType
<1>6. /\ Len(db_hashed'[h0]) = Len(c) + 1
      /\ \A q \in 1 .. Len(c) : db_hashed'[h0][q] = c[q]
      /\ db_hashed'[h0][Len(c) + 1] = n
      /\ Len(c) \in Nat
  BY <1>2, <1>4, <1>5, AppendIs
<1>7. ListType'
  <2>1. deleted' \subseteq Used'
    BY <1>2 DEF ListType, Add
  <2>2. linear_length' \in 0 .. hash_radix
    BY DEF ListType, Add, Accepts, HasRoom
  <2>3. \A i \in Used' : db_linear'[i] \in Objects
    BY <1>2, <1>3 DEF ListType
  <2> QED BY <1>3, <1>5, <2>1, <2>2, <2>3 DEF ListType
<1>8. ChainsMatchList'
  <2>1. ASSUME NEW h \in Slots, NEW p \in 1 .. Len(db_hashed'[h])
        PROVE  /\ db_hashed'[h][p] \in Used'
               /\ Hash[db_linear'[db_hashed'[h][p]].key] = h
               /\ \A q \in 1 .. Len(db_hashed'[h]) :
                    db_hashed'[h][p] = db_hashed'[h][q] => p = q
    <3>1. CASE h = h0
      <4>1. \A q \in 1 .. Len(c) : /\ c[q] \in Used /\ Hash[db_linear[c[q]].key] = h0
                                   /\ \A r \in 1 .. Len(c) : c[q] = c[r] => q = r
        BY <1>1 DEF ChainsMatchList, KeyAt
      <4> HIDE DEF c, n, h0
      <4>2. CASE p = Len(c) + 1
        <5>1. db_hashed'[h][p] = n
          BY <1>6, <3>1, <4>2
        <5>2. \A q \in 1 .. Len(db_hashed'[h]) : db_hashed'[h][q] = n => q = p
          BY <1>2, <1>6, <3>1, <4>1, <4>2
        <5>3. Hash[db_linear'[n].key] = h
          BY <1>3, <3>1 DEF h0
        <5> QED BY <1>2, <5>1, <5>2, <5>3
      <4>3. CASE p # Len(c) + 1
        <5>1. p \in 1 .. Len(c)
          BY <1>6, <3>1, <4>3
        <5>2. db_hashed'[h][p] = c[p] /\ c[p] \in Used
          BY <1>6, <3>1, <4>1, <5>1
        <5>3. Hash[db_linear'[c[p]].key] = h
          BY <1>3, <3>1, <4>1, <5>1
        <5>4. \A q \in 1 .. Len(db_hashed'[h]) : db_hashed'[h][q] = c[p] => q = p
          BY <1>2, <1>6, <3>1, <4>1, <5>1
        <5> QED BY <1>2, <5>2, <5>3, <5>4
      <4> QED BY <4>2, <4>3
    <3>2. CASE h # h0
      <4>1. db_hashed'[h] = db_hashed[h]
        BY <1>5, <3>2
      <4>2. /\ db_hashed[h][p] \in Used /\ Hash[db_linear[db_hashed[h][p]].key] = h
            /\ \A q \in 1 .. Len(db_hashed[h]) : db_hashed[h][p] = db_hashed[h][q] => p = q
        BY <4>1 DEF ChainsMatchList, KeyAt
      <4> QED BY <1>2, <1>3, <4>1, <4>2
    <3> QED BY <3>1, <3>2
  <2>2. ASSUME NEW i \in Used'
        PROVE  \E p \in 1 .. Len(db_hashed'[Hash[db_linear'[i].key]]) :
                 db_hashed'[Hash[db_linear'[i].key]][p] = i
    <3>1. CASE i = n
      <4>1. Hash[db_linear'[i].key] = h0
        BY <1>3, <3>1
      <4>2. Len(c) + 1 \in 1 .. Len(db_hashed'[h0])
        BY <1>6
      <4> QED BY <1>6, <3>1, <4>1, <4>2
    <3>2. CASE i \in Used
      <4>1. PICK h \in Slots : h = Hash[db_linear[i].key] /\ h = Hash[db_linear'[i].key]
        BY <1>3, <3>2 DEF ListType, Objects
      <4>2. PICK p \in 1 .. Len(db_hashed[h]) : db_hashed[h][p] = i
        BY <3>2, <4>1 DEF ChainsMatchList, Chain, KeyAt
      <4>3. CASE h = h0
        BY <1>6, <4>1, <4>2, <4>3
      <4>4. CASE h # h0
        BY <1>5, <4>1, <4>2, <4>4
      <4> QED BY <4>3, <4>4
    <3> QED BY <1>2, <3>1, <3>2
  <2> QED BY <2>1, <2>2 DEF ChainsMatchList, Chain, KeyAt
<1>9. KeysDistinct'
  <2>1. \A i \in Live : db_linear[i].key # o.key
    BY <1>1, ContainsIff DEF Accepts, KeyAt
  <2>2. Live' \subseteq Live \cup {n} /\ Live \subseteq Used
    BY <1>2 DEF Live, Add
  <2>3. \A i, j \in Live' : db_linear'[i].key = db_linear'[j].key => i = j
    BY <1>3, <2>1, <2>2 DEF KeysDistinct, KeyAt
  <2> QED BY <2>3 DEF KeysDistinct, KeyAt
<1>10. PositionValid'
  BY <1>2 DEF PositionValid, Used, Add, ListType
<1> QED BY <1>7, <1>8, <1>9, <1>10
-----------------------------------------------------------------------------
(* wipe() of a bucket.                                                     *)
LEMMA DropKeepsLists ==
  ASSUME ListInv, NEW i \in Used, Drop(i), linear_index' \in Used
  PROVE  ListInv'
<1> USE DatabaseAssumption
<1>1. /\ UNCHANGED <<db_linear, db_hashed, linear_length>>
      /\ deleted' = deleted \cup {i}
  BY DEF Drop, lists
<1>2. Used' = Used /\ Live' \subseteq Live /\ Used \subseteq Slots
  BY <1>1 DEF Used, Live, ListInv, ListType, Slots
<1>3. ListType'
  BY <1>1, <1>2 DEF ListInv, ListType
<1>4. ChainsMatchList'
  BY <1>1, <1>2 DEF ListInv, ChainsMatchList, Chain, KeyAt
<1>5. KeysDistinct'
  BY <1>1, <1>2 DEF ListInv, KeysDistinct, KeyAt
<1>6. PositionValid'
  BY <1>2 DEF PositionValid
<1> QED BY <1>3, <1>4, <1>5, <1>6 DEF ListInv

(* Operations that at most move the current position to a bucket.          *)
LEMMA QuietKeepsLists ==
  ASSUME ListInv, UNCHANGED lists, linear_index' = linear_index \/ linear_index' \in Used
  PROVE  ListInv'
<1> USE DatabaseAssumption
<1>1. UNCHANGED <<db_linear, deleted, db_hashed, linear_length>>
  BY DEF lists
<1>2. Used' = Used /\ Live' = Live /\ Used \subseteq Slots
  BY <1>1 DEF Used, Live, ListInv, ListType, Slots
<1>3. ListType'
  BY <1>1, <1>2 DEF ListInv, ListType
<1>4. ChainsMatchList'
  BY <1>1, <1>2 DEF ListInv, ChainsMatchList, Chain, KeyAt
<1>5. KeysDistinct'
  BY <1>1, <1>2 DEF ListInv, KeysDistinct, KeyAt
<1>6. PositionValid'
  BY <1>1, <1>2 DEF ListInv, PositionValid
<1> QED BY <1>3, <1>4, <1>5, <1>6 DEF ListInv

(* The lookup() at the start of an operation is one of those moves.        *)
LEMMA PositionMoves ==
  ASSUME ListInv, NEW k \in Keys, Position(k) \/ UNCHANGED linear_index
  PROVE  linear_index' = linear_index \/ linear_index' \in Used
  BY PositionIsUsed DEF ListInv, Live

(* The key of an object anybody may have is a key.                         *)
LEMMA ObjectKeys ==
  ASSUME ListType, HeapInv, NEW o \in mine \cup LiveRecords
  PROVE  o \in Objects /\ o.key \in Keys
<1>1. o \in Objects
  BY DEF ListType, HeapInv, LiveRecords, Live
<1> QED BY <1>1 DEF Objects

(* The next record load() reads, if factory() knows its type.              *)
LEMMA HeadIsKey ==
  ASSUME FileInv, loading # <<>>, Head(loading) # Unknown
  PROVE  Head(loading) \in Keys /\ Tail(loading) \in Seq(Fields)
         /\ Len(Tail(loading)) = Len(loading) - 1
<1>1. loading \in Seq(Fields)
  BY DEF FileInv
<1>2. Head(loading) \in Fields
  BY <1>1
<1> QED BY <1>1, <1>2 DEF Fields

(* Every operation keeps the lists.                                        *)
LEMMA ListStep ==
  ASSUME DbInv, DbNext
  PROVE  ListInv'
<1> USE DatabaseAssumption DEF DbInv
<1>1. ASSUME NEW k \in Keys, New(k) PROVE ListInv'
  BY <1>1, QuietKeepsLists DEF New
<1>2. ASSUME NEW k \in Keys, Lookup(k) PROVE ListInv'
  BY <1>2, QuietKeepsLists, PositionMoves DEF Lookup
<1>3. ASSUME NEW o \in mine, Insert(o) PROVE ListInv'
  BY <1>3, ObjectKeys, AddKeepsLists DEF Insert, ListInv
<1>4. ASSUME NEW o \in mine, InsertRefused(o) PROVE ListInv'
  BY <1>4, ObjectKeys, QuietKeepsLists, PositionMoves DEF InsertRefused, Refused, ListInv
<1>5. CASE Wipe
  <2>1. linear_index \in Used
    BY <1>5 DEF Wipe, ListInv, PositionValid
  <2> QED BY <1>5, <2>1, DropKeepsLists DEF Wipe
<1>6. ASSUME NEW o \in mine \cup LiveRecords, WipeRecord(o) PROVE ListInv'
  <2>1. linear_index' \in Used
    BY <1>6, ObjectKeys, PositionIsUsed DEF WipeRecord, ListInv, Live
  <2> QED BY <1>6, <2>1, DropKeepsLists DEF WipeRecord
<1>7. CASE GoForward
  BY <1>7, QuietKeepsLists DEF GoForward, MoveTo, ListInv, ListType, Slots, Used
<1>8. CASE GoBackward
  <2>1. linear_index \in Used
    BY <1>8 DEF GoBackward, ListInv, PositionValid
  <2> QED BY <1>8, <2>1, QuietKeepsLists DEF GoBackward, MoveTo, ListInv, ListType, Used
<1>9. CASE GotoBegin
  BY <1>9, QuietKeepsLists DEF GotoBegin, MoveTo, ListInv, ListType, Used
<1>10. CASE GotoEnd
  BY <1>10, QuietKeepsLists DEF GotoEnd, MoveTo, ListInv, ListType, Used
<1>11. CASE Save \/ SaveBucket \/ SaveDone
  BY <1>11, QuietKeepsLists DEF Save, SaveBucket, SaveDone
<1>12. CASE Load \/ LoadUnknown \/ LoadDone
  BY <1>12, QuietKeepsLists DEF Load, LoadUnknown, LoadDone
<1>13. CASE LoadAdded
  <2>1. LoadedObject \in Objects /\ LoadedObject.key = Head(loading)
    BY <1>13, HeadIsKey DEF LoadAdded, LoadedObject, Objects, HeapInv
  <2> QED BY <1>13, <2>1, AddKeepsLists DEF LoadAdded, ListInv
<1>14. CASE LoadRefused
  BY <1>14, HeadIsKey, QuietKeepsLists, PositionMoves DEF LoadRefused, Refused
<1>15. CASE Replace
  <2>1. /\ linear_length' = 0 /\ linear_index' = 0 /\ deleted' = {}
        /\ db_linear' \in [Slots -> Objects \cup {NULL}]
        /\ db_hashed' \in [Slots -> Seq(Slots)]
        /\ \A h \in Slots : db_hashed'[h] = <<>>
    BY <1>15 DEF Replace, Empty
  <2>2. Used' = {} /\ Live' = {} /\ 0 \in Slots
    BY <2>1 DEF Used, Live, Slots
  <2>3. ListType'
    BY <2>1, <2>2 DEF ListType
  <2>4. ChainsMatchList'
    BY <2>1, <2>2 DEF ChainsMatchList, Chain, KeyAt
  <2> QED BY <2>1, <2>2, <2>3, <2>4 DEF ListInv, KeysDistinct, PositionValid
<1> QED BY <1>1, <1>2, <1>3, <1>4, <1>5, <1>6, <1>7, <1>8, <1>9, <1>10, <1>11, <1>12,
           <1>13, <1>14, <1>15 DEF DbNext
-----------------------------------------------------------------------------
(* A record that no bucket has and that is not deleted becomes a bucket's. *)
LEMMA AddKeepsHeap ==
  ASSUME ListInv, HeapInv, NEW o \in Objects, Accepts(o.key), Add(o),
         o \notin freed, \A i \in Used : db_linear[i] # o,
         allocs' \in Nat, allocs' >= allocs, o.id >= 1, o.id <= allocs',
         mine' = mine \ {o}, UNCHANGED freed
  PROVE  HeapInv'
<1> USE DatabaseAssumption
<1> DEFINE n == linear_length
<1>1. n \in Slots /\ n \notin Used /\ Used' = Used \cup {n} /\ Used \subseteq Slots
  BY DEF ListInv, ListType, Used, Slots, Add, Accepts, HasRoom
<1>2. db_linear'[n] = o /\ (\A i \in Used : db_linear'[i] = db_linear[i]) /\ deleted' = deleted
  BY <1>1 DEF ListInv, ListType, Add
<1>3. Live' = Live \cup {n} /\ Live \subseteq Used /\ deleted \subseteq Used
  BY <1>1, <1>2 DEF Live, ListInv, ListType
<1>4. \A x \in Objects : x.id <= allocs => x.id <= allocs'
  BY DEF Objects, HeapInv
<1>5. \A i \in Used : db_linear[i] \in Objects
  BY DEF ListInv, ListType
<1>6. \A x \in mine' \cup freed' : x.id >= 1 /\ x.id <= allocs'
  BY <1>4 DEF HeapInv, Known
<1>7. \A i \in Used' : db_linear'[i].id >= 1 /\ db_linear'[i].id <= allocs'
  BY <1>1, <1>2, <1>4, <1>5 DEF HeapInv, Known
<1>8. \A i \in deleted' : db_linear'[i] \in freed'
  BY <1>2, <1>3 DEF HeapInv
<1>9. LiveRecords' = LiveRecords \cup {o}
  BY <1>1, <1>2, <1>3 DEF LiveRecords
<1>10. OneOwner'
  <2>1. \A i \in Live' : \A j \in Used' : db_linear'[i] = db_linear'[j] => i = j
    BY <1>1, <1>2, <1>3 DEF HeapInv, OneOwner
  <2> QED BY <1>9, <2>1 DEF HeapInv, OneOwner
<1> QED BY <1>6, <1>7, <1>8, <1>10 DEF HeapInv, Known

(* A bucket's record is deleted, or the bucket was deleted before.         *)
LEMMA DropKeepsHeap ==
  ASSUME ListInv, HeapInv, NEW i \in Used, Drop(i), UNCHANGED <<mine, allocs>>
  PROVE  HeapInv'
<1>1. UNCHANGED <<db_linear, linear_length>> /\ Used' = Used
  BY DEF Drop, lists, Used
<1>2. CASE i \in deleted
  BY <1>1, <1>2 DEF Drop, lists, HeapInv, Known, OneOwner, LiveRecords, Live
<1>3. CASE i \notin deleted
  <2>1. deleted' = deleted \cup {i} /\ freed' = freed \cup {db_linear[i]} /\ i \in Live
    BY <1>3 DEF Drop, Live
  <2>2. Live' = Live \ {i} /\ Live \subseteq Used
    BY <1>1, <2>1 DEF Live
  <2>3. LiveRecords' = LiveRecords \ {db_linear[i]} /\ db_linear[i] \in LiveRecords
    BY <1>1, <2>1, <2>2 DEF LiveRecords, HeapInv, OneOwner
  <2>4. OneOwner'
    BY <1>1, <2>1, <2>2, <2>3 DEF HeapInv, OneOwner
  <2>5. db_linear[i] \in Objects
    BY DEF ListInv, ListType
  <2> QED BY <1>1, <2>1, <2>4, <2>5 DEF HeapInv, Known
<1> QED BY <1>2, <1>3

(* The bucket lists stay, and objects are at most created and deleted.     *)
LEMMA QuietKeepsHeap ==
  ASSUME ListInv, HeapInv, UNCHANGED lists, allocs' \in Nat, allocs' >= allocs,
         mine' \subseteq Objects, freed' \subseteq Objects,
         \A o \in (mine' \cup freed') \ (mine \cup freed) : o.id = allocs + 1 /\ o.id <= allocs',
         freed \subseteq freed', mine' \cap freed = {}, mine' = mine \/ freed' = freed,
         freed' \cap mine = {}
  PROVE  HeapInv'
<1>1. UNCHANGED <<db_linear, deleted, linear_length>> /\ Used' = Used /\ Live' = Live
  BY DEF lists, Used, Live
<1>2. \A i \in Used : db_linear[i] \in Objects /\ Known(db_linear[i])
  BY DEF ListInv, ListType, HeapInv
<1>3. \A x \in Objects : x.id <= allocs => x.id <= allocs'
  BY DEF Objects, HeapInv
<1>4. LiveRecords' = LiveRecords /\ \A o \in LiveRecords : o \in Objects /\ o.id <= allocs
  BY <1>1, <1>2 DEF LiveRecords, Live, Known
<1>5. \A o \in mine' \cup freed' : o.id >= 1 /\ o.id <= allocs'
  BY <1>3 DEF HeapInv, Known
<1>6. \A i \in Used : db_linear[i].id >= 1 /\ db_linear[i].id <= allocs'
  BY <1>2, <1>3 DEF Known
<1>7. LiveRecords \cap (mine' \cup freed') = {}
  <2>1. \A o \in LiveRecords : o.id # allocs + 1
    BY <1>4 DEF HeapInv, Objects
  <2> QED BY <2>1 DEF HeapInv, OneOwner
<1>8. mine' \cap freed' = {}
  OBVIOUS
<1>9. OneOwner'
  BY <1>1, <1>4, <1>7, <1>8 DEF HeapInv, OneOwner
<1> QED BY <1>1, <1>5, <1>6, <1>9 DEF HeapInv, Known

(* The heap is left alone.                                                 *)
LEMMA StillKeepsHeap ==
  ASSUME ListInv, HeapInv, UNCHANGED <<lists, heap>>
  PROVE  HeapInv'
<1>1. UNCHANGED <<lists, mine, freed, allocs>>
  BY DEF heap
<1> QED BY <1>1, QuietKeepsHeap DEF HeapInv, OneOwner

(* The next object is nobody's yet.                                        *)
LEMMA NextObject ==
  ASSUME ListInv, HeapInv, NEW k \in Keys
  PROVE  LET o == [key |-> k, id |-> allocs + 1]
         IN  o \in Objects /\ o \notin mine \cup freed /\ \A i \in Used : db_linear[i] # o
  BY DEF HeapInv, Known, Objects

(* Every operation keeps the ownership of the objects.                     *)
LEMMA HeapStep ==
  ASSUME DbInv, DbNext
  PROVE  HeapInv'
<1> USE DatabaseAssumption DEF DbInv
<1>1. ASSUME NEW k \in Keys, New(k) PROVE HeapInv'
  <2> DEFINE o == [key |-> k, id |-> allocs + 1]
  <2>1. o \in Objects /\ o \notin mine \cup freed /\ o.id = allocs + 1
    BY NextObject
  <2>2. allocs' = allocs + 1 /\ mine' = mine \cup {o} /\ UNCHANGED <<lists, freed>>
    BY <1>1 DEF New
  <2> HIDE DEF o
  <2> QED BY <2>1, <2>2, QuietKeepsHeap DEF HeapInv, OneOwner
<1>2. ASSUME NEW k \in Keys, Lookup(k) PROVE HeapInv'
  BY <1>2, StillKeepsHeap DEF Lookup
<1>3. ASSUME NEW o \in mine, Insert(o) PROVE HeapInv'
  <2>1. o \in Objects /\ o \notin freed /\ o.id >= 1 /\ o.id <= allocs
    BY DEF HeapInv, Known, OneOwner
  <2>2. \A i \in Used : db_linear[i] # o
    <3>1. \A i \in Live : db_linear[i] # o
      BY DEF HeapInv, OneOwner, LiveRecords
    <3>2. \A i \in deleted : db_linear[i] # o
      BY <2>1 DEF HeapInv
    <3> QED BY <3>1, <3>2 DEF Live
  <2>3. allocs \in Nat /\ allocs' = allocs
    BY <1>3 DEF HeapInv, Insert
  <2> QED BY <1>3, <2>1, <2>2, <2>3, AddKeepsHeap DEF Insert
<1>4. ASSUME NEW o \in mine, InsertRefused(o) PROVE HeapInv'
  BY <1>4, StillKeepsHeap DEF InsertRefused
<1>5. CASE Wipe
  <2>1. linear_index \in Used
    BY <1>5 DEF Wipe, ListInv, PositionValid
  <2> QED BY <1>5, <2>1, DropKeepsHeap DEF Wipe
<1>6. ASSUME NEW o \in mine \cup LiveRecords, WipeRecord(o) PROVE HeapInv'
  <2>1. linear_index' \in Used
    BY <1>6, ObjectKeys, PositionIsUsed DEF WipeRecord, ListInv, Live
  <2> QED BY <1>6, <2>1, DropKeepsHeap DEF WipeRecord
<1>7. CASE GoForward \/ GoBackward \/ GotoBegin \/ GotoEnd
  BY <1>7, StillKeepsHeap DEF GoForward, GoBackward, GotoBegin, GotoEnd, MoveTo
<1>8. CASE Save \/ SaveBucket \/ SaveDone \/ Load \/ LoadUnknown \/ LoadDone
  BY <1>8, StillKeepsHeap DEF Save, SaveBucket, SaveDone, Load, LoadUnknown, LoadDone
<1>9. CASE LoadAdded
  <2>1. LoadedObject \in Objects /\ LoadedObject \notin mine \cup freed
        /\ \A i \in Used : db_linear[i] # LoadedObject
    BY <1>9, HeadIsKey, NextObject DEF LoadAdded, LoadedObject
  <2>2. LoadedObject.key = Head(loading) /\ LoadedObject.id = allocs + 1 /\ allocs \in Nat
    BY DEF LoadedObject, HeapInv
  <2>3. /\ Accepts(LoadedObject.key) /\ Add(LoadedObject)
        /\ allocs' = allocs + 1 /\ mine' = mine \ {LoadedObject} /\ freed' = freed
    BY <1>9, <2>1, <2>2 DEF LoadAdded
  <2> QED BY <2>1, <2>2, <2>3, AddKeepsHeap
<1>10. CASE LoadRefused
  <2>1. LoadedObject \in Objects /\ LoadedObject \notin mine \cup freed
    BY <1>10, HeadIsKey, NextObject DEF LoadRefused, LoadedObject
  <2>2. LoadedObject.id = allocs + 1 /\ allocs \in Nat
    BY DEF LoadedObject, HeapInv
  <2>3. allocs' = allocs + 1 /\ mine' = mine /\ freed' = freed \cup {LoadedObject} /\ UNCHANGED lists
    BY <1>10 DEF LoadRefused
  <2> QED BY <2>1, <2>2, <2>3, QuietKeepsHeap DEF HeapInv, OneOwner
<1>11. CASE Replace
  <2>1. /\ linear_length' = 0 /\ deleted' = {} /\ mine' = mine /\ allocs' = allocs
        /\ freed' = freed \cup LiveRecords
    BY <1>11 DEF Replace, Empty
  <2>2. Used' = {} /\ Live' = {} /\ LiveRecords' = {}
    BY <2>1 DEF Used, Live, LiveRecords
  <2>3. \A o \in LiveRecords : o \in Objects /\ Known(o)
    BY DEF LiveRecords, Live, HeapInv, ListInv, ListType
  <2> QED BY <2>1, <2>2, <2>3 DEF HeapInv, OneOwner, Known
<1> QED BY <1>1, <1>2, <1>3, <1>4, <1>5, <1>6, <1>7, <1>8, <1>9, <1>10, <1>11 DEF DbNext
-----------------------------------------------------------------------------
(* The live buckets can be counted.                                        *)
LEMMA LiveFinite ==
  ASSUME ListType
  PROVE  IsFiniteSet(Live) /\ Cardinality(Live) \in Nat /\ Cardinality(Live) <= linear_length
<1>1. linear_length \in Nat
  BY DatabaseAssumption DEF ListType
<1>2. IsFiniteSet(Used) /\ Cardinality(Used) = linear_length
  BY <1>1, FS_Interval DEF Used
<1> QED BY <1>1, <1>2, FS_Subset, FS_CardinalityType DEF Live

(* insert() adds one live bucket and counts it.                            *)
LEMMA AddCounts ==
  ASSUME ListInv, LogicLength, NEW o \in Objects, Accepts(o.key), Add(o)
  PROVE  LogicLength'
<1> DEFINE n == linear_length
<1>1. n \notin Used /\ Used' = Used \cup {n}
  BY DatabaseAssumption DEF ListInv, ListType, Used, Slots, Add, Accepts, HasRoom
<1>2. Live' = Live \cup {n} /\ n \notin Live
  BY <1>1 DEF Live, Add, ListInv, ListType
<1>3. Cardinality(Live') = Cardinality(Live) + 1
  BY <1>2, LiveFinite, FS_AddElement DEF ListInv
<1> QED BY <1>3 DEF LogicLength, Add

(* wipe() of a bucket that was live counts it out.                         *)
LEMMA DropCounts ==
  ASSUME ListInv, LogicLength, NEW i \in Used, Drop(i)
  PROVE  LogicLength'
<1>1. Used' = Used
  BY DEF Drop, lists, Used
<1>2. CASE i \in deleted
  <2>1. Live' = Live /\ linear_logic_length' = linear_logic_length
    BY <1>1, <1>2 DEF Drop, lists, Live
  <2> QED BY <2>1 DEF LogicLength
<1>3. CASE i \notin deleted
  <2>1. Live' = Live \ {i} /\ i \in Live /\ linear_logic_length' = linear_logic_length - 1
    BY <1>1, <1>3 DEF Drop, Live
  <2>2. Cardinality(Live') = Cardinality(Live) - 1
    BY <2>1, LiveFinite, FS_RemoveElement DEF ListInv
  <2> QED BY <2>1, <2>2 DEF LogicLength
<1> QED BY <1>2, <1>3

(* What leaves the lists alone leaves the count alone.                     *)
LEMMA StillCounts ==
  ASSUME LogicLength, UNCHANGED lists
  PROVE  LogicLength'
  BY DEF LogicLength, lists, Live, Used

(* Every operation keeps linear_logic_length right.                        *)
LEMMA CountStep ==
  ASSUME DbInv, DbNext
  PROVE  LogicLength'
<1> USE DEF DbInv
<1>1. ASSUME NEW k \in Keys, New(k) \/ Lookup(k) PROVE LogicLength'
  BY <1>1, StillCounts DEF New, Lookup
<1>2. ASSUME NEW o \in mine, Insert(o) PROVE LogicLength'
  BY <1>2, ObjectKeys, AddCounts DEF Insert, ListInv
<1>3. ASSUME NEW o \in mine, InsertRefused(o) PROVE LogicLength'
  BY <1>3, StillCounts DEF InsertRefused
<1>4. CASE Wipe
  <2>1. linear_index \in Used
    BY <1>4 DEF Wipe, ListInv, PositionValid
  <2> QED BY <1>4, <2>1, DropCounts DEF Wipe
<1>5. ASSUME NEW o \in mine \cup LiveRecords, WipeRecord(o) PROVE LogicLength'
  <2>1. linear_index' \in Used
    BY <1>5, ObjectKeys, PositionIsUsed DEF WipeRecord, ListInv, Live
  <2> QED BY <1>5, <2>1, DropCounts DEF WipeRecord
<1>6. CASE GoForward \/ GoBackward \/ GotoBegin \/ GotoEnd
  BY <1>6, StillCounts DEF GoForward, GoBackward, GotoBegin, GotoEnd, MoveTo
<1>7. CASE Save \/ SaveBucket \/ SaveDone \/ Load \/ LoadUnknown \/ LoadRefused \/ LoadDone
  BY <1>7, StillCounts DEF Save, SaveBucket, SaveDone, Load, LoadUnknown, LoadRefused, LoadDone
<1>8. CASE LoadAdded
  <2>1. LoadedObject \in Objects /\ LoadedObject.key = Head(loading)
    BY <1>8, HeadIsKey DEF LoadAdded, LoadedObject, Objects, HeapInv
  <2> QED BY <1>8, <2>1, AddCounts DEF LoadAdded
<1>9. CASE Replace
  BY <1>9, FS_EmptySet DEF Replace, Empty, LogicLength, Live, Used
<1> QED BY <1>1, <1>2, <1>3, <1>4, <1>5, <1>6, <1>7, <1>8, <1>9 DEF DbNext
-----------------------------------------------------------------------------
(* A new database.                                                         *)
LEMMA InitHolds == ASSUME DbInit PROVE DbInv
<1> USE DatabaseAssumption DEF DbInit
<1>1. Used = {} /\ Live = {} /\ LiveRecords = {} /\ 0 \in Slots
  BY DEF Used, Live, LiveRecords, Slots
<1>2. ListInv
  BY <1>1 DEF ListInv, ListType, ChainsMatchList, Chain, KeyAt, KeysDistinct, PositionValid
<1>3. HeapInv
  BY <1>1 DEF HeapInv, OneOwner
<1>4. LogicLength
  BY <1>1, FS_EmptySet DEF LogicLength
<1>5. PICK s \in Files : file = [length |-> Len(s), records |-> s]
  OBVIOUS
<1>6. s \in Seq(Fields) /\ Len(s) \in Nat
  BY DEF Fields
<1>7. FileInv
  BY <1>5, <1>6 DEF FileInv, HeaderCounts
<1> QED BY <1>2, <1>3, <1>4, <1>7 DEF DbInv

(* Operations during which neither a save() nor a load() goes on.          *)
LEMMA IdleKeepsFile ==
  ASSUME DbInv, busy = "no", UNCHANGED disk, allocs' \in Nat, allocs' <= MaxAllocs,
         linear_length' \in Nat
  PROVE  FileInv'
<1>1. UNCHANGED <<file, busy, saving, loading>>
  BY DEF disk
<1>2. loading = <<>> /\ Len(loading) = 0 /\ saving = 0
  BY DEF DbInv, FileInv
<1> QED BY <1>1, <1>2 DEF DbInv, FileInv, HeaderCounts

(* Every operation, and every record saved or loaded, keeps the file right. *)
LEMMA FileStep ==
  ASSUME DbInv, DbNext, ListType'
  PROVE  FileInv'
<1> USE DatabaseAssumption
<1>0. /\ linear_length' \in Nat /\ linear_length \in Nat /\ allocs \in Nat
      /\ busy = "no" => allocs <= MaxAllocs
  BY DEF ListType, DbInv, ListInv, HeapInv, FileInv
<1>1. ASSUME NEW k \in Keys, New(k) PROVE FileInv'
  BY <1>0, <1>1, IdleKeepsFile DEF New
<1>2. ASSUME NEW k \in Keys, Lookup(k) PROVE FileInv'
  BY <1>0, <1>2, IdleKeepsFile DEF Lookup, heap
<1>3. ASSUME NEW o \in mine, Insert(o) \/ InsertRefused(o) PROVE FileInv'
  BY <1>0, <1>3, IdleKeepsFile DEF Insert, InsertRefused, heap
<1>4. CASE Wipe \/ \E o \in mine \cup LiveRecords : WipeRecord(o)
  BY <1>0, <1>4, IdleKeepsFile DEF Wipe, WipeRecord
<1>5. CASE GoForward \/ GoBackward \/ GotoBegin \/ GotoEnd
  BY <1>0, <1>5, IdleKeepsFile DEF GoForward, GoBackward, GotoBegin, GotoEnd, MoveTo, heap
<1>6. CASE Replace
  BY <1>0, <1>6, IdleKeepsFile DEF Replace
<1>7. CASE Save
  <2>1. Live \cap (0 .. (0 - 1)) = {}
    OBVIOUS
  <2>2. /\ busy' = "save" /\ saving' = 0 /\ file' = [length |-> linear_logic_length, records |-> <<>>]
        /\ UNCHANGED <<lists, allocs, loading>> /\ busy = "no"
    BY <1>7 DEF Save, heap
  <2>3. Live' = Live /\ linear_logic_length \in Nat
    BY <2>2, LiveFinite DEF lists, Live, Used, DbInv, LogicLength, ListInv
  <2>4. /\ file'.length = linear_logic_length /\ file'.records = <<>>
        /\ file' \in [length : Nat, records : Seq(Fields)]
    BY <2>2, <2>3
  <2>5. linear_logic_length' = linear_logic_length /\ linear_length' = linear_length
    BY <2>2 DEF lists
  <2>6. Cardinality(Live \cap (0 .. (0 - 1))) = 0
    BY <2>1, FS_EmptySet
  <2> QED BY <1>0, <2>2, <2>3, <2>4, <2>5, <2>6 DEF DbInv, FileInv, HeaderCounts
<1>8. CASE SaveBucket
  <2> DEFINE seen == Live \cap (0 .. saving - 1)
  <2>1. /\ busy = "save" /\ saving < linear_length /\ saving' = saving + 1 /\ saving \in Nat
        /\ UNCHANGED <<lists, allocs, busy, loading>>
    BY <1>0, <1>8 DEF SaveBucket, heap, DbInv, FileInv
  <2>2. /\ Live' = Live /\ UNCHANGED <<linear_length, linear_logic_length>>
        /\ saving \in Used /\ IsFiniteSet(seen) /\ saving \notin seen
    BY <1>0, <2>1, LiveFinite, FS_Subset DEF lists, Live, Used, DbInv, ListInv
  <2>3. /\ file \in [length : Nat, records : Seq(Fields)] /\ file.length = linear_logic_length
        /\ Len(file.records) = Cardinality(seen)
    BY <2>1 DEF DbInv, FileInv
  <2>4. /\ file' \in [length : Nat, records : Seq(Fields)] /\ file'.length = file.length
        /\ Len(file'.records) = Cardinality(Live \cap (0 .. saving' - 1))
    <3>1. CASE saving \in deleted
      <4>1. Live \cap (0 .. saving' - 1) = seen
        BY <2>1, <3>1 DEF Live
      <4>2. file' = file
        BY <1>8, <3>1 DEF SaveBucket
      <4> QED BY <2>3, <4>1, <4>2
    <3>2. CASE saving \notin deleted
      <4>1. Live \cap (0 .. saving' - 1) = seen \cup {saving}
        BY <2>1, <2>2, <3>2 DEF Live
      <4>2. file' = [file EXCEPT !.records = Append(file.records, KeyAt(saving))]
        BY <1>8, <3>2 DEF SaveBucket
      <4>3. KeyAt(saving) \in Fields
        BY <2>2 DEF KeyAt, Fields, Objects, DbInv, ListInv, ListType
      <4>4. Append(file.records, KeyAt(saving)) \in Seq(Fields)
            /\ Len(Append(file.records, KeyAt(saving))) = Len(file.records) + 1
        BY <2>3, <4>3, AppendIs
      <4>5. Cardinality(seen \cup {saving}) = Cardinality(seen) + 1
        BY <2>2, FS_AddElement
      <4> QED BY <2>3, <4>1, <4>2, <4>4, <4>5
    <3> QED BY <3>1, <3>2
  <2> QED BY <1>0, <2>1, <2>2, <2>3, <2>4 DEF DbInv, FileInv, HeaderCounts
<1>9. CASE SaveDone
  <2>1. /\ busy = "save" /\ saving = linear_length /\ busy' = "no" /\ saving' = 0
        /\ UNCHANGED <<lists, allocs, file, loading>>
    BY <1>9 DEF SaveDone, heap
  <2>2. Live \cap (0 .. saving - 1) = Live
    BY <2>1 DEF Live, Used
  <2>3. file.length = Len(file.records)
    BY <2>1, <2>2 DEF DbInv, FileInv, LogicLength
  <2> QED BY <1>0, <2>1, <2>3 DEF DbInv, FileInv, HeaderCounts
<1>10. CASE Load
  <2>1. /\ busy = "no" /\ busy' = "load" /\ allocs + Len(file.records) <= MaxAllocs
        /\ loading' = SubSeq(file.records, 1, file.length)
        /\ UNCHANGED <<lists, allocs, file, saving>>
    BY <1>10 DEF Load, heap
  <2>2. file.records \in Seq(Fields) /\ file.length = Len(file.records)
    BY <2>1 DEF DbInv, FileInv, HeaderCounts
  <2>3. loading' \in Seq(Fields) /\ Len(loading') = Len(file.records)
    BY <2>1, <2>2
  <2> QED BY <1>0, <2>1, <2>3 DEF DbInv, FileInv, HeaderCounts
<1>11. CASE LoadUnknown \/ LoadAdded \/ LoadRefused
  <2>1. /\ busy = "load" /\ busy' = "load" /\ loading # <<>> /\ loading' = Tail(loading)
        /\ UNCHANGED <<file, saving>> /\ allocs' \in Nat /\ allocs' <= allocs + 1
    BY <1>0, <1>11 DEF LoadUnknown, LoadAdded, LoadRefused, heap
  <2>2. loading \in Seq(Fields)
    BY DEF DbInv, FileInv
  <2>3. loading' \in Seq(Fields) /\ Len(loading') = Len(loading) - 1 /\ Len(loading) \in Nat
    BY <2>1, <2>2
  <2> QED BY <1>0, <2>1, <2>3 DEF DbInv, FileInv, HeaderCounts
<1>12. CASE LoadDone
  <2>1. /\ busy = "load" /\ busy' = "no" /\ loading = <<>>
        /\ UNCHANGED <<allocs, file, saving, loading>>
    BY <1>12 DEF LoadDone, heap
  <2> QED BY <1>0, <2>1 DEF DbInv, FileInv, HeaderCounts
<1> QED BY <1>1, <1>2, <1>3, <1>4, <1>5, <1>6, <1>7, <1>8, <1>9, <1>10, <1>11, <1>12 DEF DbNext
-----------------------------------------------------------------------------
(* The inductive invariant.                                                *)
THEOREM DbInvHolds == DbSpec => []DbInv
<1>1. DbInit => DbInv
  BY InitHolds
<1>2. DbInv /\ [DbNext]_dbVars => DbInv'
  <2>1. ASSUME DbInv, DbNext PROVE DbInv'
    <3>1. ListInv' /\ HeapInv' /\ LogicLength'
      BY <2>1, ListStep, HeapStep, CountStep
    <3> QED BY <2>1, <3>1, FileStep DEF DbInv, ListInv
  <2>2. ASSUME DbInv, UNCHANGED dbVars PROVE DbInv'
    <3>1. UNCHANGED <<lists, linear_index, heap, disk>>
      BY <2>2 DEF dbVars
    <3>2. ListInv' /\ HeapInv' /\ LogicLength'
      BY <2>2, <3>1, QuietKeepsLists, StillKeepsHeap, StillCounts DEF DbInv
    <3>3. /\ UNCHANGED <<file, busy, saving, loading, allocs, linear_length, linear_logic_length>>
          /\ Live' = Live
      BY <3>1 DEF disk, lists, heap, Live, Used
    <3>4. FileInv'
      BY <2>2, <3>3 DEF DbInv, FileInv, HeaderCounts
    <3> QED BY <3>2, <3>4 DEF DbInv
  <2> QED BY <2>1, <2>2
<1> QED BY <1>1, <1>2, PTL DEF DbSpec

(* insert(), wipe() and the lookup() they rely on keep the list and the    *)
(* hash chains in step, for every hash function and table size.            *)
THEOREM ListsAgree == DbSpec => []ChainsMatchList
<1>1. DbInv => ChainsMatchList
  BY DEF DbInv, ListInv
<1> QED BY <1>1, DbInvHolds, PTL

(* No sequence of insert(), wipe() and load() gives a key two live records. *)
THEOREM KeysStayDistinct == DbSpec => []KeysDistinct
<1>1. DbInv => KeysDistinct
  BY DEF DbInv, ListInv
<1> QED BY <1>1, DbInvHolds, PTL

(* No record is deleted twice, or by two owners: neither by wipe() nor by  *)
(* load()'s refused records nor by the destructor.                         *)
THEOREM OwnersDistinct == DbSpec => []OneOwner
<1>1. DbInv => OneOwner
  BY DEF DbInv, HeapInv
<1> QED BY <1>1, DbInvHolds, PTL

(* wipe() and get_record() find a bucket at the current position as soon   *)
(* as the database has one.                                                *)
THEOREM PositionStays == DbSpec => []PositionValid
<1>1. DbInv => PositionValid
  BY DEF DbInv, ListInv
<1> QED BY <1>1, DbInvHolds, PTL

(* linear_logic_length counts the live records.                            *)
THEOREM LengthIsLogical == DbSpec => []LogicLength
<1>1. DbInv => LogicLength
  BY DEF DbInv
<1> QED BY <1>1, DbInvHolds, PTL

(* save() announces the number of records it goes on to write.             *)
THEOREM HeaderIsRight == DbSpec => []HeaderCounts
<1>1. DbInv => HeaderCounts
  BY DEF DbInv, FileInv
<1> QED BY <1>1, DbInvHolds, PTL

-----------------------------------------------------------------------------
(* What each kind of step is to the abstract database.                     *)

(* lookup() answers what the set of records has.                           *)
LEMMA HasKeyIs ==
  ASSUME ListType, ChainsMatchList, NEW k \in Keys
  PROVE  RS!HasKey(k) <=> Contains(k)
  BY ContainsIff DEF RS!HasKey, LiveRecords, KeyAt

(* What leaves the lists alone leaves the set of records alone.            *)
LEMMA StillIsStutter ==
  UNCHANGED lists => UNCHANGED <<LiveRecords, linear_length>>
  BY DEF lists, LiveRecords, Live, Used

(* insert() puts the record in.                                            *)
LEMMA AddIsPut ==
  ASSUME ListInv, NEW o \in Objects, Accepts(o.key), Add(o), found' = TRUE
  PROVE  RS!Put(o)
<1> DEFINE n == linear_length
<1>1. n \in Slots /\ n \notin Used /\ Used' = Used \cup {n} /\ Used \subseteq Slots
  BY DatabaseAssumption DEF ListInv, ListType, Used, Slots, Add, Accepts, HasRoom
<1>2. db_linear'[n] = o /\ (\A i \in Used : db_linear'[i] = db_linear[i]) /\ deleted' = deleted
  BY <1>1 DEF ListInv, ListType, Add
<1>3. Live' = Live \cup {n} /\ Live \subseteq Used
  BY <1>1, <1>2 DEF Live, ListInv, ListType
<1>4. LiveRecords' = LiveRecords \cup {o}
  BY <1>1, <1>2, <1>3 DEF LiveRecords
<1>5. o.key \in Keys /\ ~RS!HasKey(o.key)
  BY HasKeyIs DEF Objects, Accepts, ListInv
<1>6. linear_length < hash_radix /\ linear_length' = linear_length + 1
  BY DatabaseAssumption DEF Add, Accepts, HasRoom, ListInv, ListType
<1> QED BY <1>4, <1>5, <1>6 DEF RS!Put

(* wipe() removes a record, or nothing.                                    *)
LEMMA DropIsRemove ==
  ASSUME ListInv, HeapInv, NEW i \in Used, Drop(i), UNCHANGED found
  PROVE  (\E r \in LiveRecords : RS!Remove(r)) \/ UNCHANGED <<LiveRecords, linear_length, found>>
<1>1. UNCHANGED <<db_linear, linear_length>> /\ Used' = Used
  BY DEF Drop, lists, Used
<1>2. CASE i \in deleted
  BY <1>2, StillIsStutter DEF Drop
<1>3. CASE i \notin deleted
  <2>1. deleted' = deleted \cup {i} /\ i \in Live
    BY <1>3 DEF Drop, Live
  <2>2. Live' = Live \ {i} /\ Live \subseteq Used
    BY <1>1, <2>1 DEF Live
  <2>3. LiveRecords' = LiveRecords \ {db_linear[i]} /\ db_linear[i] \in LiveRecords
    BY <1>1, <2>1, <2>2 DEF LiveRecords, HeapInv, OneOwner
  <2> QED BY <1>1, <2>3 DEF RS!Remove
<1> QED BY <1>2, <1>3

(* insert() refuses for one of the two reasons the abstract one has.       *)
LEMMA RefusedIsRefuse ==
  ASSUME ListInv, NEW k \in Keys, ~Accepts(k), UNCHANGED lists, found' = FALSE
  PROVE  RS!Refuse(k)
  BY HasKeyIs, StillIsStutter DEF RS!Refuse, Accepts, HasRoom, ListInv

(* An insertion's object is one of the abstract database's records.        *)
LEMMA RecordBound ==
  ASSUME NEW o \in Objects, o.id >= 1, o.id <= MaxAllocs
  PROVE  o \in [key : Keys, id : 1 .. MaxAllocs]
  BY DatabaseAssumption DEF Objects

(* Every step is a step of RecordStore, or stutters.                       *)
LEMMA StoreStep ==
  ASSUME DbInv, DbNext
  PROVE  [RS!StoreNext]_(RS!storeVars)
<1> USE DatabaseAssumption DEF DbInv
<1> DEFINE Same == UNCHANGED <<LiveRecords, linear_length, found>>
<1>0. ASSUME Same PROVE UNCHANGED RS!storeVars
  BY <1>0 DEF RS!storeVars
<1>1. ASSUME NEW k \in Keys, New(k) PROVE Same
  BY <1>1, StillIsStutter DEF New
<1>2. ASSUME NEW k \in Keys, Lookup(k) PROVE RS!Find(k)
  <2>1. ListType /\ ChainsMatchList
    BY DEF ListInv
  <2>2. RS!HasKey(k) <=> Contains(k)
    BY <2>1, HasKeyIs
  <2>3. RS!HasKey(k) \in BOOLEAN /\ Contains(k) \in BOOLEAN
    BY DEF RS!HasKey, Contains
  <2>4. RS!HasKey(k) = Contains(k)
    BY <2>2, <2>3
  <2>5. UNCHANGED lists /\ found' = Contains(k)
    BY <1>2 DEF Lookup
  <2> QED BY <2>4, <2>5, StillIsStutter DEF RS!Find
<1>3. ASSUME NEW o \in mine, Insert(o) PROVE RS!StoreNext
  <2>1. allocs <= MaxAllocs /\ o \in Objects /\ o.id >= 1 /\ o.id <= allocs /\ allocs \in Nat
    BY <1>3 DEF Insert, FileInv, HeapInv, Known
  <2>2. o \in [key : Keys, id : 1 .. MaxAllocs]
    BY <2>1, RecordBound DEF Objects
  <2> QED BY <1>3, <2>1, <2>2, AddIsPut DEF Insert, RS!StoreNext
<1>4. ASSUME NEW o \in mine, InsertRefused(o) PROVE RS!StoreNext
  BY <1>4, ObjectKeys, RefusedIsRefuse DEF InsertRefused, RS!StoreNext, ListInv
<1>5. CASE Wipe
  <2>1. linear_index \in Used
    BY <1>5 DEF Wipe, ListInv, PositionValid
  <2> QED BY <1>0, <1>5, <2>1, DropIsRemove DEF Wipe, RS!StoreNext
<1>6. ASSUME NEW o \in mine \cup LiveRecords, WipeRecord(o)
      PROVE  [RS!StoreNext]_(RS!storeVars)
  <2>1. linear_index' \in Used
    BY <1>6, ObjectKeys, PositionIsUsed DEF WipeRecord, ListInv, Live
  <2> QED BY <1>0, <1>6, <2>1, DropIsRemove DEF WipeRecord, RS!StoreNext
<1>7. CASE GoForward \/ GoBackward \/ GotoBegin \/ GotoEnd
  BY <1>0, <1>7, StillIsStutter DEF GoForward, GoBackward, GotoBegin, GotoEnd, MoveTo
<1>8. CASE Save \/ SaveBucket \/ SaveDone \/ Load \/ LoadUnknown \/ LoadDone
  BY <1>0, <1>8, StillIsStutter DEF Save, SaveBucket, SaveDone, Load, LoadUnknown, LoadDone
<1>9. CASE LoadAdded
  <2>1. Head(loading) \in Keys /\ allocs \in Nat /\ allocs + 1 <= MaxAllocs
    <3>1. loading # <<>> /\ loading \in Seq(Fields)
      BY <1>9 DEF LoadAdded, FileInv
    <3>2. Len(loading) >= 1
      BY <3>1
    <3> QED BY <1>9, <3>2, <3>1, HeadIsKey DEF LoadAdded, FileInv, HeapInv
  <2>2. LoadedObject.key = Head(loading) /\ LoadedObject \in Objects
        /\ LoadedObject.id = allocs + 1
    BY <2>1 DEF LoadedObject, Objects
  <2>3. LoadedObject \in [key : Keys, id : 1 .. MaxAllocs]
    BY <2>1, <2>2, RecordBound
  <2>4. RS!Put(LoadedObject)
    BY <1>9, <2>2, AddIsPut DEF LoadAdded
  <2> QED BY <2>3, <2>4 DEF RS!StoreNext
<1>10. CASE LoadRefused
  <2>1. Head(loading) \in Keys
    BY <1>10, HeadIsKey DEF LoadRefused
  <2> QED BY <1>10, <2>1, RefusedIsRefuse DEF LoadRefused, RS!StoreNext
<1>11. CASE Replace
  <2>1. linear_length' = 0 /\ found' = found /\ Used' = {} /\ Live' = {}
    BY <1>11 DEF Replace, Empty, disk, Used, Live
  <2>2. LiveRecords' = {}
    BY <2>1 DEF LiveRecords
  <2> QED BY <2>1, <2>2 DEF RS!Discard, RS!StoreNext
<1> HIDE DEF Same
<1>12. (\E k \in Keys : RS!Find(k)) => RS!StoreNext
  BY DEF RS!StoreNext
<1> QED BY <1>0, <1>1, <1>2, <1>3, <1>4, <1>5, <1>6, <1>7, <1>8, <1>9, <1>10, <1>11, <1>12 DEF DbNext

(* CAdPlugDatabase is the set of records it promises to be: insert() of a  *)
(* taken key is refused and leaves the first record in, lookup() finds     *)
(* exactly what was inserted and not wiped, and load() only adds.          *)
THEOREM Implements == DbSpec => StoreSpec
<1>1. DbInit => RS!StoreInit
  BY DEF DbInit, RS!StoreInit, LiveRecords, Live, Used
<1>2. DbInv /\ [DbNext]_dbVars => [RS!StoreNext]_(RS!storeVars)
  <2>1. ASSUME UNCHANGED dbVars PROVE UNCHANGED RS!storeVars
    <3>1. UNCHANGED lists /\ UNCHANGED found
      BY <2>1 DEF dbVars
    <3> QED BY <3>1, StillIsStutter DEF RS!storeVars
  <2> QED BY <2>1, StoreStep
<1> QED BY <1>1, <1>2, DbInvHolds, PTL DEF DbSpec, StoreSpec, RS!StoreSpec
-----------------------------------------------------------------------------
(* What load() has read is in, unless the database was full.               *)
Merged ==
  busy = "load" =>
    \A i \in 1 .. Len(file.records) :
      \/ file.records[i] = Unknown
      \/ \E j \in 1 .. Len(loading) : loading[j] = file.records[i]
      \/ Contains(file.records[i])
      \/ ~HasRoom

(* What leaves the lists alone loses no key.                               *)
LEMMA StillContains ==
  ASSUME NEW k, UNCHANGED lists
  PROVE  /\ Contains(k) => Contains(k)'
         /\ HasRoom' = HasRoom
  BY DEF lists, Contains, Matches, Chain, KeyAt, HasRoom

(* insert() loses no key and brings its own.                               *)
LEMMA AddContains ==
  ASSUME ListInv, ListInv', NEW o \in Objects, Accepts(o.key), Add(o), NEW k \in Keys,
         k = o.key \/ Contains(k)
  PROVE  Contains(k)'
<1> DEFINE n == linear_length
<1>1. n \in Slots /\ n \notin Used /\ Used' = Used \cup {n} /\ Used \subseteq Slots
  BY DatabaseAssumption DEF ListInv, ListType, Used, Slots, Add, Accepts, HasRoom
<1>2. db_linear'[n] = o /\ (\A i \in Used : db_linear'[i] = db_linear[i]) /\ deleted' = deleted
  BY <1>1 DEF ListInv, ListType, Add
<1>3. Live' = Live \cup {n} /\ Live \subseteq Used
  BY <1>1, <1>2 DEF Live, ListInv, ListType
<1>4. \E i \in Live' : db_linear'[i].key = k
  <2>1. CASE k = o.key
    BY <1>2, <1>3, <2>1
  <2>2. CASE Contains(k)
    <3>1. PICK i \in Live : db_linear[i].key = k
      BY <2>2, ContainsIff DEF ListInv, KeyAt
    <3> QED BY <1>2, <1>3, <3>1
  <2> QED BY <2>1, <2>2
<1>5. PICK i \in Live' : db_linear'[i].key = k
  BY <1>4
<1>6. PICK p \in 1 .. Len(db_hashed'[Hash[k]]) : db_hashed'[Hash[k]][p] = i
  BY <1>5 DEF ListInv, ChainsMatchList, Live, Chain, KeyAt
<1> QED BY <1>5, <1>6 DEF Contains, Matches, Live, Chain, KeyAt

(* One record read: it was of unknown type, or is in now, or there is no   *)
(* room for it.                                                            *)
LEMMA ReadKeepsMerged ==
  ASSUME Merged, loading \in Seq(Fields), loading # <<>>, loading' = Tail(loading),
         busy = "load", UNCHANGED file, file.records \in Seq(Fields),
         \A k \in Keys : Contains(k) => Contains(k)',
         ~HasRoom => ~HasRoom',
         \A k \in Keys : k = Head(loading) => Contains(k)' \/ ~HasRoom'
  PROVE  Merged'
<1>1. SUFFICES ASSUME NEW i \in 1 .. Len(file.records), file.records[i] # Unknown,
                      \A j \in 1 .. Len(loading') : loading'[j] # file.records[i]
               PROVE  Contains(file.records[i])' \/ ~HasRoom'
  BY DEF Merged
<1>2. file.records[i] \in Keys
  BY <1>1 DEF Fields
<1>3. CASE Contains(file.records[i]) \/ ~HasRoom
  BY <1>2, <1>3
<1>4. CASE ~(Contains(file.records[i]) \/ ~HasRoom)
  <2>1. PICK j \in 1 .. Len(loading) : loading[j] = file.records[i]
    BY <1>1, <1>4 DEF Merged
  <2>2. j = 1
    <3>1. CASE j > 1
      <4>1. j - 1 \in 1 .. Len(Tail(loading)) /\ Tail(loading)[j - 1] = loading[j]
        BY <3>1
      <4> QED BY <1>1, <2>1, <4>1
    <3> QED BY <3>1
  <2>3. Head(loading) = file.records[i]
    BY <2>1, <2>2
  <2> QED BY <1>1, <1>2, <2>3
<1> QED BY <1>3, <1>4

(* Every operation keeps what load() has merged.                           *)
LEMMA MergedStep ==
  ASSUME DbInv, DbInv', Merged, DbNext
  PROVE  Merged'
<1> USE DatabaseAssumption DEF DbInv
<1>1. CASE Load
  <2>1. /\ busy = "no" /\ loading' = SubSeq(file.records, 1, file.length) /\ file' = file
    BY <1>1 DEF Load
  <2>2. file.records \in Seq(Fields) /\ file.length = Len(file.records)
    BY <2>1 DEF FileInv, HeaderCounts
  <2>3. loading' = file.records
    BY <2>1, <2>2
  <2> QED BY <2>1, <2>3 DEF Merged
<1>2. CASE LoadUnknown \/ LoadAdded \/ LoadRefused
  <2>1. /\ busy = "load" /\ loading # <<>> /\ loading' = Tail(loading) /\ UNCHANGED file
    BY <1>2 DEF LoadUnknown, LoadAdded, LoadRefused
  <2>2. loading \in Seq(Fields) /\ file.records \in Seq(Fields)
    BY DEF FileInv
  <2>3. CASE LoadUnknown
    BY <2>1, <2>2, <2>3, StillContains, ReadKeepsMerged DEF LoadUnknown
  <2>4. CASE LoadAdded
    <3>1. LoadedObject \in Objects /\ LoadedObject.key = Head(loading) /\ Head(loading) \in Keys
      BY <2>4, HeadIsKey DEF LoadAdded, LoadedObject, Objects, HeapInv
    <3>2. Accepts(LoadedObject.key) /\ Add(LoadedObject) /\ HasRoom
      BY <2>4, <3>1 DEF LoadAdded, Accepts
    <3>3. \A k \in Keys : k = Head(loading) \/ Contains(k) => Contains(k)'
      BY <3>1, <3>2, AddContains
    <3> QED BY <2>1, <2>2, <3>2, <3>3, ReadKeepsMerged
  <2>5. CASE LoadRefused
    BY <2>1, <2>2, <2>5, StillContains, ReadKeepsMerged DEF LoadRefused, Accepts
  <2> QED BY <1>2, <2>3, <2>4, <2>5
<1>3. CASE ~(Load \/ LoadUnknown \/ LoadAdded \/ LoadRefused)
  <2>1. busy' # "load"
    BY <1>3 DEF DbNext, New, Lookup, Insert, InsertRefused, Wipe, WipeRecord, GoForward, GoBackward,
                GotoBegin, GotoEnd, MoveTo, Save, SaveBucket, SaveDone, LoadDone, Replace, disk
  <2> QED BY <2>1 DEF Merged
<1> QED BY <1>1, <1>2, <1>3

(* load() merges: when it is done, every key of the file is in, unless the *)
(* database was full.                                                      *)
THEOREM LoadingMerges == DbSpec => LoadMerges
<1>1. DbInit => Merged
  BY DEF DbInit, Merged
<1>2. DbInv /\ DbInv' /\ Merged /\ [DbNext]_dbVars => Merged'
  <2>1. ASSUME UNCHANGED dbVars, Merged PROVE Merged'
    BY <2>1 DEF dbVars, disk, lists, Merged, Contains, Matches, Chain, KeyAt, HasRoom
  <2> QED BY <2>1, MergedStep
<1>3. Merged /\ [DbNext]_dbVars =>
        [LoadDone => \A i \in 1 .. Len(file.records) :
           file.records[i] # Unknown => Contains(file.records[i]) \/ ~HasRoom]_dbVars
  BY DEF Merged, LoadDone
<1> QED BY <1>1, <1>2, <1>3, DbInvHolds, PTL DEF DbSpec, LoadMerges
=============================================================================
