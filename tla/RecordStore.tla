----------------------------- MODULE RecordStore -----------------------------
(***************************************************************************)
(* What the song database promises its users (doc/libadplug.texi, "Direct  *)
(* Usage"): a set of records with distinct keys.  A record whose key is    *)
(* taken is not inserted, and the record that has the key stays; a key is  *)
(* found while its record is in; the database takes Capacity insertions in *)
(* its lifetime.                                                           *)
(***************************************************************************)
EXTENDS Integers

CONSTANTS Keys, Records, Capacity

VARIABLES
  store,      \* the records that are in
  spent,      \* insertions so far
  found       \* the last answer of insert() or lookup()

storeVars == <<store, spent, found>>

HasKey(k) == \E r \in store : r.key = k

StoreInit == store = {} /\ spent = 0 /\ found = FALSE

Put(r) ==
  /\ ~HasKey(r.key) /\ spent < Capacity
  /\ store' = store \cup {r} /\ spent' = spent + 1 /\ found' = TRUE

Refuse(k) ==
  /\ HasKey(k) \/ spent = Capacity
  /\ found' = FALSE /\ UNCHANGED <<store, spent>>

Find(k) == found' = HasKey(k) /\ UNCHANGED <<store, spent>>

Remove(r) == store' = store \ {r} /\ UNCHANGED <<spent, found>>

Discard == store' = {} /\ spent' = 0 /\ UNCHANGED found

StoreNext ==
  \/ \E k \in Keys : Find(k) \/ Refuse(k)
  \/ \E r \in Records : Put(r)
  \/ \E r \in store : Remove(r)
  \/ Discard

StoreSpec == StoreInit /\ [][StoreNext]_storeVars
=============================================================================
