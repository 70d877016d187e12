----------------------------- MODULE MCDatabase -----------------------------
(***************************************************************************)
(* Three keys, two of which share a chain, in a table of three buckets.    *)
(***************************************************************************)
EXTENDS Database, TLC

CONSTANTS a, b, c

MCHash == (a :> 0) @@ (b :> 0) @@ (c :> 1)
MCFiles == {<<a, Unknown>>, <<b, c, b>>}
=============================================================================
