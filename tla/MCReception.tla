---------------------------- MODULE MCReception -----------------------------
(* Instances of Reception: chunk streams of which the last ones are beyond *)
(* the static part of the cache.                                           *)
EXTENDS Reception

\* Memory that was never used, and memory that held an entry before.
JunkEntries == {Entry(0), [id |-> 9, len |-> 4, sid |-> 1, processed |-> 1]}
=============================================================================
