----------------------------- MODULE MCReading -----------------------------
(* Instances of Reading for TLC. *)
EXTENDS Reading

Two == <<2, 1>>    \* a scan of two pages, then one of a single page
=============================================================================
