------------------------------- MODULE MCGfLog -------------------------------
(* The log pipeline for TLC: the constants are here and in the .cfg file. *)
EXTENDS GfLog

CONSTANTS r1, r2

\* The second process reports one record, which may overtake those of the first.
MCMaxRecords == [p \in {r1, r2} |-> IF p = r1 THEN 3 ELSE 1]
=============================================================================
