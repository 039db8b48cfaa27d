------------------------------ MODULE MCHealth ------------------------------
(* Small instance of Health: the constants come from the .cfg files.       *)
EXTENDS Health

\* The thresholds of two and four periods can be crossed within one probe.
ASSUME LongEnough == MaxStall >= 1 /\ Period >= 2
=============================================================================
