------------------------------- MODULE MCMyIO -------------------------------
(***************************************************************************)
(* A sender that writes, drains and reads at one end; a reader and a       *)
(* second thread that writes and drains at the other, as in the test of    *)
(* Part 3.                                                                 *)
(***************************************************************************)
EXTENDS MyIO

MCThreads == {"sender", "medium", "helper"}
MCEnd == [t \in MCThreads |-> IF t = "sender" THEN 0 ELSE 1]
MCReaders == {"sender", "medium"}
MCDrainers == {"sender", "helper"}
=============================================================================
