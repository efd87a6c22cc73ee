----------------------------- MODULE MCConsole -----------------------------
(***************************************************************************)
(* The program's threads with a few lines typed and messages sent: enough  *)
(* for a transfer at both terminals, a cancel, and any thread to end.      *)
(***************************************************************************)
EXTENDS Console
=============================================================================
