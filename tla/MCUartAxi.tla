----------------------------- MODULE MCUartAxi -----------------------------
(***************************************************************************)
(* The driver with queues of two bytes: full and empty, and a process that *)
(* waits for room while another waits for bytes, all happen.               *)
(***************************************************************************)
EXTENDS UartAxi
=============================================================================
