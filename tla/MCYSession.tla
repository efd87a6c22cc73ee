----------------------------- MODULE MCYSession -----------------------------
(***************************************************************************)
(* Instances of YSession for TLC: a file whose blocks wrap the block       *)
(* number, or a short one, and an empty one.  A block number is noise to   *)
(* the receiver, but for those that are its SOH, EOT and CAN: 1, 4 and 24  *)
(* in the code, 1 to 3 here.                                               *)
(***************************************************************************)
EXTENDS YSession

MCChunks == <<6, 0>>
MCFewChunks == <<3, 0>>
MCLastBytes == <<1, 1>>

MCNumByte == [n \in 0..(NumMod - 1) |->
  CASE n = 1 -> SOH [] n = 2 -> EOT [] n = 3 -> CAN [] OTHER -> GLITCH]
MCOnlySOH == [n \in 0..(NumMod - 1) |-> IF n = 1 THEN SOH ELSE GLITCH]

MCGlitches == ControlBytes
MCUnanswered == {EOT, CAN, GLITCH}    \* the sender takes none for an answer
MCNoise == {GLITCH}
=============================================================================
