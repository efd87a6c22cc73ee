----------------------------- MODULE MCReceiverY -----------------------------
(***************************************************************************)
(* Instances of ReceiverY for TLC: a file whose blocks wrap the block      *)
(* number and end in a chunk of one byte, and an empty file.  One data     *)
(* chunk starts with a zero byte.  The one-file instance is for a session  *)
(* of a single empty file.                                                 *)
(***************************************************************************)
EXTENDS ReceiverY

MCChunks == <<5, 0>>
MCLastBytes == <<1, 1>>
MCOneChunks == <<0>>
MCOneLast == <<1>>
MCZeroFirst == {<<1, 2>>}
MCGarbageSizes == {3}
=============================================================================
