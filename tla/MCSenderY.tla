----------------------------- MODULE MCSenderY ------------------------------
(***************************************************************************)
(* Instances of SenderY for TLC: three files, of which one wraps the block *)
(* number, one is empty and one is a single chunk.                         *)
(***************************************************************************)
EXTENDS SenderY

MCChunks == <<5, 0, 1>>
MCLastBytes == <<1, 2, 2>>
=============================================================================
