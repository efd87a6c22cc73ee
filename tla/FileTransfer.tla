---------------------------- MODULE FileTransfer ----------------------------
(***************************************************************************)
(* What a YMODEM session promises, whatever the line does: the files are   *)
(* received one after the other, each one chunk by chunk, and a file is    *)
(* reported complete only when all of its chunks are there.  A session may *)
(* stop anywhere.                                                          *)
(***************************************************************************)
EXTENDS Naturals, Sequences

CONSTANTS NumFiles, Chunks

VARIABLES
  received,   \* received[f]: the chunks in the receiver's file f
  complete    \* files reported complete

Files == 1..NumFiles

ChunkOf(f, k) == [file |-> f, chunk |-> k]

Init == received = [f \in Files |-> <<>>] /\ complete = 0

Chunk ==
  /\ complete < NumFiles
  /\ LET f == complete + 1
         k == Len(received[f]) + 1
     IN /\ k <= Chunks[f]
        /\ received' = [received EXCEPT ![f] = Append(@, ChunkOf(f, k))]
  /\ UNCHANGED complete

Complete ==
  /\ complete < NumFiles
  /\ Len(received[complete + 1]) = Chunks[complete + 1]
  /\ complete' = complete + 1
  /\ UNCHANGED received

Next == Chunk \/ Complete

Spec == Init /\ [][Next]_<<received, complete>>
=============================================================================
