------------------------------- MODULE YModem -------------------------------
(***************************************************************************)
(* What the YMODEM peers of Ensc351ymodLib share: the bytes that steer the *)
(* protocol, the blocks, the files to send and the error bound (PeerY.h).  *)
(*                                                                         *)
(* Data is abstract.  A file is a number of chunks; a block is the record  *)
(* of its block number (one byte on the wire, modulo NumMod) and of the    *)
(* <<file, chunk>> it carries.  Chunk 0 is the "stat" block (file name and *)
(* size); file 0 with chunk 0 is the empty stat block that ends a session. *)
(***************************************************************************)
EXTENDS Integers, Sequences, FiniteSets

CONSTANTS
  NumFiles,   \* how many files the sender was given
  Chunks,     \* Chunks[f]: number of chunks the file f is cut into, 0 if empty
  LastBytes,  \* LastBytes[f]: bytes in the last chunk of f
  ChunkSz,    \* CHUNK_SZ, 128 in the code
  NumMod,     \* block numbers are one byte: 256 in the code
  errB,       \* the error bound, 10 in the code
  CAN_LEN     \* CANs sent to cancel, 8 in the code

Files == 1..NumFiles

ASSUME FilesAssumption ==
  /\ NumFiles \in Nat
  /\ Chunks \in [Files -> Nat]
  /\ ChunkSz \in Nat \ {0}
  /\ LastBytes \in [Files -> 1..ChunkSz]

(* A byte counts modulo an even number, so a block keeps the parity of its *)
(* number: the two block buffers alternate across the wrap.                *)
ASSUME NumModAssumption == NumMod \in Nat /\ NumMod > 2 /\ NumMod % 2 = 0

ASSUME BoundAssumption == errB \in Nat \ {0} /\ CAN_LEN \in Nat \ {0, 1}

SOH == "SOH"
EOT == "EOT"
ACK == "ACK"
NAK == "NAK"
CAN == "CAN"
C == "C"
GLITCH == "GLITCH"

(* The bytes a peer's statechart tells apart; GLITCH is every other byte.  *)
ControlBytes == {EOT, ACK, NAK, CAN, C, GLITCH}

(* What travels on the medium: single bytes, and blocks (which start with  *)
(* SOH).  Both are records of one shape.                                   *)
Byte(c) == [type |-> c, num |-> 0, file |-> 0, chunk |-> 0]
Blk(n, f, k) == [type |-> SOH, num |-> n, file |-> f, chunk |-> k]
IsBlk(m) == m.type = SOH
NoBlk == Blk(0, 0, 1)    \* what a buffer holds before its first block

Messages == [type : ControlBytes \cup {SOH}, num : 0..(NumMod - 1),
             file : Nat, chunk : Nat]

(* CAN_LEN copies of CAN, the announcement of a cancellation.              *)
Cans == [i \in 1..CAN_LEN |-> Byte(CAN)]

(* Bytes of chunk k of file f: 0 past the end of the file, a full chunk    *)
(* before the last one.                                                    *)
ChunkBytes(f, k) ==
  IF k > Chunks[f] THEN 0 ELSE IF k = Chunks[f] THEN LastBytes[f] ELSE ChunkSz

(* Size in bytes, as stat() reports it and the stat block carries it.      *)
FileSize(f) ==
  IF Chunks[f] = 0 THEN 0 ELSE (Chunks[f] - 1) * ChunkSz + LastBytes[f]

Descriptor == 3      \* an open file; its value never matters
Closed == -1         \* transferringFileD when no file is open

LastOfFile(b) == b.file \in Files /\ b.chunk = Chunks[b.file]

(* The block sent after b once b is answered: the file's next chunk, or,   *)
(* at the start and after the file's last one, the next file's stat block  *)
(* (the empty one after the last file).                                    *)
Follows(b, a) ==
  \/ a.file = b.file /\ b.file > 0 /\ a.chunk = b.chunk + 1
  \/ /\ b = NoBlk \/ LastOfFile(b)
     /\ a.chunk = 0
     /\ a.file = IF b.file = NumFiles THEN 0 ELSE b.file + 1
=============================================================================
