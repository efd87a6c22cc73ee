--------------------------- MODULE SenderYProofs ----------------------------
(***************************************************************************)
(* Theorems about SenderY, for every list of files, every error bound and  *)
(* every size of the block number.                                         *)
(***************************************************************************)
EXTENDS SenderY, YModemProofs, SequenceTheorems, TLAPS

USE FilesAssumption, NumModAssumption, BoundAssumption, ErrCapAssumption

-----------------------------------------------------------------------------
(***************************************************************************)
(* What the runtime makes of this chart.                                   *)
(***************************************************************************)
LEMMA StartState == SM!Enter(SM!NoHistory, "TopLevel") = "StatC"
  BY DEF SM!Enter, SM!Descend, SM!NoHistory, NON_CAN, NoState

(* Between leaves of NON_CAN: nothing is recorded.                         *)
LEMMA GoToLeaf ==
  ASSUME active \in NON_CAN, NEW t \in NON_CAN, GoTo(active, t)
  PROVE  active' = t /\ hist' = hist
BY DEF GoTo, SM!Enter, SM!Descend, SM!RecordExit, NON_CAN, NoState

(* Into CAN: NON_CAN records the leaf it is left from.                     *)
LEMMA GoToCan ==
  ASSUME active \in NON_CAN, GoTo("NON_CAN", "CAN")
  PROVE  active' = "CAN" /\ hist' = [hist EXCEPT !["NON_CAN"] = active]
BY DEF GoTo, SM!Enter, SM!Descend, SM!RecordExit, NON_CAN, NoState

(* Out of CAN: back into the leaf recorded.                                *)
LEMMA GoBack ==
  ASSUME active = "CAN", hist["NON_CAN"] \in NON_CAN, GoTo("CAN", "NON_CAN")
  PROVE  active' = hist["NON_CAN"] /\ hist' = hist
BY DEF GoTo, SM!Enter, SM!Descend, SM!RecordExit, NON_CAN, NoState

-----------------------------------------------------------------------------
(***************************************************************************)
(* What the context's operations keep, and what they return.               *)
(***************************************************************************)
IInv == TypeOK /\ SenderInv

(* The types of what the files' and the blocks' operations assign.         *)
FilesTyped ==
  /\ fileNameIndex \in 0..NumFiles /\ fileName \in {0, fileNameIndex}
  /\ transferringFileD \in {Descriptor, Closed, -2}
  /\ filePos \in Nat
BlocksTyped ==
  /\ bytesRd \in {-2} \cup 0..ChunkSz
  /\ blkNum \in 0..(NumMod - 1)
  /\ blkBufs \in [0..1 -> Messages] /\ lastBlk \in Messages

LEMMA BlkIsMessage ==
  ASSUME NEW n \in 0..(NumMod - 1), NEW f \in Nat, NEW k \in Nat
  PROVE  Blk(n, f, k) \in Messages
BY DEF Blk, Messages

LEMMA ByteIsMessage ==
  ASSUME NEW c \in ControlBytes
  PROVE  Byte(c) \in Messages
BY DEF Byte, Messages

LEMMA OutTyped ==
  /\ cans => out' \in Seq(Messages)
  /\ Silent => out' \in Seq(Messages)
  /\ \A c \in ControlBytes : sendByte(c) => out' \in Seq(Messages)
<1>1. CAN \in ControlBytes  BY DEF ControlBytes
<1>2. Byte(CAN) \in Messages  BY <1>1, ByteIsMessage
<1>3. Cans \in Seq(Messages)
  <2>1. CAN_LEN \in Nat /\ \A i \in 1..CAN_LEN : Byte(CAN) \in Messages
    BY <1>2
  <2>2. Cans = [i \in 1..CAN_LEN |-> Byte(CAN)]  BY DEF Cans
  <2> HIDE DEF Cans
  <2> QED BY <2>1, <2>2, IsASeq
<1>4. cans => out' \in Seq(Messages)  BY <1>3 DEF cans
<1>5. Silent => out' \in Seq(Messages)  BY DEF Silent
<1>6. \A c \in ControlBytes : sendByte(c) => out' \in Seq(Messages)
  BY ByteIsMessage DEF sendByte
<1> QED BY <1>4, <1>5, <1>6

(* A chunk never has more than ChunkSz bytes.                              *)
LEMMA ChunkBytesTyped ==
  ASSUME NEW f \in Files, NEW k \in Nat \ {0}
  PROVE  /\ ChunkBytes(f, k) \in 0..ChunkSz
         /\ ChunkBytes(f, k) = 0 <=> k > Chunks[f]
BY DEF ChunkBytes, Files

LEMMA PrevNumTyped ==
  ASSUME blkNum \in 0..(NumMod - 1)
  PROVE  PrevNum \in 0..(NumMod - 1) /\ PrevNum % 2 \in 0..1 /\ blkNum % 2 \in 0..1
BY DEF PrevNum

LEMMA PrepStatTyped ==
  ASSUME TypeOK, prepStatBlk
  PROVE  /\ FilesTyped' /\ BlocksTyped'
         /\ fileName' = 0 => fileNameIndex' = NumFiles
<1> USE DEF TypeOK, prepStatBlk, FilesTyped, BlocksTyped, Descriptor, Closed, Files
<1>1. fileName' \in Nat /\ FilesTyped' /\ (fileName' = 0 => fileNameIndex' = NumFiles)
  OBVIOUS
<1>2. Blk(0, fileName', 0) \in Messages /\ Blk(0, 0, 0) \in Messages
  BY <1>1, BlkIsMessage
<1>3. blkBufs' \in [0..1 -> Messages]
  BY <1>2
<1> QED BY <1>1, <1>3

LEMMA SendTyped ==
  ASSUME TypeOK, sendBlkPrepNext
  PROVE  /\ FilesTyped' /\ BlocksTyped' /\ out' \in Seq(Messages)
         /\ UNCHANGED <<fileName, fileNameIndex, transferringFileD>>
<1> USE DEF TypeOK, sendBlkPrepNext, FilesTyped, BlocksTyped
<1>1. /\ blkNum' \in 0..(NumMod - 1) /\ blkNum' % 2 \in 0..1
      /\ blkNum % 2 \in 0..1
  BY BuffersAlternate
<1>2. out' \in Seq(Messages) /\ lastBlk' \in Messages
  BY <1>1
<1>3. CASE fileName = 0
  BY <1>1, <1>2, <1>3
<1>4. CASE fileName # 0
  <2>1. fileName \in Files  BY <1>4 DEF Files
  <2>2. bytesRd' \in 0..ChunkSz
    BY <1>4, <2>1, ChunkBytesTyped DEF genBlk
  <2>3. filePos' \in Nat  BY <1>4 DEF genBlk
  <2>4. blkBufs' \in [0..1 -> Messages]
    <3>1. Blk(blkNum', fileName, filePos') \in Messages
      BY <1>1, <2>1, <2>3, BlkIsMessage DEF Files
    <3> QED BY <1>1, <1>4, <3>1 DEF genBlk
  <2> QED BY <1>1, <1>2, <2>2, <2>3, <2>4
<1> QED BY <1>3, <1>4

LEMMA ResendTyped ==
  ASSUME TypeOK, resendBlk
  PROVE  BlocksTyped' /\ out' \in Seq(Messages)
<1>1. blkBufs[PrevNum % 2] \in Messages
  BY PrevNumTyped DEF TypeOK
<1> QED BY <1>1 DEF TypeOK, resendBlk, BlocksTyped

LEMMA CloseTyped ==
  ASSUME TypeOK, closeTransferredFile
  PROVE  FilesTyped' /\ transferringFileD' # Descriptor
         /\ UNCHANGED <<fileName, fileNameIndex, filePos>>
BY DEF TypeOK, closeTransferredFile, FilesTyped, Descriptor, Closed

-----------------------------------------------------------------------------
(***************************************************************************)
(* Type correctness is kept by every action.                               *)
(***************************************************************************)
LEMMA TypeStep ==
  ASSUME TypeOK, Pending, Next
  PROVE  TypeOK'
<1> USE OutTyped DEF FilesTyped, BlocksTyped, chart, timers, files, blocks, result,
      Stays, NotCancelling, Finish, tm, tmPush, tmPop, NON_CAN, Final, NoState, Endings
<1>1. ASSUME NEW c \in ControlBytes, SER(c)  PROVE TypeOK'
  <2> USE <1>1 DEF ControlBytes
  <2>1. CASE StatC_OpenError(c)
    BY <2>1 DEF TypeOK, StatC_OpenError
  <2>2. CASE StatC_SendStat(c)
    BY <2>2, SendTyped, GoToLeaf DEF TypeOK, StatC_SendStat
  <2>3. CASE ACKNAKSTAT_Accepted(c)
    BY <2>3, GoToLeaf DEF TypeOK, ACKNAKSTAT_Accepted
  <2>4. CASE ACKNAKSTAT_Resend(c)
    BY <2>4, ResendTyped DEF TypeOK, ACKNAKSTAT_Resend
  <2>5. CASE ACKNAKSTAT_EndOfSession(c)
    BY <2>5 DEF TypeOK, ACKNAKSTAT_EndOfSession
  <2>6. CASE ONE_EmptyFile(c)
    BY <2>6, CloseTyped, GoToLeaf DEF TypeOK, ONE_EmptyFile, EOT
  <2>7. CASE ONE_FirstBlock(c)
    BY <2>7, SendTyped, GoToLeaf DEF TypeOK, ONE_FirstBlock
  <2>8. CASE ONE_Resend(c)
    BY <2>8, ResendTyped, GoToLeaf DEF TypeOK, ONE_Resend
  <2>9. CASE ACKNAK_Resend(c)
    BY <2>9, ResendTyped DEF TypeOK, ACKNAK_Resend
  <2>10. CASE ACKNAK_LastAcked(c)
    BY <2>10, CloseTyped, GoToLeaf DEF TypeOK, ACKNAK_LastAcked, EOT
  <2>11. CASE ACKNAK_NextBlock(c)
    <3>1. firstBlk' \in BOOLEAN  BY <2>11, Zenon DEF ACKNAK_NextBlock
    <3> QED BY <3>1, <2>11, SendTyped DEF TypeOK, ACKNAK_NextBlock
  <2>12. CASE EOT1_Resend(c)
    BY <2>12 DEF TypeOK, EOT1_Resend, EOT
  <2>13. CASE EOT1_Acked(c)
    BY <2>13, PrepStatTyped, GoToLeaf DEF TypeOK, EOT1_Acked
  <2>14. CASE EOT1_Naked(c)
    <3>1. firstBlk' \in BOOLEAN  BY <2>14, Zenon DEF EOT1_Naked
    <3> QED BY <3>1, <2>14, GoToLeaf DEF TypeOK, EOT1_Naked, EOT
  <2>15. CASE EOTEOT_Resend(c)
    BY <2>15 DEF TypeOK, EOTEOT_Resend, EOT
  <2>16. CASE EOTEOT_Done(c)
    BY <2>16, PrepStatTyped, GoToLeaf DEF TypeOK, EOTEOT_Done
  <2>17. CASE CAN_Resume(c)
    BY <2>17, GoBack DEF TypeOK, CAN_Resume, Pending
  <2>18. CASE CAN_Cancelled(c)
    BY <2>18, CloseTyped DEF TypeOK, CAN_Cancelled
  <2>19. CASE ExcessiveNAKs(c)
    BY <2>19, CloseTyped DEF TypeOK, ExcessiveNAKs
  <2>20. CASE FirstCan(c)
    BY <2>20, GoToCan DEF TypeOK, FirstCan, Pending
  <2>21. CASE CancelAtAnswer(c)
    BY <2>21, CloseTyped DEF TypeOK, CancelAtAnswer
  <2>22. CASE Ignored(c)
    BY <2>22 DEF TypeOK, Ignored
  <2> QED
    BY <2>1, <2>2, <2>3, <2>4, <2>5, <2>6, <2>7, <2>8, <2>9, <2>10, <2>11, <2>12, <2>13, <2>14, <2>15, <2>16, <2>17, <2>18, <2>19, <2>20, <2>21, <2>22 DEF SER, Block, Resend,
      EndOfFile, Cancel
<1>2. CASE CAN_TM
  BY <1>2, GoBack DEF TypeOK, CAN_TM, Pending
<1>3. CASE TopLevel_TM
  BY <1>3, CloseTyped DEF TypeOK, TopLevel_TM
<1>4. CASE StatC_KB_C
  BY <1>4, CloseTyped DEF TypeOK, StatC_KB_C
<1>5. CASE NON_CAN_KB_C
  BY <1>5 DEF TypeOK, NON_CAN_KB_C
<1>6. CASE CAN_KB_C
  BY <1>6 DEF TypeOK, CAN_KB_C
<1> QED BY <1>1, <1>2, <1>3, <1>4, <1>5, <1>6 DEF Next, TM, KB_C

-----------------------------------------------------------------------------
(***************************************************************************)
(* The operations on the buffers, seen from the block that is out.         *)
(***************************************************************************)
LEMMA NextOfPrev ==
  ASSUME NEW b \in 0..(NumMod - 1)
  PROVE  (((b + NumMod - 1) % NumMod) + 1) % NumMod = b
<1>1. CASE b = 0
  <2>1. (NumMod * 0 + (NumMod - 1)) % NumMod = NumMod - 1  BY ModUnique
  <2>2. (NumMod * 1 + 0) % NumMod = 0  BY ModUnique
  <2> QED BY <1>1, <2>1, <2>2
<1>2. CASE b > 0
  <2>1. (NumMod * 1 + (b - 1)) % NumMod = b - 1  BY <1>2, ModUnique
  <2>2. (NumMod * 0 + b) % NumMod = b  BY ModUnique
  <2> QED BY <1>2, <2>1, <2>2
<1> QED BY <1>1, <1>2

(* The buffer of blkNum holds chunk k of the file, and the file was read   *)
(* up to there: the state sendBlkPrepNext is called in.                    *)
Ready(k) ==
  /\ blkBufs[blkNum % 2] = Blk(blkNum, fileName, k)
  /\ blkNum = k % NumMod
  /\ fileName = 0 => k = 0 /\ transferringFileD = -2
  /\ fileName # 0 => /\ transferringFileD = Descriptor
                     /\ filePos = k /\ k <= Chunks[fileName]

LEMMA ReadyStat ==
  ASSUME TypeOK, StatPrepared, transferringFileD # Closed
  PROVE  Ready(0)
<1>1. (NumMod * 0 + 0) % NumMod = 0  BY ModUnique
<1>2. 0 % 2 = 0  OBVIOUS
<1> QED BY <1>1, <1>2 DEF TypeOK, StatPrepared, Ready, Files, Descriptor, Closed

LEMMA ReadyNext ==
  ASSUME TypeOK, BlockOut, fileName # 0, bytesRd # 0
  PROVE  Ready(lastBlk.chunk + 1) /\ lastBlk.chunk \in Nat
<1>1. fileName \in Files  BY DEF TypeOK, Files
<1>2. lastBlk.chunk \in Nat  BY DEF TypeOK, Messages
<1>3. lastBlk.chunk + 1 <= Chunks[fileName]
  BY <1>1, <1>2, ChunkBytesTyped DEF BlockOut
<1>4. PrevNum = lastBlk.chunk % NumMod  BY DEF BlockOut, Blk
<1>5. blkNum = (lastBlk.chunk + 1) % NumMod
  BY <1>2, <1>4, NumOfNext, NextOfPrev DEF PrevNum, TypeOK
<1> QED BY <1>2, <1>3, <1>5 DEF BlockOut, Ready

(* Sending puts the prepared block out and prepares its successor.         *)
LEMMA SendBlk ==
  ASSUME TypeOK, NEW k \in Nat, Ready(k), sendBlkPrepNext,
         cur' = IF k = 0 THEN "ACKNAKSTAT" ELSE "ACKNAK"
  PROVE  /\ BlockOut'
         /\ lastBlk' = Blk(blkNum, fileName, k) /\ out' = <<lastBlk'>>
<1>1. /\ blkNum' \in 0..(NumMod - 1) /\ PrevNum' = blkNum
      /\ blkNum % 2 \in 0..1 /\ blkNum' % 2 \in 0..1 /\ blkNum' % 2 # blkNum % 2
      /\ blkNum' = (blkNum + 1) % NumMod
  BY BuffersAlternate DEF TypeOK, sendBlkPrepNext, PrevNum
<1>2. /\ lastBlk' = Blk(blkNum, fileName, k) /\ out' = <<lastBlk'>>
      /\ UNCHANGED <<fileName, transferringFileD>>
  BY DEF Ready, sendBlkPrepNext
<1>3. /\ lastBlk'.chunk = k /\ lastBlk'.num = k % NumMod
      /\ lastBlk' = Blk(PrevNum', fileName', lastBlk'.chunk)
  BY <1>1, <1>2 DEF Blk, Ready
<1>a. /\ cur' \in {"ACKNAKSTAT", "ONE"} => lastBlk'.chunk = 0
      /\ cur' = "ACKNAK" => lastBlk'.chunk > 0
  BY <1>3
<1>4. CASE fileName = 0
  <2>1. blkBufs' = blkBufs  BY <1>4 DEF sendBlkPrepNext
  <2>2. blkBufs'[PrevNum' % 2] = lastBlk'  BY <1>1, <1>2, <2>1 DEF Ready
  <2>3. k = 0 /\ transferringFileD' = -2 /\ fileName' = 0
    BY <1>2, <1>4 DEF Ready
  <2> QED BY <1>2, <1>3, <2>2, <2>3 DEF BlockOut
<1>5. CASE fileName # 0
  <2>1. fileName \in Files /\ fileName' = fileName  BY <1>2, <1>5 DEF TypeOK, Files
  <2>2. genBlk(blkNum')  BY <1>5 DEF sendBlkPrepNext
  <2>3. filePos = k /\ k <= Chunks[fileName] /\ transferringFileD' = Descriptor
    BY <1>2, <1>5 DEF Ready
  <2>4. bytesRd' = ChunkBytes(fileName, k + 1) /\ bytesRd' \in 0..ChunkSz
    BY <2>1, <2>2, <2>3, ChunkBytesTyped DEF genBlk
  <2>5. CASE bytesRd' = 0
    <3>1. blkBufs' = blkBufs /\ filePos' = k  BY <2>2, <2>3, <2>5 DEF genBlk
    <3>2. blkBufs'[PrevNum' % 2] = lastBlk'  BY <1>1, <1>2, <3>1 DEF Ready
    <3>3. bytesRd' = ChunkBytes(fileName', lastBlk'.chunk + 1) /\ filePos' = lastBlk'.chunk
      BY <1>3, <2>1, <2>4, <3>1
    <3> QED BY <1>2, <1>3, <1>a, <1>5, <2>1, <2>3, <2>5, <3>2, <3>3 DEF BlockOut
  <2>6. CASE bytesRd' > 0
    <3>1. /\ filePos' = k + 1
          /\ blkBufs' = [blkBufs EXCEPT ![blkNum' % 2] = Blk(blkNum', fileName, k + 1)]
      BY <2>2, <2>3, <2>6 DEF genBlk
    <3>2. /\ blkBufs'[PrevNum' % 2] = lastBlk'
          /\ blkBufs'[blkNum' % 2] = Blk(blkNum', fileName', filePos')
      BY <1>1, <1>2, <2>1, <3>1 DEF Ready, TypeOK
    <3>3. /\ bytesRd' = ChunkBytes(fileName', lastBlk'.chunk + 1)
          /\ filePos' = lastBlk'.chunk + 1
      BY <1>3, <2>1, <2>4, <3>1
    <3> QED BY <1>2, <1>3, <1>a, <1>5, <2>1, <2>3, <2>6, <3>2, <3>3 DEF BlockOut
  <2> QED BY <2>4, <2>5, <2>6
<1> QED BY <1>2, <1>4, <1>5

(* A resend transmits the block that is out, and changes nothing.          *)
LEMMA ResendSame ==
  ASSUME BlockOut, resendBlk
  PROVE  UNCHANGED blocks /\ out' = <<lastBlk>>
BY DEF BlockOut, resendBlk, blocks

LEMMA PrepStatReady ==
  ASSUME TypeOK, FileEnded, prepStatBlk
  PROVE  StatPrepared'
<1>1. /\ fileName \in Files /\ fileName = fileNameIndex
      /\ lastBlk.file = fileName /\ lastBlk.chunk = Chunks[fileName]
  BY DEF TypeOK, FileEnded, LastOfFile, Files
<1>2. fileName' = IF fileName = NumFiles THEN 0 ELSE fileName + 1
  BY <1>1 DEF prepStatBlk, TypeOK, Files
<1>3. Follows(lastBlk, Blk(0, fileName', 0))
  BY <1>1, <1>2 DEF Follows, LastOfFile, Blk, Files
<1>4. /\ lastBlk' = lastBlk /\ blkNum' = 0 /\ filePos' = 0
      /\ transferringFileD' = -2 <=> fileName' = 0
  BY <1>1 DEF prepStatBlk, TypeOK, Descriptor, Closed, Files
<1>5. transferringFileD' # Closed => blkBufs'[0] = Blk(0, fileName', 0)
  BY <1>1 DEF prepStatBlk, TypeOK, Descriptor, Closed, Files
<1> QED BY <1>3, <1>4, <1>5 DEF StatPrepared

-----------------------------------------------------------------------------
(***************************************************************************)
(* The invariant is kept by every action.                                  *)
(***************************************************************************)
(* Actions that only move the chart in and out of CAN, or not at all.      *)
LEMMA Frame ==
  ASSUME TypeOK, SenderInv, cur' = cur, Pending',
         active = Final <=> active' = Final, active' = "StatC" => ~KbCan',
         UNCHANGED <<errCnt, files, blocks, result>>
  PROVE  SenderInv'
<1>1. UNCHANGED <<fileName, fileNameIndex, transferringFileD, filePos, bytesRd,
                  blkNum, blkBufs, lastBlk, done, ending, errCnt>>
  BY DEF files, blocks, result
<1>2. StatPrepared' <=> StatPrepared  BY <1>1 DEF StatPrepared
<1>3. BlockOut' <=> BlockOut
  <2>1. PrevNum' = PrevNum  BY <1>1 DEF PrevNum
  <2> QED BY <1>1, <2>1 DEF BlockOut
<1>4. FileEnded' <=> FileEnded  BY <1>1 DEF FileEnded
<1>5. (AwaitingAnswer' <=> AwaitingAnswer) /\ (ErrorsBounded' <=> ErrorsBounded)
  BY <1>1 DEF AwaitingAnswer, ErrorsBounded
<1>6. running' <=> running  BY DEF running
<1> HIDE DEF cur
<1> QED BY <1>1, <1>2, <1>3, <1>4, <1>5, <1>6 DEF SenderInv

(* Actions that end the session.                                           *)
LEMMA Finished ==
  ASSUME TypeOK, SenderInv, active' = Final, hist' = hist,
         UNCHANGED <<fileName, fileNameIndex>>, transferringFileD' # Descriptor,
         done' \in {0, done}
  PROVE  SenderInv'
<1>1. cur' = Final  BY DEF cur, Final
<1>2. Pending'  BY DEF SenderInv, Pending, Final, NON_CAN
<1>3. done' <= fileNameIndex'  BY DEF SenderInv, TypeOK
<1>4. ~AwaitingAnswer' /\ ErrorsBounded'
  BY <1>1 DEF AwaitingAnswer, ErrorsBounded, Final
<1>5. fileName' = 0 => fileNameIndex' = NumFiles  BY DEF SenderInv
<1> HIDE DEF cur
<1> QED BY <1>1, <1>2, <1>3, <1>4, <1>5 DEF SenderInv, Final, running

(* Actions that stay among the leaves of NON_CAN.                          *)
LEMMA LeafMove ==
  ASSUME SenderInv, NEW t \in NON_CAN, active \in NON_CAN, active' = t,
         hist' = hist, timer' = "VL"
  PROVE  Pending' /\ cur = active /\ cur' = t /\ running /\ running'
BY DEF SenderInv, Pending, cur, NON_CAN, running, Final

(* A stat block, a file's first chunk or its next one is sent.             *)
LEMMA Sent ==
  ASSUME TypeOK, SenderInv, NEW k \in Nat, Ready(k), sendBlkPrepNext,
         active \in NON_CAN, active' = IF k = 0 THEN "ACKNAKSTAT" ELSE "ACKNAK",
         hist' = hist, timer' = "VL", errCnt' = 0, UNCHANGED result
  PROVE  SenderInv'
<1>1. Pending' /\ cur' = active' /\ running /\ running'
  BY LeafMove DEF NON_CAN
<1>2. BlockOut'  BY <1>1, SendBlk
<1>3. UNCHANGED <<fileName, fileNameIndex, done, ending>>
  BY DEF sendBlkPrepNext, result
<1>4. ErrorsBounded'  BY DEF ErrorsBounded
<1> QED BY <1>1, <1>2, <1>3, <1>4 DEF SenderInv, NON_CAN, Final

(* The block that is out is sent again.                                    *)
LEMMA Resent ==
  ASSUME TypeOK, SenderInv, AwaitingAnswer, resendBlk, active \in NON_CAN,
         active' = active \/ (active = "ONE" /\ active' = "ACKNAKSTAT"),
         active = "ACKNAK" => errCnt < errB,
         hist' = hist, timer' = "VL", errCnt' = errCnt + 1,
         UNCHANGED <<files, result>>
  PROVE  SenderInv'
<1>1. Pending' /\ cur = active /\ cur' = active' /\ running /\ running'
  BY LeafMove DEF NON_CAN
<1>2. BlockOut /\ UNCHANGED <<blocks, fileName, fileNameIndex, transferringFileD, filePos, done, ending>>
  BY ResendSame DEF SenderInv, files, result
<1>3. UNCHANGED <<bytesRd, blkNum, blkBufs, lastBlk>> /\ PrevNum' = PrevNum
  BY <1>2 DEF blocks, PrevNum
<1>4. BlockOut'
  BY <1>1, <1>2, <1>3 DEF BlockOut
<1>5. ErrorsBounded'  BY <1>1 DEF ErrorsBounded, TypeOK, AwaitingAnswer
<1>6. AwaitingAnswer' /\ active' \notin {"StatC", "EOT1", "EOTEOT", Final}
  BY <1>1 DEF AwaitingAnswer, Final
<1> QED BY <1>1, <1>2, <1>4, <1>5, <1>6 DEF SenderInv

(* The file was sent to its end: it is closed and EOT goes out.            *)
LEMMA Ended ==
  ASSUME TypeOK, SenderInv, closeTransferredFile, bytesRd = 0,
         active \in {"ONE", "ACKNAK"}, active' = "EOT1", hist' = hist,
         timer' = "VL", errCnt' = 0, UNCHANGED <<blocks, result>>
  PROVE  SenderInv' /\ LastOfFile(lastBlk) /\ transferringFileD' = Closed
<1>1. Pending' /\ cur = active /\ cur' = "EOT1" /\ running /\ running'
  BY LeafMove DEF NON_CAN
<1>2. BlockOut  BY <1>1 DEF SenderInv, AwaitingAnswer
<1>3. /\ fileName # 0 /\ transferringFileD = Descriptor
      /\ lastBlk.file = fileName /\ lastBlk.chunk \in Nat
      /\ lastBlk.chunk <= Chunks[fileName]
      /\ ChunkBytes(fileName, lastBlk.chunk + 1) = 0
  BY <1>1, <1>2 DEF BlockOut, Blk, TypeOK, Messages
<1>4. fileName \in Files  BY <1>3 DEF TypeOK, Files
<1>5. lastBlk.chunk = Chunks[fileName]
  BY <1>3, <1>4, ChunkBytesTyped
<1>6. LastOfFile(lastBlk)  BY <1>3, <1>4, <1>5 DEF LastOfFile
<1>7. /\ transferringFileD' = Closed
      /\ UNCHANGED <<fileName, fileNameIndex, done, ending, lastBlk>>
  BY <1>3 DEF closeTransferredFile, Descriptor, Closed, blocks, result
<1>8. FileEnded'  BY <1>3, <1>6, <1>7 DEF FileEnded
<1>9. ErrorsBounded' /\ ~AwaitingAnswer'  BY <1>1 DEF ErrorsBounded, AwaitingAnswer
<1> QED BY <1>1, <1>6, <1>7, <1>8, <1>9 DEF SenderInv, Final

(* EOT is repeated, or answered by its first NAK.                          *)
LEMMA EotAgain ==
  ASSUME TypeOK, SenderInv, active \in {"EOT1", "EOTEOT"},
         active' \in {"EOT1", "EOTEOT"}, hist' = hist, timer' = "VL",
         errCnt' <= errB, UNCHANGED <<files, blocks, result>>
  PROVE  SenderInv' /\ FileEnded
<1>1. Pending' /\ cur = active /\ cur' = active' /\ running /\ running'
  BY LeafMove DEF NON_CAN
<1>2. FileEnded  BY <1>1 DEF SenderInv
<1>3. FileEnded'  BY <1>2 DEF FileEnded, files, blocks
<1>4. ErrorsBounded' /\ ~AwaitingAnswer'  BY <1>1 DEF ErrorsBounded, AwaitingAnswer
<1> QED BY <1>1, <1>2, <1>3, <1>4 DEF SenderInv, Final, files, result

(* A finished file is followed by the next stat block.                     *)
LEMMA NextFile ==
  ASSUME TypeOK, SenderInv, prepStatBlk, active \in {"EOT1", "EOTEOT"},
         active' = "StatC", hist' = hist, timer' = "VL", ~KbCan', errCnt' = errCnt,
         done' \in {done, done + 1}, ending' = ending
  PROVE  SenderInv' /\ FileEnded /\ done' <= fileName
<1>1. Pending' /\ cur = active /\ cur' = "StatC" /\ running /\ running'
  BY LeafMove DEF NON_CAN
<1>2. FileEnded  BY <1>1 DEF SenderInv
<1>3. StatPrepared'  BY <1>2, PrepStatReady
<1>4. fileName \in Files /\ fileName = fileNameIndex
  BY <1>2 DEF FileEnded, LastOfFile, TypeOK, Files
<1>5. done <= fileName - 1  BY <1>1, <1>4 DEF SenderInv, Files
<1>6. done' <= fileName  BY <1>4, <1>5 DEF TypeOK, Files
<1>7. done' <= IF fileName' = 0 \/ ~running' THEN fileNameIndex' ELSE fileName' - 1
  BY <1>1, <1>4, <1>6 DEF prepStatBlk, TypeOK, Files
<1>8. fileName' = 0 => fileNameIndex' = NumFiles  BY PrepStatTyped
<1>9. ErrorsBounded' /\ ~AwaitingAnswer'
  BY <1>1 DEF ErrorsBounded, AwaitingAnswer, SenderInv
<1> QED BY <1>1, <1>2, <1>3, <1>6, <1>7, <1>8, <1>9 DEF SenderInv, Final

(* In and out of CAN the state to resume stays the same.                   *)
LEMMA IntoCan ==
  ASSUME TypeOK, SenderInv, NEW c \in ControlBytes, FirstCan(c)
  PROVE  SenderInv'
<1> USE DEF FirstCan, SenderInv, Pending
<1>1. active' = "CAN" /\ hist' = [hist EXCEPT !["NON_CAN"] = active]
  BY GoToCan
<1>2. hist'["NON_CAN"] = active /\ (\A s \in DOMAIN hist : s # "NON_CAN" => hist'[s] = hist[s])
  BY <1>1 DEF TypeOK
<1>3. cur' = active /\ cur = active  BY <1>1, <1>2 DEF cur, NON_CAN
<1>4. DOMAIN hist' = DOMAIN hist  BY <1>1
<1>5. Pending'
  BY <1>1, <1>2, <1>3, <1>4 DEF tmPush, NON_CAN
<1> QED BY <1>1, <1>3, <1>5, Frame DEF NON_CAN, Final

LEMMA OutOfCan ==
  ASSUME TypeOK, SenderInv, active = "CAN", ~KbCan, tmPop, GoTo("CAN", "NON_CAN"),
         KbCan' = KbCan, interrupted' = interrupted,
         UNCHANGED <<errCnt, files, blocks, result>>
  PROVE  SenderInv' /\ <<active', timer'>> = interrupted
<1>1. active' = hist["NON_CAN"] /\ hist' = hist /\ active' \in NON_CAN
  BY GoBack DEF SenderInv, Pending
<1>2. active' # "CAN" /\ active' # Final  BY <1>1 DEF NON_CAN, Final
<1>3. cur' = cur  BY <1>1, <1>2 DEF cur
<1>4. Pending' /\ timer' = held
  BY <1>1, <1>2 DEF SenderInv, Pending, tmPop
<1>5. interrupted = <<cur, held>>  BY DEF SenderInv, Pending
<1>6. cur = active'  BY <1>1 DEF cur
<1> QED BY <1>2, <1>3, <1>4, <1>5, <1>6, Frame DEF Final

(* Events that leave the chart where it is.                                *)
LEMMA Unmoved ==
  ASSUME TypeOK, SenderInv, active' = active, hist' = hist, held' = held,
         timer' \in {timer, "RED"}, active = "CAN" => timer' = timer,
         interrupted' = interrupted, active = "StatC" => KbCan' = KbCan,
         UNCHANGED <<errCnt, files, blocks, result>>
  PROVE  SenderInv'
<1>1. cur' = cur  BY DEF cur
<1>2. Pending'  BY <1>1 DEF SenderInv, Pending, NON_CAN
<1>3. active' = "StatC" => ~KbCan'  BY DEF SenderInv
<1> HIDE DEF cur
<1> QED BY <1>1, <1>2, <1>3, Frame

LEMMA InvStep ==
  ASSUME TypeOK, SenderInv, Next
  PROVE  SenderInv'
<1> USE DEF Stays, NotCancelling, Finish, chart, timers, result, tm
<1>1. ASSUME NEW c \in ControlBytes, SER(c)  PROVE SenderInv'
  <2> USE <1>1
  <2>1. CASE StatC_OpenError(c)
    <3>1. UNCHANGED <<fileName, fileNameIndex, transferringFileD>>
      BY <2>1 DEF StatC_OpenError, files
    <3> QED BY <2>1, <3>1, Finished DEF StatC_OpenError, Closed, Descriptor
  <2>2. CASE StatC_SendStat(c)
    <3>1. active \in NON_CAN /\ cur = "StatC"
      BY <2>2 DEF StatC_SendStat, cur, NON_CAN
    <3>2. active' = "ACKNAKSTAT" /\ hist' = hist
      BY <2>2, GoToLeaf DEF StatC_SendStat, NON_CAN
    <3>3. Ready(0)  BY <2>2, <3>1, ReadyStat DEF StatC_SendStat, SenderInv
    <3> QED BY <2>2, <3>1, <3>2, <3>3, Sent DEF StatC_SendStat
  <2>3. CASE ACKNAKSTAT_Accepted(c)
    <3>1. active \in NON_CAN  BY <2>3 DEF ACKNAKSTAT_Accepted, NON_CAN
    <3>2. active' = "ONE" /\ hist' = hist
      BY <2>3, GoToLeaf DEF ACKNAKSTAT_Accepted, NON_CAN
    <3>3. Pending' /\ cur = "ACKNAKSTAT" /\ cur' = "ONE" /\ running /\ running'
      BY <2>3, <3>1, <3>2, LeafMove DEF ACKNAKSTAT_Accepted, NON_CAN
    <3>4. /\ UNCHANGED <<fileName, fileNameIndex, transferringFileD, filePos, bytesRd,
                        blkNum, blkBufs, lastBlk, done, ending>>
          /\ fileName # 0
      BY <2>3 DEF ACKNAKSTAT_Accepted, files, blocks
    <3>5. BlockOut  BY <3>3 DEF SenderInv, AwaitingAnswer
    <3>6. PrevNum' = PrevNum  BY <3>4 DEF PrevNum
    <3>7. BlockOut'  BY <3>3, <3>4, <3>5, <3>6 DEF BlockOut
    <3>8. AwaitingAnswer' /\ ErrorsBounded'
      BY <3>3 DEF ErrorsBounded, AwaitingAnswer
    <3> QED BY <3>2, <3>3, <3>4, <3>7, <3>8 DEF SenderInv, Final
  <2>4. CASE ACKNAKSTAT_Resend(c)
    BY <2>4, Resent DEF ACKNAKSTAT_Resend, AwaitingAnswer, NON_CAN, cur
  <2>5. CASE ACKNAKSTAT_EndOfSession(c)
    <3>1. /\ UNCHANGED <<fileName, fileNameIndex, transferringFileD>>
          /\ cur = "ACKNAKSTAT"
      BY <2>5 DEF ACKNAKSTAT_EndOfSession, files, cur
    <3>2. transferringFileD # Descriptor
      BY <2>5, <3>1 DEF ACKNAKSTAT_EndOfSession, SenderInv, AwaitingAnswer, BlockOut, Descriptor
    <3> QED BY <2>5, <3>1, <3>2, Finished DEF ACKNAKSTAT_EndOfSession
  <2>6. CASE ONE_EmptyFile(c)
    BY <2>6, GoToLeaf, Ended DEF ONE_EmptyFile, NON_CAN
  <2>7. CASE ONE_FirstBlock(c)
    <3>1. active \in NON_CAN /\ cur = "ONE"
      BY <2>7 DEF ONE_FirstBlock, cur, NON_CAN
    <3>2. active' = "ACKNAK" /\ hist' = hist
      BY <2>7, GoToLeaf DEF ONE_FirstBlock, NON_CAN
    <3>3. BlockOut /\ fileName # 0
      BY <3>1 DEF SenderInv, AwaitingAnswer, BlockOut
    <3>4. PICK k \in Nat : k = lastBlk.chunk + 1 /\ Ready(k)
      BY <2>7, <3>3, ReadyNext DEF ONE_FirstBlock
    <3>5. k # 0  BY <3>3, <3>4, ReadyNext, <2>7 DEF ONE_FirstBlock
    <3> QED BY <2>7, <3>1, <3>2, <3>4, <3>5, Sent DEF ONE_FirstBlock
  <2>8. CASE ONE_Resend(c)
    BY <2>8, GoToLeaf, Resent DEF ONE_Resend, AwaitingAnswer, NON_CAN, cur
  <2>9. CASE ACKNAK_Resend(c)
    BY <2>9, Resent DEF ACKNAK_Resend, AwaitingAnswer, NON_CAN, cur
  <2>10. CASE ACKNAK_LastAcked(c)
    BY <2>10, GoToLeaf, Ended DEF ACKNAK_LastAcked, NON_CAN
  <2>11. CASE ACKNAK_NextBlock(c)
    <3>1. active \in NON_CAN /\ cur = "ACKNAK"
      BY <2>11 DEF ACKNAK_NextBlock, cur, NON_CAN
    <3>2. BlockOut /\ fileName # 0
      BY <3>1 DEF SenderInv, AwaitingAnswer, BlockOut
    <3>3. PICK k \in Nat : k = lastBlk.chunk + 1 /\ Ready(k)
      BY <2>11, <3>2, ReadyNext DEF ACKNAK_NextBlock
    <3>4. k # 0  BY <3>2, <3>3, ReadyNext, <2>11 DEF ACKNAK_NextBlock
    <3> QED BY <2>11, <3>1, <3>3, <3>4, Sent DEF ACKNAK_NextBlock
  <2>12. CASE EOT1_Resend(c)
    BY <2>12, EotAgain DEF EOT1_Resend, TypeOK
  <2>13. CASE EOT1_Acked(c)
    BY <2>13, GoToLeaf, NextFile DEF EOT1_Acked, NON_CAN
  <2>14. CASE EOT1_Naked(c)
    BY <2>14, GoToLeaf, EotAgain DEF EOT1_Naked, NON_CAN
  <2>15. CASE EOTEOT_Resend(c)
    BY <2>15, EotAgain DEF EOTEOT_Resend, TypeOK
  <2>16. CASE EOTEOT_Done(c)
    BY <2>16, GoToLeaf, NextFile DEF EOTEOT_Done, NON_CAN
  <2>17. CASE CAN_Resume(c)
    BY <2>17, OutOfCan DEF CAN_Resume
  <2>18. CASE CAN_Cancelled(c)
    BY <2>18, CloseTyped, Finished DEF CAN_Cancelled
  <2>19. CASE ExcessiveNAKs(c)
    BY <2>19, CloseTyped, Finished DEF ExcessiveNAKs
  <2>20. CASE FirstCan(c)
    BY <2>20, IntoCan
  <2>21. CASE CancelAtAnswer(c)
    BY <2>21, CloseTyped, Finished DEF CancelAtAnswer
  <2>22. CASE Ignored(c)
    BY <2>22, Unmoved DEF Ignored
  <2> QED
    BY <2>1, <2>2, <2>3, <2>4, <2>5, <2>6, <2>7, <2>8, <2>9, <2>10, <2>11, <2>12, <2>13, <2>14, <2>15, <2>16, <2>17, <2>18, <2>19, <2>20, <2>21, <2>22 DEF SER, Block, Resend,
      EndOfFile, Cancel
<1>2. CASE CAN_TM
  BY <1>2, OutOfCan DEF CAN_TM
<1>3. CASE TopLevel_TM
  BY <1>3, CloseTyped, Finished DEF TopLevel_TM
<1>4. CASE StatC_KB_C
  BY <1>4, CloseTyped, Finished DEF StatC_KB_C
<1>5. CASE NON_CAN_KB_C
  BY <1>5, Unmoved DEF NON_CAN_KB_C, NON_CAN
<1>6. CASE CAN_KB_C
  BY <1>6, Unmoved DEF CAN_KB_C
<1> QED BY <1>1, <1>2, <1>3, <1>4, <1>5, <1>6 DEF Next, TM, KB_C

LEMMA InitInv == Init => TypeOK /\ SenderInv
<1> SUFFICES ASSUME Init PROVE TypeOK /\ SenderInv
  OBVIOUS
<1>1. active = "StatC" /\ cur = "StatC" /\ running
  BY StartState DEF Init, cur, running, Final
<1>2. hist \in [NON_CAN \cup {"CAN", "NON_CAN", "TopLevel"} -> NON_CAN \cup {NoState}]
  BY DEF Init, SM!NoHistory
<1>3. /\ fileNameIndex \in 0..NumFiles /\ fileName = fileNameIndex
      /\ fileName = IF NumFiles = 0 THEN 0 ELSE 1
  BY DEF Init
<1>4. Blk(0, fileName, 0) \in Messages /\ NoBlk \in Messages
  BY <1>3, BlkIsMessage DEF NoBlk
<1>5. TypeOK
  <2>1. blkBufs \in [0..1 -> Messages] /\ lastBlk \in Messages
    BY <1>4 DEF Init
  <2>2. transferringFileD \in {Descriptor, Closed, -2}  BY DEF Init
  <2>3. KbCan \in BOOLEAN /\ firstBlk \in BOOLEAN  BY Zenon DEF Init
  <2>4. /\ filePos \in Nat /\ bytesRd \in {-2} \cup 0..ChunkSz /\ errCnt \in 0..ErrCap
        /\ blkNum \in 0..(NumMod - 1) /\ done \in Nat /\ out \in Seq(Messages)
    BY DEF Init
  <2>5. timer \in {"VL", "RED", "CHAR"} /\ held \in {"none", "VL", "RED"} /\ ending \in Endings
    BY DEF Init, Endings
  <2> QED BY <1>1, <1>2, <1>3, <2>1, <2>2, <2>3, <2>4, <2>5 DEF TypeOK, NON_CAN
<1>6. Pending  BY <1>1, <1>2 DEF Init, Pending, NON_CAN, SM!NoHistory
<1>7. StatPrepared
  BY <1>3 DEF Init, StatPrepared, Follows, NoBlk, Blk, Descriptor, Closed
<1>8. ErrorsBounded /\ ~AwaitingAnswer
  BY <1>1 DEF ErrorsBounded, AwaitingAnswer, Init
<1> QED BY <1>1, <1>3, <1>5, <1>6, <1>7, <1>8 DEF SenderInv, Init, Final

-----------------------------------------------------------------------------
(***************************************************************************)
(* What a step writes to the medium.                                       *)
(***************************************************************************)
Written ==
  \/ out' = <<>>
  \/ out' = Cans
  \/ /\ out' = <<Byte(EOT)>>
     /\ LastOfFile(lastBlk) /\ transferringFileD' = Closed
  \/ /\ ~KbCan
     /\ \E m \in Messages : IsBlk(m) /\ out' = <<m>> /\ BlockSent(m)

LEMMA StatFollows ==
  ASSUME TypeOK, StatPrepared, transferringFileD # Closed, sendBlkPrepNext
  PROVE  \E m \in Messages : IsBlk(m) /\ out' = <<m>> /\ BlockSent(m)
<1> DEFINE m == Blk(0, fileName, 0)
<1>1. m \in Messages  BY BlkIsMessage DEF TypeOK
<1>2. out' = <<m>> /\ Follows(lastBlk, m)
  BY DEF StatPrepared, sendBlkPrepNext
<1>3. IsBlk(m) /\ m.num = 0 /\ m.chunk = 0  BY DEF IsBlk, Blk
<1>4. (NumMod * 0 + 0) % NumMod = 0  BY ModUnique
<1> QED BY <1>1, <1>2, <1>3, <1>4 DEF BlockSent

LEMMA ChunkFollows ==
  ASSUME TypeOK, BlockOut, fileName # 0, bytesRd # 0, sendBlkPrepNext
  PROVE  \E m \in Messages : IsBlk(m) /\ out' = <<m>> /\ BlockSent(m)
<1> DEFINE k == lastBlk.chunk + 1
           m == Blk(blkNum, fileName, k)
<1>1. Ready(k) /\ k \in Nat  BY ReadyNext
<1>2. m \in Messages  BY <1>1, BlkIsMessage DEF TypeOK
<1>3. out' = <<m>> /\ m.num = k % NumMod
  BY <1>1 DEF Ready, sendBlkPrepNext, Blk
<1>4. lastBlk.file = fileName  BY DEF BlockOut, Blk
<1>5. fileName > 0  BY DEF TypeOK
<1>6. m.file = fileName /\ m.chunk = k /\ IsBlk(m)  BY DEF Blk, IsBlk
<1>7. Follows(lastBlk, m)  BY <1>4, <1>5, <1>6 DEF Follows
<1> HIDE DEF m, k
<1> QED BY <1>2, <1>3, <1>6, <1>7 DEF BlockSent

LEMMA SameAgain ==
  ASSUME TypeOK, SenderInv, AwaitingAnswer, resendBlk
  PROVE  \E m \in Messages : IsBlk(m) /\ out' = <<m>> /\ BlockSent(m)
<1>1. BlockOut /\ lastBlk \in Messages  BY DEF SenderInv, TypeOK
<1>2. out' = <<lastBlk>>  BY <1>1, ResendSame
<1>3. IsBlk(lastBlk) /\ BlockSent(lastBlk)
  BY <1>1 DEF BlockOut, IsBlk, Blk, BlockSent
<1> QED BY <1>1, <1>2, <1>3

LEMMA EndedClosed ==
  ASSUME SenderInv, active \in {"EOT1", "EOTEOT"}, UNCHANGED files
  PROVE  LastOfFile(lastBlk) /\ transferringFileD' = Closed
<1>1. cur = active  BY DEF cur
<1> QED BY <1>1 DEF SenderInv, FileEnded, files

LEMMA StepWrites ==
  ASSUME TypeOK, SenderInv, Next
  PROVE  Written
<1> USE DEF Silent, cans, sendByte
<1>1. ASSUME NEW c \in ControlBytes, SER(c)  PROVE Written
  <2> USE <1>1
  <2>1. CASE StatC_SendStat(c)
    <3>1. StatPrepared /\ ~KbCan
      BY <2>1 DEF StatC_SendStat, SenderInv, cur
    <3> QED BY <2>1, <3>1, StatFollows DEF StatC_SendStat, Written
  <2>2. CASE ONE_FirstBlock(c)
    <3>1. BlockOut /\ fileName # 0
      BY <2>2 DEF ONE_FirstBlock, SenderInv, AwaitingAnswer, BlockOut, cur
    <3> QED BY <2>2, <3>1, ChunkFollows DEF ONE_FirstBlock, Written
  <2>3. CASE ACKNAK_NextBlock(c)
    <3>1. BlockOut /\ fileName # 0
      BY <2>3 DEF ACKNAK_NextBlock, SenderInv, AwaitingAnswer, BlockOut, cur
    <3> QED BY <2>3, <3>1, ChunkFollows DEF ACKNAK_NextBlock, Written
  <2>4. CASE Resend(c)
    BY <2>4, SameAgain DEF Resend, ACKNAKSTAT_Resend, ONE_Resend, ACKNAK_Resend, Written,
      AwaitingAnswer, cur
  <2>5. CASE ONE_EmptyFile(c)
    BY <2>5, GoToLeaf, Ended DEF ONE_EmptyFile, NON_CAN, Written, tm
  <2>6. CASE ACKNAK_LastAcked(c)
    BY <2>6, GoToLeaf, Ended DEF ACKNAK_LastAcked, NON_CAN, Written, tm
  <2>7. CASE EOT1_Resend(c) \/ EOT1_Naked(c) \/ EOTEOT_Resend(c)
    BY <2>7, EndedClosed DEF EOT1_Resend, EOT1_Naked, EOTEOT_Resend, Written
  <2>8. CASE EOT1_Acked(c) \/ EOTEOT_Done(c)
    BY <2>8 DEF EOT1_Acked, EOTEOT_Done, Written
  <2>9. CASE Cancel(c)
    BY <2>9 DEF Cancel, FirstCan, CAN_Resume, CAN_Cancelled, ExcessiveNAKs, CancelAtAnswer,
      Written
  <2>10. CASE StatC_OpenError(c) \/ ACKNAKSTAT_Accepted(c) \/ ACKNAKSTAT_EndOfSession(c)
              \/ Ignored(c)
    BY <2>10 DEF StatC_OpenError, ACKNAKSTAT_Accepted, ACKNAKSTAT_EndOfSession, Ignored,
      Written
  <2> QED
    BY <2>1, <2>2, <2>3, <2>4, <2>5, <2>6, <2>7, <2>8, <2>9, <2>10
      DEF SER, Block, EndOfFile
<1>2. CASE TM \/ KB_C
  BY <1>2 DEF TM, CAN_TM, TopLevel_TM, KB_C, StatC_KB_C, NON_CAN_KB_C, CAN_KB_C, Written
<1> QED BY <1>1, <1>2 DEF Next

-----------------------------------------------------------------------------
(***************************************************************************)
(* The theorems.                                                           *)
(***************************************************************************)
LEMMA StepIInv == IInv /\ [Next]_vars => IInv'
<1> SUFFICES ASSUME IInv, [Next]_vars PROVE IInv'
  OBVIOUS
<1>1. CASE Next
  BY <1>1, TypeStep, InvStep DEF IInv, SenderInv
<1>2. CASE UNCHANGED vars
  <2>1. TypeOK'  BY <1>2 DEF IInv, TypeOK, vars, chart, timers, files, blocks, result
  <2>2. SenderInv'
    BY <1>2, Unmoved DEF IInv, vars, chart, timers
  <2> QED BY <2>1, <2>2 DEF IInv
<1> QED BY <1>1, <1>2

(* Every variable keeps its type and the inductive invariant holds: what   *)
(* the block buffers, the descriptor and the file position are in each     *)
(* state of the chart (ySenderSS.cpp, SenderY.cpp).                        *)
THEOREM SenderInvariant == Spec => []IInv
<1>1. Init => IInv  BY InitInv DEF IInv
<1> QED BY <1>1, StepIInv, PTL DEF Spec

(* Every variable keeps its type.                                          *)
THEOREM TypeCorrect == Spec => []TypeOK
BY SenderInvariant, PTL DEF IInv

(* What the two buffers, the descriptor and the file position hold, by the *)
(* state the chart is in or will resume, for every file and modulus.       *)
THEOREM BuffersHoldBlocks == Spec => []SenderInv
BY SenderInvariant, PTL DEF IInv

(* No way to end the session leaves a file open, and the descriptor is     *)
(* open while blocks of a file are answered.                               *)
THEOREM DescriptorSafe == Spec => []DescriptorMatchesState
<1>1. IInv => DescriptorMatchesState
  <2> SUFFICES ASSUME IInv PROVE DescriptorMatchesState
    OBVIOUS
  <2>1. cur \in NON_CAN \cup {Final} /\ (cur = Final <=> active = Final)
    BY DEF IInv, TypeOK, SenderInv, Pending, cur, Final, NON_CAN
  <2>2. cur \in {"EOT1", "EOTEOT"} => transferringFileD # Descriptor
    BY DEF IInv, SenderInv, FileEnded, Closed, Descriptor
  <2>3. AwaitingAnswer /\ fileName # 0 => transferringFileD = Descriptor
    BY DEF IInv, SenderInv, BlockOut
  <2> HIDE DEF cur
  <2> QED BY <2>1, <2>2, <2>3 DEF IInv, SenderInv, DescriptorMatchesState, NON_CAN
<1> QED BY <1>1, SenderInvariant, PTL

(* Outside the stat block's exchange errCnt stays within errB.             *)
THEOREM ErrorsStayBounded == Spec => []ErrorsBounded
<1>1. IInv => ErrorsBounded  BY DEF IInv, SenderInv
<1> QED BY <1>1, SenderInvariant, PTL

(* A block on the line is the one sent last or the next of the session,    *)
(* under its own number: for every list of files and any byte size.        *)
THEOREM OrderedBlocks == Spec => BlocksInOrder
<1>1. IInv /\ Next => \A i \in DOMAIN out' : IsBlk(out'[i]) => BlockSent(out'[i])
  <2> SUFFICES ASSUME IInv, Next, NEW i \in DOMAIN out', IsBlk(out'[i])
               PROVE  BlockSent(out'[i])
    OBVIOUS
  <2>1. Written  BY StepWrites DEF IInv
  <2>2. out' # <<>> /\ out' # Cans /\ out' # <<Byte(EOT)>>
    BY DEF IsBlk, Cans, Byte, SOH, CAN, EOT
  <2>3. PICK m \in Messages : out' = <<m>> /\ BlockSent(m)
    BY <2>1, <2>2 DEF Written
  <2>4. out'[i] = m  BY <2>3
  <2> QED BY <2>3, <2>4
<1>2. IInv /\ [Next]_vars =>
        [\A i \in DOMAIN out' : IsBlk(out'[i]) => BlockSent(out'[i])]_vars
  BY <1>1
<1> QED BY <1>2, SenderInvariant, PTL DEF Spec, BlocksInOrder

(* After a keyboard cancel no block is put on the line.                    *)
THEOREM CancelStopsBlocks == Spec => NoBlockAfterCancel
<1>1. IInv /\ Next => (KbCan => \A i \in DOMAIN out' : ~IsBlk(out'[i]))
  <2> SUFFICES ASSUME IInv, Next, KbCan, NEW i \in DOMAIN out'
               PROVE  ~IsBlk(out'[i])
    OBVIOUS
  <2>1. out' = <<>> \/ out' = Cans \/ out' = <<Byte(EOT)>>
    BY StepWrites DEF IInv, Written
  <2> QED BY <2>1 DEF IsBlk, Cans, Byte, SOH, CAN, EOT
<1>2. IInv /\ [Next]_vars =>
        [KbCan => \A i \in DOMAIN out' : ~IsBlk(out'[i])]_vars
  BY <1>1
<1> QED BY <1>2, SenderInvariant, PTL DEF Spec, NoBlockAfterCancel

(* EOT goes out only for a file sent to its end, and closed.               *)
THEOREM EotSafe == Spec => EotAfterLastBlock
<1>1. IInv /\ Next => ((\E i \in DOMAIN out' : out'[i] = Byte(EOT))
        => LastOfFile(lastBlk) /\ transferringFileD' = Closed)
  <2> SUFFICES ASSUME IInv, Next, NEW i \in DOMAIN out', out'[i] = Byte(EOT)
               PROVE  LastOfFile(lastBlk) /\ transferringFileD' = Closed
    OBVIOUS
  <2>1. Written  BY StepWrites DEF IInv
  <2>2. out' # <<>> /\ out' # Cans
    BY DEF Cans, Byte, CAN, EOT
  <2>3. ~\E m \in Messages : IsBlk(m) /\ out' = <<m>>
    BY DEF IsBlk, Byte, SOH, EOT
  <2> QED BY <2>1, <2>2, <2>3 DEF Written
<1>2. IInv /\ [Next]_vars =>
        [(\E i \in DOMAIN out' : out'[i] = Byte(EOT))
          => LastOfFile(lastBlk) /\ transferringFileD' = Closed]_vars
  BY <1>1
<1> QED BY <1>2, SenderInvariant, PTL DEF Spec, EotAfterLastBlock

(* A stray CAN leaves no trace in the chart nor in the timeout.            *)
THEOREM StrayCan == Spec => CanResumes
<1>1. IInv /\ Next => (active = "CAN" /\ active' \notin {"CAN", Final}
                        => <<active', timer'>> = interrupted)
  <2> SUFFICES ASSUME IInv, Next, active = "CAN", active' \notin {"CAN", Final}
               PROVE  <<active', timer'>> = interrupted
    OBVIOUS
  <2>1. CAN_TM \/ \E c \in ControlBytes : CAN_Resume(c)
    BY DEF Next, SER, TM, KB_C, Block, Resend, EndOfFile, Cancel, Finish, Stays, chart, NON_CAN,
      StatC_OpenError, StatC_SendStat, ACKNAKSTAT_Accepted, ACKNAKSTAT_Resend,
      ACKNAKSTAT_EndOfSession, ONE_EmptyFile, ONE_FirstBlock, ONE_Resend, ACKNAK_Resend,
      ACKNAK_LastAcked, ACKNAK_NextBlock, EOT1_Resend, EOT1_Acked, EOT1_Naked,
      EOTEOT_Resend, EOTEOT_Done, FirstCan, CAN_Cancelled, ExcessiveNAKs, CancelAtAnswer,
      Ignored, TopLevel_TM, StatC_KB_C, NON_CAN_KB_C, CAN_KB_C
  <2> QED BY <2>1, OutOfCan DEF IInv, CAN_TM, CAN_Resume, NotCancelling
<1>2. IInv /\ [Next]_vars =>
        [active = "CAN" /\ active' \notin {"CAN", Final}
           => <<active', timer'>> = interrupted]_vars
  BY <1>1
<1> QED BY <1>2, SenderInvariant, PTL DEF Spec, CanResumes

(* The result counts only files sent to their end, and EndOfSession is     *)
(* claimed only after the empty stat block and every file.                 *)
THEOREM TruthfulResult == Spec => ResultTruthful
<1> DEFINE Truthful ==
      /\ done' > done => LastOfFile(lastBlk) /\ lastBlk.file = fileName /\ done' <= fileName
      /\ running /\ ending' = "EndOfSession" =>
           lastBlk = Blk(0, 0, 0) /\ fileNameIndex = NumFiles
<1>1. IInv /\ Next => Truthful
  <2> SUFFICES ASSUME IInv, Next PROVE Truthful
    OBVIOUS
  <2> USE DEF IInv
  <2>1. CASE \E c \in ControlBytes : EOTEOT_Done(c)
    <3>1. FileEnded /\ done' <= fileName
      BY <2>1, GoToLeaf, NextFile DEF EOTEOT_Done, NON_CAN, tm, NotCancelling
    <3>2. ending' # "EndOfSession" \/ ~running
      BY <2>1 DEF EOTEOT_Done, SenderInv
    <3> QED BY <3>1, <3>2 DEF FileEnded
  <2>2. CASE \E c \in ControlBytes : ACKNAKSTAT_EndOfSession(c)
    <3>1. fileName = 0 /\ cur = "ACKNAKSTAT" /\ done' = done
      BY <2>2 DEF ACKNAKSTAT_EndOfSession, cur, Finish
    <3>2. fileNameIndex = NumFiles /\ BlockOut
      BY <3>1 DEF SenderInv, AwaitingAnswer
    <3>3. lastBlk = Blk(PrevNum, 0, 0) /\ PrevNum = 0 % NumMod
      BY <3>1, <3>2 DEF BlockOut, Blk
    <3>4. (NumMod * 0 + 0) % NumMod = 0  BY ModUnique
    <3> QED BY <3>1, <3>2, <3>3, <3>4 DEF TypeOK
  <2>3. CASE /\ ~\E c \in ControlBytes : EOTEOT_Done(c) \/ ACKNAKSTAT_EndOfSession(c)
    <3>1. done' = done \/ done' = 0
      BY <2>3 DEF Next, SER, TM, KB_C, Block, Resend, EndOfFile, Cancel, Finish, result,
        StatC_OpenError, StatC_SendStat, ACKNAKSTAT_Accepted, ACKNAKSTAT_Resend,
        ONE_EmptyFile, ONE_FirstBlock, ONE_Resend, ACKNAK_Resend,
        ACKNAK_LastAcked, ACKNAK_NextBlock, EOT1_Resend, EOT1_Acked, EOT1_Naked,
        EOTEOT_Resend, FirstCan, CAN_Cancelled, ExcessiveNAKs, CancelAtAnswer, CAN_Resume,
        Ignored, CAN_TM, TopLevel_TM, StatC_KB_C, NON_CAN_KB_C, CAN_KB_C
    <3>2. ending' = ending \/ ending' # "EndOfSession"
      BY <2>3 DEF Next, SER, TM, KB_C, Block, Resend, EndOfFile, Cancel, Finish, result,
        StatC_OpenError, StatC_SendStat, ACKNAKSTAT_Accepted, ACKNAKSTAT_Resend,
        ONE_EmptyFile, ONE_FirstBlock, ONE_Resend, ACKNAK_Resend,
        ACKNAK_LastAcked, ACKNAK_NextBlock, EOT1_Resend, EOT1_Acked, EOT1_Naked,
        EOTEOT_Resend, FirstCan, CAN_Cancelled, ExcessiveNAKs, CancelAtAnswer, CAN_Resume,
        Ignored, CAN_TM, TopLevel_TM, StatC_KB_C, NON_CAN_KB_C, CAN_KB_C
    <3> QED BY <3>1, <3>2 DEF SenderInv, TypeOK
  <2> QED BY <2>1, <2>2, <2>3
<1>2. IInv /\ [Next]_vars => [Truthful]_vars
  BY <1>1
<1> QED BY <1>2, SenderInvariant, PTL DEF Spec, ResultTruthful
=============================================================================
