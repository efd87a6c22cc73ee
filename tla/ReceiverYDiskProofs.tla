------------------------- MODULE ReceiverYDiskProofs -------------------------
(***************************************************************************)
(* What the receiver has on disk of a file is a prefix of it, for any      *)
(* files and block number, as long as twice the error bound is not more    *)
(* than the block number counts.  A step may skip two blocks at most (one  *)
(* lost, one damaged), and only errB - 1 errors in a row are answered: no  *)
(* block a wrap ahead is ever taken for the next one.                      *)
(***************************************************************************)
EXTENDS ReceiverYProofs, YModemProofs

USE FilesAssumption, NumModAssumption, BoundAssumption, ReceiverAssumption

(* 20 and 256 in the code.                                                 *)
ErrorsBelowWrap == 2 * errB <= NumMod

-----------------------------------------------------------------------------
(***************************************************************************)
(* The inductive invariant, on top of IInv.                                *)
(***************************************************************************)
InData == active \in DataStates \cup {"CondTransientData"}

LastBlockOK == rcvBlk \in SentBlocks \cup {NoBlk}

(* Files before the one being received are done, and no other.             *)
DoneOK ==
  /\ rcvBlk = NoBlk => done = 0
  /\ rcvBlk.file > 0 => done <= rcvBlk.file
  /\ rcvBlk.file > 0 /\ done = rcvBlk.file => LastOfFile(rcvBlk) /\ ~InData

(* The chunks on disk, and the one that waits for its answer.              *)
Pending == active = "CondTransientData" /\ goodBlk1st
OnDisk == Len(disk[fileName])
Taken == IF Pending THEN OnDisk + 1 ELSE OnDisk

(* While bytes of a file are due, the last block is of that file, and is   *)
(* ahead of what was taken by two blocks for each error at most.           *)
Due == InData /\ fileName \in Files /\ bytesRemaining > 0

KeptUp ==
  /\ rcvBlk.file = fileName /\ OnDisk < Chunks[fileName]
  /\ bytesRemaining = (Chunks[fileName] - OnDisk - 1) * ChunkSz + LastBytes[fileName]
  /\ numLastGoodBlk = Taken % NumMod
  /\ Taken <= rcvBlk.chunk /\ rcvBlk.chunk <= Taken + 2 * errCnt
  /\ active \in DataStates => rcvBlk.chunk <= Taken + 2 * (errB - 1)
  /\ Pending => rcvBlk.chunk = Taken

Progress == Due => KeptUp

DInv == LastBlockOK /\ DoneOK /\ Progress /\ DiskHoldsPrefix

-----------------------------------------------------------------------------
(***************************************************************************)
(* The blocks that can arrive.                                             *)
(***************************************************************************)
LEMMA BlockShape ==
  ASSUME NEW m \in SentBlocks
  PROVE  /\ m # NoBlk /\ m.file \in 0..NumFiles /\ m.chunk \in Nat
         /\ m.num = m.chunk % NumMod
         /\ m = Blk(m.num, m.file, m.chunk)
         /\ m.file > 0 => m.file \in Files /\ m.chunk <= Chunks[m.file]
         /\ m.file = 0 => m.chunk = 0
<1>1. CASE m = Blk(0, 0, 0)
  <2>1. (NumMod * 0 + 0) % NumMod = 0
    BY ModUnique
  <2>2. 0 % NumMod = 0
    BY <2>1
  <2> QED
    BY <1>1, <2>2 DEF Blk, NoBlk
<1>2. ASSUME NEW f \in Files, NEW k \in 0..Chunks[f], m = Blk(k % NumMod, f, k)
      PROVE  /\ m # NoBlk /\ m.file \in 0..NumFiles /\ m.chunk \in Nat
             /\ m.num = m.chunk % NumMod
             /\ m = Blk(m.num, m.file, m.chunk)
             /\ m.file > 0 => m.file \in Files /\ m.chunk <= Chunks[m.file]
             /\ m.file = 0 => m.chunk = 0
  <2>1. m.num = k % NumMod /\ m.file = f /\ m.chunk = k /\ f \in 1..NumFiles /\ k \in Nat /\ k <= Chunks[f]
    BY <1>2 DEF Blk, Files
  <2>2. m # NoBlk
    BY <2>1 DEF NoBlk, Blk
  <2> QED
    BY <1>2, <2>1, <2>2
<1> QED
  BY <1>1, <1>2 DEF SentBlocks

(* What follows the last block is the next chunk of its file or a stat     *)
(* block of a file that is not done.                                       *)
LEMMA FollowingBlock ==
  ASSUME IInv, LastBlockOK, DoneOK, NEW m \in SentBlocks, MayFollow(m)
  PROVE  /\ m.file > 0 => done < m.file
         /\ \/ m.file = rcvBlk.file /\ m.file > 0 /\ m.chunk = rcvBlk.chunk + 1
            \/ m.chunk = 0 /\ rcvBlk = NoBlk
            \/ /\ m.chunk = 0 /\ LastOfFile(rcvBlk)
               /\ done = rcvBlk.file \/ numLastGoodBlk = rcvBlk.num
<1>1. done \in Nat /\ NoBlk.file = 0 /\ NoBlk.chunk = 1
  BY DEF IInv, ResultOK, NoBlk, Blk
<1>2. rcvBlk.file \in 0..NumFiles /\ rcvBlk.chunk \in Nat /\ m.file \in 0..NumFiles /\ m.chunk \in Nat
  BY <1>1, BlockShape DEF LastBlockOK
<1>3. CASE m.file = rcvBlk.file /\ rcvBlk.file > 0 /\ m.chunk = rcvBlk.chunk + 1
  <2>1. m.file \in Files /\ m.chunk <= Chunks[m.file]
    BY <1>2, <1>3, BlockShape
  <2>2. ~ LastOfFile(rcvBlk)
    BY <1>2, <1>3, <2>1 DEF LastOfFile
  <2> QED
    BY <1>1, <1>2, <1>3, <2>2 DEF DoneOK
<1>4. CASE rcvBlk = NoBlk /\ m.chunk = 0 /\ m.file = IF rcvBlk.file = NumFiles THEN 0 ELSE rcvBlk.file + 1
  BY <1>1, <1>2, <1>4 DEF DoneOK
<1>5. CASE LastOfFile(rcvBlk) /\ m.chunk = 0 /\ m.file = IF rcvBlk.file = NumFiles THEN 0 ELSE rcvBlk.file + 1
  <2>1. rcvBlk.file > 0
    BY <1>5 DEF LastOfFile, Files
  <2> QED
    BY <1>1, <1>2, <1>5, <2>1 DEF DoneOK, MayFollow
<1> QED
  BY <1>3, <1>4, <1>5 DEF MayFollow, Follows

LEMMA ArrivingBlock ==
  ASSUME IInv, LastBlockOK, DoneOK, NEW m \in SentBlocks, Arrives(m)
  PROVE  /\ m.file > 0 => done < m.file
         /\ \/ m = rcvBlk
            \/ m.file = rcvBlk.file /\ m.chunk \in {rcvBlk.chunk + 1, rcvBlk.chunk + 2}
            \/ rcvBlk = NoBlk
            \/ LastOfFile(rcvBlk) /\ (done = rcvBlk.file \/ numLastGoodBlk = rcvBlk.num)
<1>1. CASE m = rcvBlk /\ (m.file > 0 => done < m.file)
  BY <1>1
<1>2. CASE MayFollow(m)
  BY <1>2, FollowingBlock
<1>3. ASSUME m.chunk > 0, NEW x \in SentBlocks, MayFollow(x), Follows(x, m)
      PROVE  /\ m.file > 0 => done < m.file
             /\ \/ m.file = rcvBlk.file /\ m.chunk = rcvBlk.chunk + 2
                \/ rcvBlk = NoBlk
                \/ LastOfFile(rcvBlk) /\ (done = rcvBlk.file \/ numLastGoodBlk = rcvBlk.num)
  <2>1. m.file = x.file /\ x.file > 0 /\ m.chunk = x.chunk + 1
    BY <1>3, BlockShape DEF Follows
  <2>2. rcvBlk.chunk \in Nat
    BY BlockShape DEF LastBlockOK, NoBlk, Blk
  <2> QED
    BY <1>3, <2>1, <2>2, FollowingBlock
<1> QED
  BY <1>1, <1>2, <1>3 DEF Arrives

-----------------------------------------------------------------------------
(***************************************************************************)
(* Steps that take no block.                                               *)
(***************************************************************************)
(* A step after which no data is received, whatever the line did.          *)
LEMMA LeavingStep ==
  ASSUME DInv, ~InData', UNCHANGED <<rcvBlk, done, disk>>
  PROVE  DInv'
BY DEF DInv, LastBlockOK, DoneOK, Progress, Due, DiskHoldsPrefix, LastOfFile

(* A step within the data phase that leaves the blocks alone.              *)
LEMMA QuietStep ==
  ASSUME IInv, DInv, UNCHANGED <<rcvBlk, done, disk, fileName, bytesRemaining, numLastGoodBlk, goodBlk1st>>,
         errCnt' \in {errCnt, errCnt + 1},
         active' = active \/ (active \in DataStates /\ active' \in DataStates)
  PROVE  DInv'
<1>1. LastBlockOK' /\ DiskHoldsPrefix' /\ InData' = InData
  BY DEF DInv, LastBlockOK, DiskHoldsPrefix, InData
<1>2. DoneOK'
  BY <1>1, Zenon DEF DInv, DoneOK, LastOfFile
<1>3. Taken' = Taken /\ OnDisk' = OnDisk /\ Pending' = Pending
  BY DEF Taken, OnDisk, Pending, DataStates
<1>4. Progress'
  <2> SUFFICES ASSUME Due' PROVE KeptUp'
    BY DEF Progress
  <2>1. KeptUp
    BY <1>1 DEF DInv, Progress, Due
  <2>2. errCnt \in Nat /\ errCnt' >= errCnt /\ rcvBlk.chunk \in Nat
    BY DEF IInv, ErrorsOK, BlocksOK, Messages
  <2>3. Taken \in Nat
    <3>1. disk[fileName] \in Seq(Messages)
      BY DEF IInv, FileOK
    <3> QED
      BY <3>1 DEF Taken, OnDisk
  <2>4. rcvBlk'.chunk <= Taken' + 2 * errCnt'
    BY <1>3, <2>1, <2>2, <2>3 DEF KeptUp
  <2>5. active' \in DataStates => rcvBlk'.chunk <= Taken' + 2 * (errB - 1)
    BY <1>3, <2>1 DEF KeptUp
  <2> QED
    BY <1>3, <2>1, <2>4, <2>5 DEF KeptUp
<1> QED
  BY <1>1, <1>2, <1>4 DEF DInv

LEMMA CanDisk ==
  ASSUME IInv, DInv, NEW c, FirstCan(c) \/ Resume
  PROVE  DInv'
<1>1. UNCHANGED <<rcvBlk, done, disk>>
  BY DEF FirstCan, Resume, judgement, contents, result
<1>2. active' = "CAN" \/ active' \in {"FirstByteStat", "AreWeDone"}
  BY GoToCan, GoBack DEF FirstCan, Resume, IInv, ChartOK, Waiting, NON_CAN, DataStates
<1>3. ~InData'
  BY <1>2 DEF InData, DataStates
<1> QED
  BY <1>1, <1>3, LeavingStep

LEMMA FinishDisk ==
  ASSUME DInv, NEW e, Finish(e), UNCHANGED <<rcvBlk, disk>>
  PROVE  DInv'
<1>1. ~InData' /\ done' = done
  BY DEF Finish, InData, DataStates, Final
<1> QED
  BY <1>1, LeavingStep

LEMMA ByteDisk ==
  ASSUME IInv, DInv, NEW c, ByteArrives(c), SER(c)
  PROVE  DInv'
<1>1. CASE FirstByteData_EOT(c)
  <2>1. active = "FirstByteData" /\ active' = "EOT"
    BY <1>1, GoToLeaf DEF FirstByteData_EOT, NON_CAN, DataStates
  <2> QED
    BY <1>1, <2>1, QuietStep DEF FirstByteData_EOT, DataStates, judgement, opened, contents, result
<1>2. CASE EOT_Closed(c)
  <2>1. active = "EOT" /\ active' = "FirstByteStat"
    BY <1>2, GoToLeaf DEF EOT_Closed, NON_CAN, DataStates
  <2>2. LastOfFile(rcvBlk)
    BY <1>2, <2>1 DEF EOT_Closed, ByteArrives
  <2>3. rcvBlk' = rcvBlk /\ done' = done + 1 /\ disk' = disk
    BY <1>2 DEF EOT_Closed, NothingJudged, contents
  <2>4. InData /\ ~InData'
    BY <2>1 DEF InData, DataStates
  <2>5. rcvBlk.file \in Nat /\ rcvBlk.file > 0 /\ done \in Nat /\ rcvBlk # NoBlk
    BY <2>2 DEF LastOfFile, Files, IInv, ResultOK, NoBlk, Blk
  <2>6. DoneOK'
    BY <2>2, <2>3, <2>4, <2>5 DEF DInv, DoneOK, LastOfFile
  <2> QED
    BY <2>3, <2>4, <2>6 DEF DInv, LastBlockOK, Progress, Due, DiskHoldsPrefix
<1>3. CASE EOT_CloseError(c) \/ FirstByteStat_ExcessiveEOTs(c) \/ CAN_Cancelled(c) \/ CancelAtByte(c)
  <2>1. (\E e : Finish(e)) /\ UNCHANGED <<rcvBlk, disk>>
    BY <1>3 DEF EOT_CloseError, FirstByteStat_ExcessiveEOTs, CAN_Cancelled, CancelAtByte, NothingJudged,
                judgement, contents
  <2> QED
    BY <2>1, FinishDisk
<1>4. CASE FirstByteStat_EOT(c)
  BY <1>4, QuietStep DEF FirstByteStat_EOT, Stays, chart, judgement, opened, contents, result
<1>5. CASE FirstCan(c) \/ CAN_Resume(c)
  BY <1>5, CanDisk DEF CAN_Resume
<1>6. CASE Ignored(c)
  BY <1>6, QuietStep DEF Ignored, Stays, chart, judgement, opened, contents, result
<1> QED
  BY <1>1, <1>2, <1>3, <1>4, <1>5, <1>6 DEF SER

-----------------------------------------------------------------------------
(***************************************************************************)
(* A block where a stat block is due.                                      *)
(***************************************************************************)
LEMMA OpenedDisk ==
  ASSUME IInv, DInv, NEW q \in Qualities, NEW m \in SentBlocks, Stat_FileOpened(q, m)
  PROVE  Progress' /\ DiskHoldsPrefix'
<1>1. /\ rcvBlk' = m /\ goodBlk' /\ NamesFile(m)
      /\ fileName' = (IF m.chunk = 0 THEN m.file ELSE 0)
      /\ disk' = [disk EXCEPT ![fileName'] = <<>>]
  BY DEF Stat_FileOpened, StatTaken, StatJudged, getRestBlk, openFileForTransfer
<1>2. active' = "FirstByteData"
  BY GoToLeaf DEF Stat_FileOpened, StatTaken, StatJudged, NON_CAN, DataStates
<1>3. disk \in [0..NumFiles -> Seq(Messages)] /\ fileName' \in 0..NumFiles
  BY <1>1, BlockShape DEF IInv, FileOK
<1>4. DiskHoldsPrefix'
  <2> SUFFICES ASSUME NEW f \in Files, NEW i \in DOMAIN disk'[f]
               PROVE  disk'[f][i] = Blk(i % NumMod, f, i)
    BY DEF DiskHoldsPrefix
  <2>1. f \in 0..NumFiles
    BY DEF Files
  <2>2. f # fileName' /\ disk'[f] = disk[f]
    BY <1>1, <1>3, <2>1
  <2> QED
    BY <2>2 DEF DInv, DiskHoldsPrefix
<1>5. Progress'
  <2> SUFFICES ASSUME Due' PROVE KeptUp'
    BY DEF Progress
  <2>1. m.chunk = 0 /\ fileName' = m.file /\ m.file \in Files
    BY <1>1 DEF Due, Files
  <2>2. bytesRemaining' = FileSize(m.file) /\ bytesRemaining' > 0
    BY <2>1 DEF Stat_FileOpened, openFileForTransfer, Due
  <2>3. Chunks[m.file] # 0 /\ bytesRemaining' = (Chunks[m.file] - 1) * ChunkSz + LastBytes[m.file]
    BY <2>2 DEF FileSize
  <2>4. OnDisk' = 0 /\ ~Pending' /\ Taken' = 0
    BY <1>1, <1>2, <1>3, <2>1 DEF OnDisk, Pending, Taken
  <2>5. numLastGoodBlk' = m.num
    BY <1>1 DEF Stat_FileOpened, StatTaken, StatJudged, getRestBlk
  <2>6. m.num = 0 % NumMod
    BY <2>1, BlockShape
  <2>7. errCnt' \in Nat
    BY DEF Stat_FileOpened, StatErrors, IInv, ErrorsOK
  <2>8. Chunks[m.file] \in Nat /\ 0 < Chunks[m.file]
    BY <2>1, <2>3
  <2>9. Chunks[m.file] - 0 - 1 = Chunks[m.file] - 1
    BY <2>8
  <2>10. \A n \in Nat : 0 <= 0 + 2 * n
    OBVIOUS
  <2>11. 0 <= 0 + 2 * errCnt' /\ 0 <= 0 + 2 * (errB - 1)
    <3>1. errB - 1 \in Nat
      OBVIOUS
    <3> QED
      BY ONLY <2>7, <2>10, <3>1
  <2> QED
    BY <1>1, <2>1, <2>3, <2>4, <2>5, <2>6, <2>8, <2>9, <2>11 DEF KeptUp
<1> QED
  BY <1>4, <1>5

LEMMA StatDisk ==
  ASSUME IInv, DInv, NEW q \in Qualities, NEW m \in SentBlocks, Arrives(m), StatBlock(q, m)
  PROVE  DInv'
<1>1. rcvBlk' = m /\ done' = done
  BY DEF StatBlock, Stat_Rejected, Stat_NoMoreFiles, Stat_FileOpened, Stat_CreatError, Stat_SizeThrows,
         Stat_GivenUp, StatTaken, StatJudged, getRestBlk, Finish, result
<1>2. LastBlockOK' /\ DoneOK'
  <2>1. m # NoBlk /\ m.file \in Nat
    BY BlockShape
  <2>2. done \in Nat /\ (m.file > 0 => done < m.file)
    BY ArrivingBlock DEF DInv, IInv, ResultOK
  <2> QED
    BY <1>1, <2>1, <2>2 DEF LastBlockOK, DoneOK
<1>3. CASE Stat_FileOpened(q, m)
  BY <1>2, <1>3, OpenedDisk DEF DInv
<1>4. CASE ~ Stat_FileOpened(q, m)
  <2>1. disk' = disk
    BY <1>4 DEF StatBlock, Stat_Rejected, Stat_NoMoreFiles, Stat_CreatError, Stat_SizeThrows, Stat_GivenUp,
                StatTaken, openFileForTransfer, contents
  <2>2. active' \in {"FirstByteStat", "AreWeDone", Final}
    BY <1>4, GoToLeaf DEF StatBlock, Stat_Rejected, Stat_NoMoreFiles, Stat_CreatError, Stat_SizeThrows,
                Stat_GivenUp, StatTaken, StatJudged, Finish, NON_CAN, DataStates
  <2>3. ~InData'
    BY <2>2 DEF InData, DataStates, Final
  <2> QED
    BY <1>2, <2>1, <2>3 DEF DInv, Progress, Due, DiskHoldsPrefix
<1> QED
  BY <1>3, <1>4

-----------------------------------------------------------------------------
(***************************************************************************)
(* A block where a data block is due, and the answer to it.                *)
(***************************************************************************)
LEMMA DataDisk ==
  ASSUME ErrorsBelowWrap, IInv, DInv, NEW q \in Qualities, NEW m \in SentBlocks, Arrives(m), DataBlock(q, m)
  PROVE  DInv'
<1>1. active' = "CondTransientData" /\ active \in DataStates
  BY GoToJudgement DEF DataBlock
<1>2. /\ rcvBlk' = m /\ UNCHANGED <<done, disk, fileName, bytesRemaining>>
      /\ errCnt' = IF goodBlk1st' THEN 0 ELSE errCnt + 1
      /\ goodBlk1st' => m.num = (numLastGoodBlk + 1) % NumMod
      /\ numLastGoodBlk' = IF goodBlk1st' THEN m.num ELSE numLastGoodBlk
  BY DEF DataBlock, getRestBlk, opened, contents, result
<1>3. LastBlockOK' /\ DoneOK'
  <2>1. m # NoBlk /\ m.file \in Nat
    BY BlockShape
  <2>2. done \in Nat /\ (m.file > 0 => done < m.file)
    BY ArrivingBlock DEF DInv, IInv, ResultOK
  <2> QED
    BY <1>2, <2>1, <2>2 DEF LastBlockOK, DoneOK
<1>4. DiskHoldsPrefix'
  BY <1>2 DEF DInv, DiskHoldsPrefix
<1>5. Progress'
  <2> SUFFICES ASSUME Due' PROVE KeptUp'
    BY DEF Progress
  <2>1. KeptUp /\ ~Pending /\ Taken = OnDisk /\ InData /\ fileName \in Files
    BY <1>1, <1>2 DEF DInv, Progress, Due, InData, Pending, Taken, DataStates
  <2>2. OnDisk' = OnDisk /\ Pending' = goodBlk1st' /\ OnDisk \in Nat
    <3>1. disk[fileName] \in Seq(Messages)
      BY DEF IInv, FileOK
    <3>2. goodBlk1st' \in BOOLEAN
      BY JudgedFlags DEF DataBlock
    <3>3. Pending' = goodBlk1st'
      BY <1>1, <3>2, Zenon DEF Pending
    <3> QED
      BY <1>2, <3>1, <3>3 DEF OnDisk
  <2>3. m.chunk \in Nat /\ rcvBlk.chunk \in Nat /\ errCnt \in Nat
    BY BlockShape DEF IInv, BlocksOK, Messages, ErrorsOK
  <2>4. /\ rcvBlk.file = fileName /\ rcvBlk.file > 0 /\ rcvBlk \in SentBlocks
        /\ numLastGoodBlk = OnDisk % NumMod
        /\ OnDisk <= rcvBlk.chunk /\ rcvBlk.chunk <= OnDisk + 2 * errCnt
        /\ rcvBlk.chunk <= OnDisk + 2 * (errB - 1) /\ OnDisk < Chunks[fileName]
    BY <1>1, <2>1 DEF KeptUp, Files, DInv, LastBlockOK, NoBlk, Blk
  <2>5. done # rcvBlk.file
    BY <2>1, <2>4 DEF DInv, DoneOK
  <2>6. ~ (LastOfFile(rcvBlk) /\ numLastGoodBlk = rcvBlk.num)
    <3> SUFFICES ASSUME LastOfFile(rcvBlk), numLastGoodBlk = rcvBlk.num PROVE FALSE
      OBVIOUS
    <3> DEFINE d == rcvBlk.chunk - OnDisk
    <3>1. d \in 0..(NumMod - 1) /\ OnDisk + d = rcvBlk.chunk
      BY <2>2, <2>3, <2>4 DEF ErrorsBelowWrap
    <3>2. (OnDisk + d) % NumMod = OnDisk % NumMod
      BY <2>4, <3>1, BlockShape
    <3> HIDE DEF d
    <3>3. d = 0
      BY <2>2, <3>1, <3>2, NumTells
    <3> QED
      BY <2>2, <2>3, <2>4, <3>1, <3>3 DEF LastOfFile
  <2>7. m.file = fileName /\ m.chunk \in {rcvBlk.chunk, rcvBlk.chunk + 1, rcvBlk.chunk + 2}
    BY <2>4, <2>5, <2>6, ArrivingBlock DEF DInv, NoBlk, Blk
  <2>8. CASE goodBlk1st'
    <3>1. m.chunk % NumMod = (OnDisk + 1) % NumMod
      BY <1>2, <2>2, <2>4, <2>8, NumOfNext, BlockShape
    <3>2. m.chunk = OnDisk + 1
      <4>1. CASE m.chunk = OnDisk
        <5>1. 1 \in 0..(NumMod - 1)
          OBVIOUS
        <5>2. 1 = 0
          BY <2>2, <3>1, <4>1, <5>1, NumTells
        <5> QED
          BY <5>2
      <4>2. CASE m.chunk # OnDisk
        <5> DEFINE d == m.chunk - (OnDisk + 1)
        <5>1. d \in 0..(NumMod - 1) /\ (OnDisk + 1) + d = m.chunk /\ OnDisk + 1 \in Nat
          BY <2>2, <2>3, <2>4, <2>7, <4>2 DEF ErrorsBelowWrap
        <5>2. ((OnDisk + 1) + d) % NumMod = (OnDisk + 1) % NumMod
          BY <3>1, <5>1
        <5> HIDE DEF d
        <5>3. d = 0
          BY <5>1, <5>2, NumTells
        <5> QED
          BY <5>1, <5>3
      <4> QED
        BY <4>1, <4>2
    <3>3. Taken' = OnDisk + 1 /\ numLastGoodBlk' = (OnDisk + 1) % NumMod /\ errCnt' = 0
      BY <1>2, <2>2, <2>8, <3>1, BlockShape DEF Taken
    <3>4. OnDisk + 1 <= m.chunk /\ m.chunk <= OnDisk + 1 + 2 * 0
      BY <2>2, <3>2
    <3> QED
      BY <1>1, <1>2, <2>1, <2>2, <2>7, <3>2, <3>3, <3>4 DEF KeptUp, DataStates
  <2>9. CASE ~goodBlk1st'
    <3>1. Taken' = OnDisk /\ numLastGoodBlk' = numLastGoodBlk /\ errCnt' = errCnt + 1 /\ ~Pending'
      BY <1>2, <2>2, <2>9 DEF Taken
    <3>2. OnDisk <= m.chunk /\ m.chunk <= OnDisk + 2 * (errCnt + 1)
      BY <2>2, <2>3, <2>4, <2>7
    <3> QED
      BY <1>1, <1>2, <2>1, <2>2, <2>4, <2>7, <3>1, <3>2 DEF KeptUp, DataStates
  <2> QED
    BY <2>8, <2>9
<1> QED
  BY <1>3, <1>4, <1>5 DEF DInv

(* A chunk that is written is the next one of its file.                    *)
LEMMA WrittenDisk ==
  ASSUME IInv, DInv, active = "CondTransientData", goodBlk1st, bytesRemaining > 0,
         UNCHANGED <<rcvBlk, fileName, numLastGoodBlk>>, writeChunk, errCnt' \in Nat,
         active' = "FirstByteData"
  PROVE  Progress' /\ DiskHoldsPrefix'
<1>1. /\ disk' = [disk EXCEPT ![fileName] = Append(@, rcvBlk)]
      /\ bytesRemaining' = bytesRemaining - ChunkSz
  <2>1. bytesRemaining \in Int
    BY DEF IInv, FileOK
  <2> QED
    BY <2>1 DEF writeChunk
<1>2. fileName \in 0..NumFiles /\ disk \in [0..NumFiles -> Seq(Messages)] /\ rcvBlk \in Messages
  BY DEF IInv, FileOK, BlocksOK
<1>3. CASE fileName \notin Files
  <2>1. \A f \in Files : disk'[f] = disk[f]
    BY <1>1, <1>2, <1>3 DEF Files
  <2> QED
    BY <1>3, <2>1 DEF Progress, Due, DInv, DiskHoldsPrefix
<1>4. CASE fileName \in Files
  <2> DEFINE f == fileName
             n == Len(disk[f])
  <2>1. /\ rcvBlk.file = f /\ rcvBlk.chunk = n + 1 /\ numLastGoodBlk = (n + 1) % NumMod /\ n < Chunks[f]
        /\ bytesRemaining = (Chunks[f] - n - 1) * ChunkSz + LastBytes[f]
    BY <1>4 DEF DInv, Progress, Due, KeptUp, InData, Pending, Taken, OnDisk
  <2>2. n \in Nat /\ disk[f] \in Seq(Messages)
    BY <1>2
  <2>3. rcvBlk = Blk((n + 1) % NumMod, f, n + 1)
    <3>1. rcvBlk \in SentBlocks
      BY <1>4, <2>1 DEF DInv, LastBlockOK, NoBlk, Blk, Files
    <3> QED
      BY <2>1, <3>1, BlockShape
  <2>4. Len(disk'[f]) = n + 1 /\ disk'[f] = Append(disk[f], rcvBlk)
    BY <1>1, <1>2, <2>2
  <2>5. DiskHoldsPrefix'
    <3> SUFFICES ASSUME NEW g \in Files, NEW i \in DOMAIN disk'[g]
                 PROVE  disk'[g][i] = Blk(i % NumMod, g, i)
      BY DEF DiskHoldsPrefix
    <3>1. CASE g = f
      <4>1. i \in 1..(n + 1)
        BY <1>2, <2>2, <2>4, <3>1
      <4>2. CASE i = n + 1
        BY <1>2, <2>2, <2>3, <2>4, <3>1, <4>2
      <4>3. CASE i \in 1..n
        <5>1. disk'[g][i] = disk[g][i] /\ i \in DOMAIN disk[g]
          BY <1>2, <2>2, <2>4, <3>1, <4>3
        <5> QED
          BY <5>1 DEF DInv, DiskHoldsPrefix
      <4> QED
        BY <2>2, <4>1, <4>2, <4>3
    <3>2. CASE g # f
      <4>1. disk'[g] = disk[g]
        BY <1>1, <1>2, <3>2 DEF Files
      <4> QED
        BY <4>1 DEF DInv, DiskHoldsPrefix
    <3> QED
      BY <3>1, <3>2
  <2>6. Progress'
    <3> SUFFICES ASSUME Due' PROVE KeptUp'
      BY DEF Progress
    <3>1. Chunks[f] \in Nat /\ LastBytes[f] \in Nat /\ LastBytes[f] <= ChunkSz
      BY <1>4
    <3>2. bytesRemaining' = (Chunks[f] - (n + 1) - 1) * ChunkSz + LastBytes[f]
      <4> DEFINE k == Chunks[f] - n - 1
      <4>1. k \in Int /\ ChunkSz \in Int /\ k - 1 = Chunks[f] - (n + 1) - 1
        BY <2>2, <3>1
      <4> HIDE DEF k
      <4>2. (k - 1) * ChunkSz = k * ChunkSz - ChunkSz /\ k * ChunkSz \in Int
        BY <4>1
      <4>3. bytesRemaining' = (k * ChunkSz + LastBytes[f]) - ChunkSz
        <5>1. bytesRemaining = k * ChunkSz + LastBytes[f]
          BY <2>1 DEF k
        <5> QED
          BY <1>1, <5>1
      <4>4. bytesRemaining' = (k - 1) * ChunkSz + LastBytes[f]
        BY <3>1, <4>1, <4>2, <4>3
      <4> QED
        BY <4>1, <4>4
    <3>3. n + 1 < Chunks[f]
      <4>1. CASE Chunks[f] = n + 1
        <5>1. Chunks[f] - n - 1 = 0 /\ 0 * ChunkSz = 0
          BY <2>2, <4>1
        <5>2. bytesRemaining = LastBytes[f]
          BY <2>1, <3>1, <5>1
        <5>3. bytesRemaining' <= 0
          BY <1>1, <3>1, <5>2
        <5> QED
          BY <1>1, <3>1, <5>2, <5>3 DEF Due
      <4> QED
        BY <2>1, <2>2, <3>1, <4>1
    <3>4. OnDisk' = n + 1 /\ ~Pending' /\ Taken' = n + 1
      BY <2>4 DEF OnDisk, Pending, Taken
    <3>5. /\ n + 1 <= n + 1 + 2 * errCnt' /\ n + 1 <= n + 1 + 2 * (errB - 1)
      <4>1. \A a, b \in Nat : a <= a + 2 * b
        OBVIOUS
      <4>2. errB - 1 \in Nat /\ n + 1 \in Nat
        BY <2>2
      <4> QED
        BY <4>1, <4>2
    <3> QED
      <4>1. fileName' = f /\ rcvBlk'.chunk = n + 1 /\ rcvBlk'.file = f /\ numLastGoodBlk' = (n + 1) % NumMod
        BY <2>1
      <4>2. bytesRemaining' = (Chunks[fileName'] - OnDisk' - 1) * ChunkSz + LastBytes[fileName']
        BY <3>2, <3>4, <4>1
      <4>3. n + 1 <= n + 1
        BY <2>2
      <4> QED
        BY <3>3, <3>4, <3>5, <4>1, <4>2, <4>3 DEF KeptUp
  <2> QED
    BY <2>5, <2>6
<1> QED
  BY <1>3, <1>4

LEMMA AnswerDisk ==
  ASSUME IInv, DInv, CondTransientData_Answer
  PROVE  DInv'
<1>1. active = "CondTransientData" /\ active' = "FirstByteData" /\ InData /\ InData'
  BY GoToData DEF CondTransientData_Answer, IInv, ChartOK, InData, DataStates
<1>2. UNCHANGED <<rcvBlk, done, fileName, numLastGoodBlk, goodBlk1st, errCnt>> /\ errCnt < errB /\ errCnt \in Nat
  BY DEF CondTransientData_Answer, judgement, opened, result, IInv, ErrorsOK
<1>3. LastBlockOK' /\ DoneOK'
  BY <1>1, <1>2 DEF DInv, LastBlockOK, DoneOK, LastOfFile
<1>4. CASE goodBlk1st /\ bytesRemaining > 0
  <2>1. writeChunk
    BY <1>4 DEF CondTransientData_Answer
  <2> QED
    BY <1>1, <1>2, <1>3, <1>4, <2>1, WrittenDisk DEF DInv
<1>5. CASE ~ (goodBlk1st /\ bytesRemaining > 0)
  <2>1. UNCHANGED <<disk, bytesRemaining>>
    <3>1. bytesRemaining \in Int
      BY DEF IInv, FileOK
    <3> QED
      BY <1>5, <3>1 DEF CondTransientData_Answer, writeChunk, contents
  <2>2. Progress'
    <3> SUFFICES ASSUME Due' PROVE KeptUp'
      BY DEF Progress
    <3>1. KeptUp /\ ~goodBlk1st
      BY <1>1, <1>2, <1>5, <2>1 DEF DInv, Progress, Due
    <3>2. OnDisk' = OnDisk /\ ~Pending /\ ~Pending' /\ Taken = OnDisk /\ Taken' = OnDisk
      BY <1>1, <1>2, <2>1, <3>1 DEF OnDisk, Pending, Taken
    <3>3. OnDisk \in Nat /\ rcvBlk.chunk \in Nat
      <4>1. disk[fileName] \in Seq(Messages) /\ rcvBlk \in Messages
        BY DEF IInv, FileOK, BlocksOK
      <4> QED
        BY <4>1 DEF OnDisk, Messages
    <3>4. rcvBlk.chunk <= OnDisk + 2 * (errB - 1)
      BY <1>2, <3>1, <3>2, <3>3 DEF KeptUp
    <3> QED
      BY <1>2, <2>1, <3>1, <3>2, <3>4 DEF KeptUp
  <2> QED
    BY <1>3, <2>1, <2>2 DEF DInv, DiskHoldsPrefix
<1> QED
  BY <1>4, <1>5

LEMMA TimeDisk ==
  ASSUME IInv, DInv, TM \/ KB_C
  PROVE  DInv'
<1>1. CASE CondTransientData_GivenUp \/ AreWeDone_TM \/ TopLevel_TM \/ CondTransientData_KB_C
  <2>1. (\E e : Finish(e)) /\ UNCHANGED <<rcvBlk, disk>>
    BY <1>1 DEF CondTransientData_GivenUp, AreWeDone_TM, TopLevel_TM, CondTransientData_KB_C, NothingJudged,
                judgement, contents
  <2> QED
    BY <2>1, FinishDisk
<1>2. CASE Retry
  BY <1>2, QuietStep DEF Retry, Stays, chart, judgement, opened, contents, result
<1>3. CASE TopLevel_KB_C
  BY <1>3, QuietStep DEF TopLevel_KB_C, Stays, chart, judgement, opened, contents, result
<1>4. CASE CAN_TM
  BY <1>4, CanDisk DEF CAN_TM
<1> QED
  BY <1>1, <1>2, <1>3, <1>4, AnswerDisk DEF TM, KB_C

-----------------------------------------------------------------------------
LEMMA InitDisk == Init => DInv
<1> SUFFICES ASSUME Init PROVE DInv
  OBVIOUS
<1>1. ~InData /\ rcvBlk = NoBlk /\ NoBlk.file = 0 /\ done = 0
  BY StartState DEF Init, InData, DataStates, NoBlk, Blk
<1>2. \A f \in Files : disk[f] = <<>>
  BY DEF Init, Files
<1> QED
  BY <1>1, <1>2 DEF DInv, LastBlockOK, DoneOK, Progress, Due, DiskHoldsPrefix

LEMMA StepDisk == ErrorsBelowWrap /\ IInv /\ DInv /\ [Next]_vars => DInv'
<1> SUFFICES ASSUME ErrorsBelowWrap, IInv, DInv, [Next]_vars PROVE DInv'
  OBVIOUS
<1>1. CASE Next
  <2>1. ASSUME NEW q \in Qualities, NEW m \in SentBlocks, Arrives(m), SER_SOH(q, m) PROVE DInv'
    BY <2>1, StatDisk, DataDisk DEF SER_SOH
  <2>2. ASSUME NEW c, ByteArrives(c), SER(c) PROVE DInv'
    BY <2>2, ByteDisk
  <2> QED
    BY <1>1, <2>1, <2>2, TimeDisk DEF Next
<1>2. CASE UNCHANGED vars
  BY <1>2, Zenon DEF vars, chart, judgement, opened, contents, result, DInv, LastBlockOK, DoneOK, InData, LastOfFile,
              Progress, Due, KeptUp, OnDisk, Pending, Taken, DiskHoldsPrefix
<1> QED
  BY <1>1, <1>2

(* However blocks are lost, repeated and damaged, wherever CANs fall, and  *)
(* across the wrap of the block number, what the receiver has written of a *)
(* file is its chunks in order, none twice and none left out.              *)
THEOREM DiskCorrect == ErrorsBelowWrap /\ Spec => []DiskHoldsPrefix
<1>1. ErrorsBelowWrap => ErrorsBelowWrap'
  BY DEF ErrorsBelowWrap
<1>2. DInv => DiskHoldsPrefix
  BY DEF DInv
<1> QED
  BY <1>1, <1>2, ReceiverInvariant, InitDisk, StepDisk, PTL DEF Spec

-----------------------------------------------------------------------------
(***************************************************************************)
(* No data block is acknowledged but for a chunk that is on disk, unless a *)
(* stray CAN sent the chart astray.  A block that is answered without      *)
(* being written carries the number of the last chunk written; and where a *)
(* stat block is due no data block has its number: the blocks a sender may *)
(* have gone on to by then are fewer than a wrap takes.                    *)
(***************************************************************************)
EmptyStat == Blk(0, 0, 0)

JudgedOK == active = "CondTransientData" /\ goodBlk => rcvBlk.num = numLastGoodBlk

(* The block received last where a stat block is due.                      *)
StatNext ==
  IF closeProb = 0 THEN LastOfFile(rcvBlk)
  ELSE rcvBlk = NoBlk \/ rcvBlk.chunk < 2 * errCnt

InTurn ==
  /\ cur \in DataStates \cup {"CondTransientData"} => fileName \in Files
  /\ cur = "FirstByteStat" =>
       \/ numLastGoodBlk = NumMod - 1 /\ StatNext
       \/ rcvBlk = EmptyStat /\ closeProb # 0
  /\ cur = "AreWeDone" => rcvBlk = EmptyStat /\ closeProb # 0

AInv == JudgedOK /\ (~astray => InTurn)

(* Numbers below the wrap.                                                 *)
LEMMA SmallNumber ==
  ASSUME NEW m \in SentBlocks, m.chunk < NumMod
  PROVE  m.num = m.chunk
<1>1. m.chunk \in 0..(NumMod - 1) /\ m.num = m.chunk % NumMod
  BY BlockShape
<1>2. (NumMod * 0 + m.chunk) % NumMod = m.chunk
  BY <1>1, ModUnique
<1> QED
  BY <1>1, <1>2

LEMMA NextOfLast == ((NumMod - 1) + 1) % NumMod = 0
<1>1. (NumMod * 1 + 0) % NumMod = 0
  BY ModUnique
<1> QED
  BY <1>1

(* How far ahead an arriving block can be.                                 *)
LEMMA Candidates ==
  ASSUME LastBlockOK, NEW m \in SentBlocks, Arrives(m)
  PROVE  \/ m = rcvBlk /\ (JustClosed => m.chunk = 0)
         \/ m.chunk <= 1 /\ rcvBlk # EmptyStat
         \/ /\ m.chunk <= rcvBlk.chunk + 2 /\ rcvBlk # EmptyStat
            /\ rcvBlk # NoBlk /\ ~LastOfFile(rcvBlk)
<1>1. rcvBlk.chunk \in Nat /\ EmptyStat.file = 0 /\ EmptyStat.chunk = 0 /\ NoBlk.file = 0 /\ NoBlk.chunk = 1
  BY BlockShape DEF LastBlockOK, EmptyStat, NoBlk, Blk
<1>2. rcvBlk = EmptyStat => ~LastOfFile(rcvBlk) /\ rcvBlk # NoBlk
  BY <1>1 DEF LastOfFile, Files
<1>3. ASSUME NEW x \in SentBlocks, MayFollow(x)
      PROVE  /\ rcvBlk # EmptyStat
             /\ \/ x.chunk = 0
                \/ x.chunk = rcvBlk.chunk + 1 /\ rcvBlk # NoBlk /\ ~LastOfFile(rcvBlk)
  <2>1. CASE x.file = rcvBlk.file /\ rcvBlk.file > 0 /\ x.chunk = rcvBlk.chunk + 1
    <3>1. x.file \in Files /\ x.chunk <= Chunks[x.file]
      BY <2>1, BlockShape
    <3> QED
      BY <1>1, <2>1, <3>1 DEF LastOfFile
  <2>2. CASE (rcvBlk = NoBlk \/ LastOfFile(rcvBlk)) /\ x.chunk = 0
    BY <1>2, <2>2
  <2> QED
    BY <1>3, <2>1, <2>2 DEF MayFollow, Follows
<1>4. CASE MayFollow(m)
  BY <1>1, <1>3, <1>4
<1>5. ASSUME m.chunk > 0, NEW x \in SentBlocks, MayFollow(x), Follows(x, m)
      PROVE  \/ m.chunk <= 1 /\ rcvBlk # EmptyStat
             \/ /\ m.chunk <= rcvBlk.chunk + 2 /\ rcvBlk # EmptyStat
                /\ rcvBlk # NoBlk /\ ~LastOfFile(rcvBlk)
  <2>1. m.chunk = x.chunk + 1
    BY <1>5, BlockShape DEF Follows
  <2>2. /\ rcvBlk # EmptyStat
        /\ x.chunk = 0 \/ (x.chunk = rcvBlk.chunk + 1 /\ rcvBlk # NoBlk /\ ~LastOfFile(rcvBlk))
    BY <1>3, <1>5
  <2>3. CASE x.chunk = 0
    BY <2>1, <2>2, <2>3
  <2>4. CASE x.chunk = rcvBlk.chunk + 1 /\ rcvBlk # NoBlk /\ ~LastOfFile(rcvBlk)
    BY <1>1, <2>1, <2>2, <2>4
  <2> QED
    BY <2>2, <2>3, <2>4
<1> QED
  BY <1>4, <1>5 DEF Arrives

(* What is judged good where a stat block is due is one.                   *)
LEMMA StatIsStat ==
  ASSUME ErrorsBelowWrap, IInv, LastBlockOK, ~astray, InTurn,
         NEW q, NEW m \in SentBlocks, Arrives(m), StatTaken(q, m)
  PROVE  m.chunk = 0
<1>1. active \in {"FirstByteStat", "AreWeDone"} /\ cur = active /\ StatErrors < errB
  BY DEF StatTaken, StatJudged, cur
<1>2. transferringFileD = Closed
  BY <1>1 DEF IInv, DescriptorMatchesState
<1>3. m.num = (numLastGoodBlk + 1) % NumMod
  BY <1>2 DEF StatTaken, StatJudged, getRestBlk
<1>4. m.chunk \in Nat /\ m # NoBlk /\ rcvBlk.chunk \in Nat /\ errCnt \in Nat /\ errB \in Nat
  BY BlockShape DEF LastBlockOK, NoBlk, Blk, IInv, ErrorsOK
<1>5. CASE rcvBlk = EmptyStat
  BY <1>5, Candidates DEF EmptyStat, Blk, NoBlk
<1>6. CASE active = "FirstByteStat" /\ numLastGoodBlk = NumMod - 1 /\ StatNext
  <2>1. m.num = 0
    BY <1>3, <1>6, NextOfLast
  <2>2. CASE closeProb = 0
    <3>1. m.chunk <= 1
      BY <1>4, <1>6, <2>2, Candidates DEF StatNext, JustClosed
    <3> QED
      BY <1>4, <2>1, <3>1, SmallNumber
  <2>3. CASE closeProb # 0
    <3>1. errCnt < errB
      BY <1>1, <1>6, <2>3 DEF StatErrors
    <3>2. rcvBlk = NoBlk \/ rcvBlk.chunk < 2 * errCnt
      BY <1>6, <2>3 DEF StatNext
    <3>3. m.chunk <= 1 \/ m.chunk < 2 * errCnt + 2
      BY <1>4, <3>2, Candidates
    <3>4. m.chunk < NumMod
      BY <1>4, <3>1, <3>3 DEF ErrorsBelowWrap
    <3> QED
      BY <1>4, <2>1, <3>4, SmallNumber
  <2> QED
    BY <2>2, <2>3
<1> QED
  BY <1>1, <1>5, <1>6 DEF InTurn

(* Steps of the chart that leave the blocks and the flags of a stat block  *)
(* alone.                                                                  *)
LEMMA QuietTurn ==
  ASSUME IInv, AInv, errCnt' \in {errCnt, errCnt + 1},
         UNCHANGED <<active, interrupted, astray, fileName, closeProb, rcvBlk, numLastGoodBlk, goodBlk>>
  PROVE  AInv'
<1>1. JudgedOK' /\ cur' = cur
  BY DEF AInv, JudgedOK, cur
<1>2. errCnt \in Nat /\ errCnt' \in Nat /\ errCnt' >= errCnt /\ rcvBlk.chunk \in Nat
  BY DEF IInv, ErrorsOK, BlocksOK, Messages
<1>3. rcvBlk.chunk < 2 * errCnt => rcvBlk.chunk < 2 * errCnt'
  BY ONLY <1>2
<1>4. StatNext => StatNext'
  BY <1>3 DEF StatNext, LastOfFile
<1> QED
  BY <1>1, <1>4 DEF AInv, InTurn

LEMMA FinishTurn ==
  ASSUME NEW e, Finish(e)
  PROVE  AInv'
BY DEF Finish, AInv, JudgedOK, InTurn, cur, Final, DataStates

LEMMA CanTurn ==
  ASSUME IInv, AInv, NEW c, FirstCan(c) \/ Resume
  PROVE  AInv'
<1>1. UNCHANGED <<fileName, closeProb, rcvBlk, numLastGoodBlk, goodBlk, errCnt>>
  BY DEF FirstCan, Resume, opened, judgement
<1>2. CASE FirstCan(c)
  <2>1. active' = "CAN" /\ active # "CAN" /\ interrupted'[1] = active /\ astray' = astray
    BY <1>2, GoToCan DEF FirstCan, IInv, ChartOK, Waiting, NON_CAN, DataStates
  <2>2. cur' = cur /\ JudgedOK'
    BY <2>1 DEF cur, JudgedOK
  <2> QED
    BY <1>1, <2>1, <2>2 DEF AInv, InTurn, StatNext, LastOfFile
<1>3. CASE Resume
  <2>1. active = "CAN" /\ active' \in {"FirstByteStat", "AreWeDone"} /\ interrupted' = interrupted
        /\ astray' = (astray \/ active' # interrupted[1])
    BY <1>3, GoBack DEF Resume, IInv, ChartOK
  <2>2. ~astray' => ~astray /\ cur' = cur
    BY <2>1 DEF cur
  <2>3. JudgedOK'
    BY <2>1 DEF JudgedOK
  <2> QED
    BY <1>1, <2>2, <2>3 DEF AInv, InTurn, StatNext, LastOfFile
<1> QED
  BY <1>2, <1>3

LEMMA ByteTurn ==
  ASSUME IInv, AInv, NEW c, ByteArrives(c), SER(c)
  PROVE  AInv'
<1>1. errCnt \in Nat
  BY DEF IInv, ErrorsOK
<1>2. CASE FirstByteData_EOT(c)
  <2>1. active = "FirstByteData" /\ active' = "EOT"
    BY <1>2, GoToLeaf DEF FirstByteData_EOT, NON_CAN, DataStates
  <2>2. UNCHANGED <<fileName, astray>>
    BY <1>2 DEF FirstByteData_EOT, NotCancelling, ghosts, opened
  <2> QED
    BY <2>1, <2>2 DEF AInv, JudgedOK, InTurn, cur, DataStates
<1>3. CASE EOT_Closed(c)
  <2>1. active = "EOT" /\ active' = "FirstByteStat"
    BY <1>3, GoToLeaf DEF EOT_Closed, NON_CAN, DataStates
  <2>2. LastOfFile(rcvBlk) /\ rcvBlk' = rcvBlk /\ astray' = astray /\ closeProb' = 0
    BY <1>3, <2>1 DEF EOT_Closed, ByteArrives, NothingJudged, NotCancelling, ghosts
  <2>3. ~astray => numLastGoodBlk' = NumMod - 1
    <3> SUFFICES ASSUME ~astray PROVE numLastGoodBlk' = NumMod - 1
      OBVIOUS
    <3>1. transferringFileD # Closed
      BY <2>1 DEF IInv, DescriptorMatchesState, cur, DataStates, Descriptor, Closed
    <3> QED
      BY <1>3, <2>2, <3>1 DEF EOT_Closed, closeTransferredFile
  <2> QED
    BY <2>1, <2>2, <2>3 DEF AInv, JudgedOK, InTurn, StatNext, cur, DataStates, LastOfFile
<1>4. CASE EOT_CloseError(c) \/ FirstByteStat_ExcessiveEOTs(c) \/ CAN_Cancelled(c) \/ CancelAtByte(c)
  <2>1. \E e : Finish(e)
    BY <1>4 DEF EOT_CloseError, FirstByteStat_ExcessiveEOTs, CAN_Cancelled, CancelAtByte
  <2> QED
    BY <2>1, FinishTurn
<1>5. CASE FirstByteStat_EOT(c) \/ Ignored(c)
  BY <1>1, <1>5, QuietTurn DEF FirstByteStat_EOT, Ignored, Stays, chart, judgement, opened, NotCancelling, ghosts
<1>6. CASE FirstCan(c) \/ CAN_Resume(c)
  BY <1>6, CanTurn DEF CAN_Resume
<1> QED
  BY <1>2, <1>3, <1>4, <1>5, <1>6 DEF SER

LEMMA TimeTurn ==
  ASSUME IInv, AInv, TM \/ KB_C
  PROVE  AInv'
<1>1. errCnt \in Nat /\ HistoryOK
  BY DEF IInv, ErrorsOK, ChartOK
<1>2. CASE CondTransientData_GivenUp \/ AreWeDone_TM \/ TopLevel_TM \/ CondTransientData_KB_C
  <2>1. \E e : Finish(e)
    BY <1>2 DEF CondTransientData_GivenUp, AreWeDone_TM, TopLevel_TM, CondTransientData_KB_C
  <2> QED
    BY <2>1, FinishTurn
<1>3. CASE Retry \/ TopLevel_KB_C
  BY <1>1, <1>3, QuietTurn DEF Retry, TopLevel_KB_C, Stays, chart, judgement, opened, NotCancelling, ghosts
<1>4. CASE CAN_TM
  BY <1>4, CanTurn DEF CAN_TM
<1>5. CASE CondTransientData_Answer
  <2>1. active = "CondTransientData" /\ active' = "FirstByteData" /\ UNCHANGED <<fileName, astray>>
    BY <1>1, <1>5, GoToData DEF CondTransientData_Answer, opened, NotCancelling, ghosts
  <2> QED
    BY <2>1 DEF AInv, JudgedOK, InTurn, cur, DataStates
<1> QED
  BY <1>2, <1>3, <1>4, <1>5 DEF TM, KB_C

LEMMA DataTurn ==
  ASSUME AInv, NEW q, NEW m, DataBlock(q, m)
  PROVE  AInv'
<1>1. active \in DataStates /\ active' = "CondTransientData" /\ UNCHANGED <<fileName, astray>>
  BY GoToJudgement DEF DataBlock, opened, NotCancelling, ghosts
<1>2. JudgedOK'
  BY DEF DataBlock, getRestBlk, JudgedOK
<1> QED
  BY <1>1, <1>2 DEF AInv, InTurn, cur, DataStates

LEMMA StatTurn ==
  ASSUME ErrorsBelowWrap, IInv, LastBlockOK, AInv, NEW q, NEW m \in SentBlocks, Arrives(m), StatBlock(q, m)
  PROVE  AInv'
<1>1. /\ active \in {"FirstByteStat", "AreWeDone"} /\ active \in NON_CAN /\ cur = active
      /\ rcvBlk' = m /\ astray' = astray
      /\ closeProb' = IF active = "FirstByteStat" /\ closeProb = 0 THEN -1 ELSE closeProb
  BY DEF StatBlock, Stat_Rejected, Stat_NoMoreFiles, Stat_FileOpened, Stat_CreatError, Stat_SizeThrows,
         Stat_GivenUp, StatTaken, StatJudged, getRestBlk, NotCancelling, ghosts, cur, NON_CAN, DataStates
<1>2. closeProb \in {0, -1} /\ errCnt \in Nat
  BY DEF IInv, FileOK, ErrorsOK
<1>3. ~astray => closeProb' # 0
  BY <1>1, <1>2 DEF AInv, InTurn
<1>4. m.chunk \in Nat /\ m # NoBlk /\ rcvBlk.chunk \in Nat
  BY BlockShape DEF LastBlockOK, NoBlk, Blk
<1>5. CASE Stat_Rejected(q, m)
  <2>1. active' = "FirstByteStat" /\ errCnt' = StatErrors + 1
    BY <1>1, <1>5, GoToLeaf DEF Stat_Rejected, NON_CAN, DataStates
  <2>2. numLastGoodBlk' = numLastGoodBlk
    BY <1>5 DEF Stat_Rejected, StatJudged, getRestBlk
  <2>3. CASE astray
    BY <1>1, <2>1, <2>3 DEF AInv, JudgedOK
  <2>4. CASE ~astray /\ rcvBlk = EmptyStat
    <3>1. m = EmptyStat
      BY <2>4, Candidates DEF EmptyStat, NoBlk, Blk
    <3> QED
      BY <1>1, <1>3, <2>1, <2>4, <3>1 DEF AInv, JudgedOK, InTurn, cur, DataStates
  <2>5. CASE ~astray /\ rcvBlk # EmptyStat
    <3>1. active = "FirstByteStat" /\ numLastGoodBlk = NumMod - 1 /\ StatNext
      BY <1>1, <2>5 DEF AInv, InTurn
    <3>2. m.chunk < 2 * errCnt'
      <4>1. CASE closeProb = 0
        <5>1. m.chunk <= 1
          BY <1>4, <3>1, <4>1, Candidates DEF StatNext, JustClosed
        <5>2. errCnt' = 1
          BY <2>1, <3>1, <4>1 DEF StatErrors
        <5> QED
          BY <1>4, <5>1, <5>2
      <4>2. CASE closeProb # 0
        <5>1. errCnt' = errCnt + 1
          BY <2>1, <3>1, <4>2 DEF StatErrors
        <5>2. rcvBlk = NoBlk \/ rcvBlk.chunk < 2 * errCnt
          BY <3>1, <4>2 DEF StatNext
        <5>3. m.chunk <= 1 \/ m.chunk < 2 * errCnt + 2
          BY <1>4, <5>2, <1>2, Candidates
        <5> QED
          BY <1>2, <1>4, <5>1, <5>3
      <4> QED
        BY <4>1, <4>2
    <3>3. StatNext'
      BY <1>1, <1>3, <2>5, <3>2 DEF StatNext
    <3> QED
      BY <1>1, <2>1, <2>2, <3>1, <3>3 DEF AInv, JudgedOK, InTurn, cur, DataStates
  <2> QED
    BY <2>3, <2>4, <2>5
<1>6. CASE Stat_NoMoreFiles(q, m)
  <2>1. active' = "AreWeDone" /\ ~NamesFile(m) /\ StatTaken(q, m)
    BY <1>1, <1>6, GoToLeaf DEF Stat_NoMoreFiles, StatTaken, NON_CAN, DataStates
  <2>2. ~astray => m = EmptyStat
    <3> SUFFICES ASSUME ~astray PROVE m = EmptyStat
      OBVIOUS
    <3>1. m.chunk = 0 /\ m.file = 0
      BY <2>1, StatIsStat DEF AInv, NamesFile
    <3>2. m.num = 0
      BY <3>1, SmallNumber
    <3> QED
      BY <3>1, <3>2, BlockShape DEF EmptyStat
  <2> QED
    BY <1>1, <1>3, <2>1, <2>2 DEF AInv, JudgedOK, InTurn, cur, DataStates
<1>7. CASE Stat_FileOpened(q, m)
  <2>1. active' = "FirstByteData" /\ NamesFile(m) /\ StatTaken(q, m)
    BY <1>1, <1>7, GoToLeaf DEF Stat_FileOpened, StatTaken, NON_CAN, DataStates
  <2>2. ~astray => fileName' \in Files
    <3> SUFFICES ASSUME ~astray PROVE fileName' \in Files
      OBVIOUS
    <3>1. m.chunk = 0 /\ m.file # 0
      BY <2>1, StatIsStat DEF AInv, NamesFile
    <3>2. fileName' = m.file
      BY <1>7, <3>1 DEF Stat_FileOpened, openFileForTransfer
    <3> QED
      BY <3>1, <3>2, BlockShape
  <2> QED
    BY <1>1, <2>1, <2>2 DEF AInv, JudgedOK, InTurn, cur, DataStates
<1>8. CASE Stat_CreatError(q, m) \/ Stat_SizeThrows(q, m) \/ Stat_GivenUp(q, m)
  <2>1. \E e : Finish(e)
    BY <1>8 DEF Stat_CreatError, Stat_SizeThrows, Stat_GivenUp
  <2> QED
    BY <2>1, FinishTurn
<1> QED
  BY <1>5, <1>6, <1>7, <1>8 DEF StatBlock

LEMMA InitTurn == Init => AInv
<1> SUFFICES ASSUME Init PROVE AInv
  OBVIOUS
<1>1. active = "FirstByteStat" /\ cur = active
  BY StartState DEF Init, cur
<1> QED
  BY <1>1 DEF Init, AInv, JudgedOK, InTurn, StatNext, DataStates

LEMMA StepTurn == ErrorsBelowWrap /\ IInv /\ LastBlockOK /\ AInv /\ [Next]_vars => AInv'
<1> SUFFICES ASSUME ErrorsBelowWrap, IInv, LastBlockOK, AInv, [Next]_vars PROVE AInv'
  OBVIOUS
<1>1. CASE Next
  <2>1. ASSUME NEW q \in Qualities, NEW m \in SentBlocks, Arrives(m), SER_SOH(q, m) PROVE AInv'
    BY <2>1, StatTurn, DataTurn DEF SER_SOH
  <2>2. ASSUME NEW c, ByteArrives(c), SER(c) PROVE AInv'
    BY <2>2, ByteTurn
  <2> QED
    BY <1>1, <2>1, <2>2, TimeTurn DEF Next
<1>2. CASE UNCHANGED vars
  <2>1. errCnt \in Nat
    BY DEF IInv, ErrorsOK
  <2> QED
    BY <1>2, <2>1, QuietTurn DEF vars, chart, judgement, opened, ghosts
<1> QED
  BY <1>1, <1>2

(***************************************************************************)
(* The steps that acknowledge.                                             *)
(***************************************************************************)
LEMMA AckIsSent ==
  ASSUME out' \in {<<Byte(ACK)>>, <<Byte(ACK), Byte(C)>>}
  PROVE  /\ ~cans /\ ~Silent
         /\ \A b \in {<<NAK>>, <<C>>} : ~send(b)
<1>1. out' # <<>> /\ out'[1] = Byte(ACK)
  OBVIOUS
<1>2. ACK # CAN /\ ACK # NAK /\ ACK # C
  BY DEF ACK, CAN, NAK, C
<1>3. Byte(ACK) # Byte(CAN) /\ Byte(ACK) # Byte(NAK) /\ Byte(ACK) # Byte(C)
  BY <1>2 DEF Byte
<1>4. cans => out'[1] = Byte(CAN)
  BY DEF cans, Cans
<1>5. \A b \in {<<NAK>>, <<C>>} : send(b) => out'[1] = Byte(b[1]) /\ b[1] \in {NAK, C}
  BY DEF send
<1> QED
  BY <1>1, <1>3, <1>4, <1>5, Zenon DEF Silent

LEMMA WhoAcks ==
  ASSUME IInv, Next, AcksDataBlock
  PROVE  \/ CondTransientData_Answer /\ goodBlk
         \/ \E q \in Qualities, m \in SentBlocks :
              Arrives(m) /\ StatTaken(q, m) /\ rcvBlk' = m
<1>1. /\ ~cans /\ ~Silent /\ ~send(<<NAK>>) /\ ~send(<<C>>)
      /\ active' \in {"FirstByteData", "AreWeDone"}
  BY AckIsSent DEF AcksDataBlock
<1>2. ASSUME NEW c, SER(c) PROVE FALSE
  <2>1. EOT_Closed(c) \/ FirstByteStat_EOT(c)
    BY <1>1, <1>2 DEF SER, FirstByteData_EOT, EOT_CloseError, FirstByteStat_ExcessiveEOTs, FirstCan,
       CAN_Resume, Resume, CAN_Cancelled, Ignored, CancelAtByte
  <2>2. active' = "FirstByteStat"
    BY <2>1, GoToLeaf DEF EOT_Closed, FirstByteStat_EOT, Stays, chart, NON_CAN, DataStates
  <2> QED
    BY <1>1, <2>2
<1>3. ASSUME NEW q \in Qualities, NEW m \in SentBlocks, Arrives(m), SER_SOH(q, m)
      PROVE  StatTaken(q, m) /\ rcvBlk' = m
  <2>1. Stat_NoMoreFiles(q, m) \/ Stat_FileOpened(q, m)
    BY <1>1, <1>3 DEF SER_SOH, DataBlock, StatBlock, Stat_Rejected, Stat_CreatError, Stat_SizeThrows, Stat_GivenUp
  <2> QED
    BY <2>1 DEF Stat_NoMoreFiles, Stat_FileOpened, StatTaken, StatJudged, getRestBlk
<1>4. CASE TM \/ KB_C
  <2>1. CondTransientData_Answer \/ Retry
    BY <1>1, <1>4 DEF TM, CondTransientData_GivenUp, CAN_TM, Resume, AreWeDone_TM, TopLevel_TM, KB_C,
       CondTransientData_KB_C, TopLevel_KB_C
  <2>2. CASE Retry
    BY <1>1, <2>2, Zenon DEF Retry
  <2>3. CASE CondTransientData_Answer
    BY <1>1, <2>3, Zenon DEF CondTransientData_Answer
  <2> QED
    BY <2>1, <2>2, <2>3
<1> QED
  BY <1>2, <1>3, <1>4 DEF Next

LEMMA AnswerStored ==
  ASSUME ErrorsBelowWrap, IInv, DInv, AInv, CondTransientData_Answer, goodBlk, ~astray, rcvBlk.chunk > 0
  PROVE  BlockStored'
<1>1. active = "CondTransientData" /\ cur = active /\ fileName \in Files /\ InData
  BY DEF CondTransientData_Answer, AInv, InTurn, cur, InData, DataStates
<1>2. UNCHANGED <<fileName, rcvBlk>> /\ errCnt < errB /\ errCnt \in Nat
  BY DEF CondTransientData_Answer, opened, judgement, IInv, ErrorsOK
<1>3. disk[fileName] \in Seq(Messages) /\ disk \in [0..NumFiles -> Seq(Messages)] /\ rcvBlk \in Messages
      /\ fileName \in 0..NumFiles /\ bytesRemaining \in Int
  BY DEF IInv, FileOK, BlocksOK
<1>4. CASE bytesRemaining <= 0
  BY <1>3, <1>4 DEF CondTransientData_Answer, writeChunk, contents, BlockStored
<1>5. CASE bytesRemaining > 0 /\ goodBlk1st
  <2>1. disk'[fileName] = Append(disk[fileName], rcvBlk)
    BY <1>3, <1>5 DEF CondTransientData_Answer, writeChunk
  <2>2. /\ Append(disk[fileName], rcvBlk) # <<>>
        /\ Append(disk[fileName], rcvBlk)[Len(Append(disk[fileName], rcvBlk))] = rcvBlk
    <3>1. ASSUME NEW s \in Seq(Messages), NEW b \in Messages
          PROVE  Append(s, b) # <<>> /\ Append(s, b)[Len(Append(s, b))] = b
      <4>1. Len(Append(s, b)) = Len(s) + 1 /\ Append(s, b)[Len(s) + 1] = b /\ Append(s, b) # <<>>
        OBVIOUS
      <4> QED
        BY <4>1
    <3> QED
      BY <1>3, <3>1
  <2> QED
    BY <1>2, <2>1, <2>2 DEF BlockStored
<1>6. CASE bytesRemaining > 0 /\ ~goodBlk1st
  <2>1. disk' = disk
    BY <1>6 DEF CondTransientData_Answer, contents
  <2>2. KeptUp /\ Taken = OnDisk /\ OnDisk \in Nat
    BY <1>1, <1>3, <1>6 DEF DInv, Progress, Due, Taken, Pending, OnDisk
  <2>3. rcvBlk.num = OnDisk % NumMod
    BY <1>1, <2>2 DEF AInv, JudgedOK, KeptUp
  <2>4. OnDisk # 0
    <3> SUFFICES ASSUME OnDisk = 0 PROVE FALSE
      OBVIOUS
    <3>1. rcvBlk \in SentBlocks
      BY <1>1, <2>2 DEF DInv, LastBlockOK, KeptUp, NoBlk, Blk, Files
    <3>2. rcvBlk.chunk < NumMod /\ rcvBlk.chunk \in Nat
      BY <1>2, <2>2, <3>1, BlockShape DEF KeptUp, ErrorsBelowWrap
    <3>3. rcvBlk.num = rcvBlk.chunk
      BY <3>1, <3>2, SmallNumber
    <3>4. (NumMod * 0 + 0) % NumMod = 0
      BY ModUnique
    <3> QED
      BY <2>3, <3>2, <3>3, <3>4
  <2>5. OnDisk \in DOMAIN disk[fileName] /\ disk[fileName] # <<>>
    BY <1>3, <2>2, <2>4 DEF OnDisk
  <2>6. disk[fileName][OnDisk].num = OnDisk % NumMod
    <3>1. disk[fileName][OnDisk] = Blk(OnDisk % NumMod, fileName, OnDisk)
      BY <1>1, <2>5 DEF DInv, DiskHoldsPrefix
    <3> QED
      BY <3>1 DEF Blk
  <2> QED
    BY <1>2, <2>1, <2>3, <2>5, <2>6 DEF BlockStored, OnDisk
<1> QED
  BY <1>3, <1>4, <1>5, <1>6

(* A data block is acknowledged only when its chunk is on disk, or all the *)
(* bytes of the file are: whatever is lost, damaged, repeated or sent      *)
(* ahead, and wherever the block number wraps.  The one exception is a     *)
(* session in which a stray CAN has sent the data phase astray.            *)
THEOREM AcksCorrect == ErrorsBelowWrap /\ Spec => AckedIsStoredUnlessAstray
<1>1. ErrorsBelowWrap => ErrorsBelowWrap'
  BY DEF ErrorsBelowWrap
<1>2. DInv => LastBlockOK
  BY DEF DInv
<1>3. ErrorsBelowWrap /\ IInv /\ DInv /\ AInv /\ [Next]_vars
        => [AcksDataBlock /\ ~astray' => BlockStored']_vars
  <2> SUFFICES ASSUME ErrorsBelowWrap, IInv, DInv, AInv, Next, AcksDataBlock, ~astray'
               PROVE  BlockStored'
    BY DEF vars
  <2>1. CASE CondTransientData_Answer /\ goodBlk
    <3>1. UNCHANGED <<rcvBlk, astray>>
      BY <2>1 DEF CondTransientData_Answer, judgement, NotCancelling, ghosts
    <3> QED
      BY <2>1, <3>1, AnswerStored DEF AcksDataBlock
  <2>2. ASSUME NEW q \in Qualities, NEW m \in SentBlocks, Arrives(m), StatTaken(q, m), rcvBlk' = m
        PROVE  FALSE
    <3>1. ~astray
      BY <2>2 DEF StatTaken, StatJudged, NotCancelling, ghosts
    <3> QED
      BY <1>2, <2>2, <3>1, StatIsStat DEF AInv, AcksDataBlock
  <2> QED
    BY <2>1, <2>2, WhoAcks
<1> QED
  BY <1>1, <1>2, <1>3, ReceiverInvariant, InitDisk, StepDisk, InitTurn, StepTurn, PTL
     DEF Spec, AckedIsStoredUnlessAstray
=============================================================================
