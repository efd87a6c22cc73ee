--------------------------- MODULE ReceiverYProofs ---------------------------
(***************************************************************************)
(* Theorems about ReceiverY, for any files, error bound, block number and  *)
(* chunk size, behind any line.                                            *)
(***************************************************************************)
EXTENDS ReceiverY, SequenceTheorems, TLAPS

USE FilesAssumption, NumModAssumption, BoundAssumption, ReceiverAssumption

-----------------------------------------------------------------------------
(***************************************************************************)
(* What the runtime makes of this chart.                                   *)
(***************************************************************************)
States == NON_CAN \cup {"CAN"} \cup Super

(* The states the chart waits in for the sender.                           *)
Waiting == {"FirstByteStat", "FirstByteData", "EOT", "AreWeDone"}

(* The history never holds a substate of DataCancelable.                   *)
HistoryOK ==
  /\ hist \in [States -> NON_CAN \cup {NoState}]
  /\ hist["NON_CAN"] \in {NoState, "FirstByteStat", "AreWeDone"}
  /\ hist["DataCancelable"] = NoState

LEMMA StartState ==
  /\ SM!Enter(SM!NoHistory, "TopLevel") = "FirstByteStat"
  /\ SM!NoHistory = [s \in States |-> NoState]
BY DEF SM!Enter, SM!Descend, SM!NoHistory, States, NON_CAN, DataStates, Super, NoState

LEMMA GoToLeaf ==
  ASSUME active \in NON_CAN, NEW t \in NON_CAN, GoTo(active, t)
  PROVE  active' = t /\ hist' = hist
BY DEF GoTo, SM!Enter, SM!Descend, SM!RecordExit, NON_CAN, DataStates, NoState

LEMMA GoToJudgement ==
  ASSUME active \in DataStates, GoTo("DataCancelable", "CondTransientData")
  PROVE  active' = "CondTransientData" /\ hist' = hist
BY DEF GoTo, SM!Enter, SM!Descend, SM!RecordExit, NON_CAN, DataStates, Super, NoState

LEMMA GoToData ==
  ASSUME HistoryOK, active = "CondTransientData", GoTo("CondTransientData", "DataCancelable")
  PROVE  active' = "FirstByteData" /\ hist' = hist
BY DEF GoTo, SM!Enter, SM!Descend, SM!RecordExit, HistoryOK, NON_CAN, DataStates, Super, NoState

LEMMA GoToCan ==
  ASSUME HistoryOK, active \in Waiting, GoTo("NON_CAN", "CAN")
  PROVE  /\ active' = "CAN" /\ HistoryOK'
         /\ active \in {"FirstByteStat", "AreWeDone"} => hist'["NON_CAN"] = active
<1>1. active' = "CAN" /\ hist' \in {hist, [hist EXCEPT !["NON_CAN"] = active]}
  BY DEF GoTo, SM!Enter, SM!Descend, SM!RecordExit, NON_CAN, DataStates, Super, NoState, Waiting
<1>2. CASE active \in DataStates
  BY <1>1, <1>2 DEF GoTo, SM!RecordExit, HistoryOK, NON_CAN, DataStates, Super, NoState
<1>3. CASE active \in {"FirstByteStat", "AreWeDone"}
  <2>1. hist' = [hist EXCEPT !["NON_CAN"] = active]
    BY <1>3 DEF GoTo, SM!RecordExit, NON_CAN, DataStates, Super, NoState
  <2> QED
    BY <1>1, <1>3, <2>1 DEF HistoryOK, States, NON_CAN, Super
<1> QED
  BY <1>2, <1>3 DEF Waiting, DataStates

LEMMA GoBack ==
  ASSUME HistoryOK, active = "CAN", GoTo("CAN", "NON_CAN")
  PROVE  /\ hist' = hist /\ active' \in {"FirstByteStat", "AreWeDone"}
         /\ hist["NON_CAN"] # NoState => active' = hist["NON_CAN"]
BY DEF GoTo, SM!Enter, SM!Descend, SM!RecordExit, HistoryOK, NON_CAN, DataStates, Super, NoState

-----------------------------------------------------------------------------
(***************************************************************************)
(* The inductive invariant, part by part.                                  *)
(***************************************************************************)
ChartOK ==
  /\ active \in NON_CAN \cup {"CAN", Final} /\ HistoryOK
  /\ timer \in {"SOH", "zero", "2CHAR"} /\ held \in {"none", "SOH"}
  /\ interrupted \in (NON_CAN \cup {"none"}) \X {"none", "SOH"}
  /\ active \in Waiting => timer = "SOH"
  /\ active = "CAN" =>
       /\ held = "SOH" /\ interrupted[1] \in Waiting
       /\ interrupted[1] \in {"FirstByteStat", "AreWeDone"} => hist["NON_CAN"] = interrupted[1]

ResultOK ==
  /\ ending \in Endings /\ done \in 0..MaxDone
  /\ running => ending = "none"

FlagsOK ==
  /\ KbCan \in BOOLEAN /\ anotherFile \in BOOLEAN /\ astray \in BOOLEAN /\ purged \in BOOLEAN
  /\ goodBlk \in BOOLEAN /\ goodBlk1st \in BOOLEAN /\ syncLoss \in BOOLEAN

(* The answer to a data block is not given once the keyboard has cancelled. *)
AnswerOK == active = "CondTransientData" => ~KbCan

BlocksOK ==
  /\ numLastGoodBlk \in 0..(NumMod - 1) /\ rcvBlk \in Messages /\ out \in Seq(Messages)

FileOK ==
  /\ transferringFileD \in {Descriptor, Closed} /\ fileName \in 0..NumFiles
  /\ closeProb \in {0, -1}
  /\ bytesRemaining \in Int /\ declared \in Nat /\ stored \in Nat
  /\ disk \in [0..NumFiles -> Seq(Messages)]
  /\ SizeExact

(* Where the errors may pass the bound, and by how much.                   *)
ErrorsOK ==
  /\ errCnt \in 0..(errB + 2)
  /\ active \in Waiting \cup {"CAN"} => errCnt <= errB + 1
  /\ cur = "FirstByteData" => errCnt <= errB
  /\ ErrorsBounded

IInv ==
  /\ ChartOK /\ ResultOK /\ FlagsOK /\ AnswerOK /\ BlocksOK /\ FileOK /\ ErrorsOK
  /\ DescriptorMatchesState

(* Behind any line: any byte may arrive, and any block a sender can make.  *)
AnyLine ==
  \/ \E c \in ControlBytes \cup {SOH} : SER(c)
  \/ \E q \in Qualities, m \in SentBlocks : SER_SOH(q, m)
  \/ TM \/ KB_C

-----------------------------------------------------------------------------
(***************************************************************************)
(* Types of what is received and sent.                                     *)
(***************************************************************************)
LEMMA ByteIsMessage ==
  ASSUME NEW c \in ControlBytes
  PROVE  Byte(c) \in Messages
BY DEF Byte, Messages

LEMMA OutTyped ==
  /\ cans => out' \in Seq(Messages)
  /\ Silent => out' \in Seq(Messages)
  /\ \A b \in Seq(ControlBytes) : send(b) => out' \in Seq(Messages)
<1>1. CAN \in ControlBytes /\ Byte(CAN) \in Messages
  BY ByteIsMessage DEF ControlBytes
<1>2. Cans \in Seq(Messages)
  <2>1. CAN_LEN \in Nat /\ \A i \in 1..CAN_LEN : Byte(CAN) \in Messages
    BY <1>1
  <2>2. Cans = [i \in 1..CAN_LEN |-> Byte(CAN)]
    BY DEF Cans
  <2> HIDE DEF Cans
  <2> QED
    BY <2>1, <2>2, IsASeq
<1>3. ASSUME NEW b \in Seq(ControlBytes), send(b) PROVE out' \in Seq(Messages)
  <2>1. Len(b) \in Nat /\ DOMAIN b = 1..Len(b) /\ \A i \in 1..Len(b) : b[i] \in ControlBytes
    OBVIOUS
  <2>2. \A i \in 1..Len(b) : Byte(b[i]) \in Messages
    BY <2>1, ByteIsMessage
  <2>3. out' = [i \in 1..Len(b) |-> Byte(b[i])]
    BY <1>3, <2>1 DEF send
  <2> QED
    BY <2>1, <2>2, <2>3, IsASeq
<1>4. cans => out' \in Seq(Messages)
  BY <1>2 DEF cans
<1>5. Silent => out' \in Seq(Messages)
  BY DEF Silent
<1> QED
  BY <1>3, <1>4, <1>5

LEMMA AnswersTyped ==
  /\ <<ACK>> \in Seq(ControlBytes) /\ <<NAK>> \in Seq(ControlBytes) /\ <<C>> \in Seq(ControlBytes)
  /\ <<ACK, C>> \in Seq(ControlBytes)
BY DEF ControlBytes

LEMMA SentTyped ==
  ASSUME NEW m \in SentBlocks
  PROVE  /\ m \in Messages /\ m.num \in 0..(NumMod - 1)
         /\ m.file \in 0..NumFiles /\ m.chunk \in Nat
<1>1. CASE m = Blk(0, 0, 0)
  BY <1>1 DEF Blk, Messages
<1>2. ASSUME NEW f \in Files, NEW k \in 0..Chunks[f], m = Blk(k % NumMod, f, k)
      PROVE  /\ m \in Messages /\ m.num \in 0..(NumMod - 1)
             /\ m.file \in 0..NumFiles /\ m.chunk \in Nat
  <2>1. k \in Nat /\ k % NumMod \in 0..(NumMod - 1) /\ f \in 0..NumFiles /\ f \in Nat
    BY DEF Files
  <2> QED
    BY <1>2, <2>1 DEF Blk, Messages
<1> QED
  BY <1>1, <1>2 DEF SentBlocks

LEMMA SizeTyped ==
  ASSUME NEW f \in Files
  PROVE  FileSize(f) \in Nat
<1>1. Chunks[f] \in Nat /\ LastBytes[f] \in Nat /\ ChunkSz \in Nat
  OBVIOUS
<1>2. CASE Chunks[f] # 0
  <2>1. Chunks[f] - 1 \in Nat
    BY <1>1, <1>2
  <2>2. (Chunks[f] - 1) * ChunkSz \in Nat
    BY <1>1, <2>1
  <2> QED
    BY <1>1, <1>2, <2>2 DEF FileSize
<1> QED
  BY <1>2 DEF FileSize

-----------------------------------------------------------------------------
(***************************************************************************)
(* The chart and the result.                                               *)
(***************************************************************************)
(* A step that ends the session.                                           *)
LEMMA FinishChart ==
  ASSUME IInv, NEW e \in Endings, Finish(e), UNCHANGED timers, UNCHANGED interrupted
  PROVE  ChartOK' /\ ResultOK'
BY DEF IInv, ChartOK, ResultOK, HistoryOK, Finish, timers, running, Final, Waiting, NON_CAN, DataStates

(* A step between the states that wait, in which the timeout is set anew.  *)
LEMMA WaitChart ==
  ASSUME IInv, active \in NON_CAN, active' \in Waiting, hist' = hist, tm("SOH"),
         UNCHANGED interrupted, ending' = ending, done' \in 0..MaxDone
  PROVE  ChartOK' /\ ResultOK'
BY DEF IInv, ChartOK, ResultOK, HistoryOK, tm, running, Final, Waiting, NON_CAN, DataStates

(* A step that moves nothing.                                              *)
LEMMA StayChart ==
  ASSUME IInv, Stays, UNCHANGED timers, UNCHANGED interrupted, UNCHANGED result
  PROVE  ChartOK' /\ ResultOK'
BY DEF IInv, ChartOK, ResultOK, HistoryOK, Stays, chart, timers, result, running, Final, Waiting

LEMMA StatChart ==
  ASSUME IInv, NEW q \in Qualities, NEW m \in SentBlocks, StatBlock(q, m)
  PROVE  ChartOK' /\ ResultOK'
<1>1. active \in NON_CAN /\ UNCHANGED interrupted
  BY DEF StatBlock, Stat_Rejected, Stat_NoMoreFiles, Stat_FileOpened, Stat_CreatError, Stat_SizeThrows,
         Stat_GivenUp, StatTaken, StatJudged, NotCancelling, ghosts, NON_CAN
<1>2. CASE Stat_Rejected(q, m) \/ Stat_NoMoreFiles(q, m) \/ Stat_FileOpened(q, m)
  <2>1. \E t \in Waiting : GoTo(active, t)
    BY <1>2 DEF Stat_Rejected, Stat_NoMoreFiles, Stat_FileOpened, Waiting
  <2>2. active' \in Waiting /\ hist' = hist
    BY <1>1, <2>1, GoToLeaf DEF Waiting, NON_CAN, DataStates
  <2>3. tm("SOH") /\ UNCHANGED result
    BY <1>2 DEF Stat_Rejected, Stat_NoMoreFiles, Stat_FileOpened
  <2> QED
    BY <1>1, <2>2, <2>3, WaitChart DEF result, IInv, ResultOK
<1>3. CASE Stat_CreatError(q, m) \/ Stat_SizeThrows(q, m) \/ Stat_GivenUp(q, m)
  <2>1. (\E e \in Endings : Finish(e)) /\ UNCHANGED timers
    BY <1>3 DEF Stat_CreatError, Stat_SizeThrows, Stat_GivenUp, Endings
  <2> QED
    BY <1>1, <2>1, FinishChart
<1> QED
  BY <1>2, <1>3 DEF StatBlock

LEMMA DataChart ==
  ASSUME IInv, NEW q \in Qualities, NEW m \in SentBlocks, DataBlock(q, m)
  PROVE  ChartOK' /\ ResultOK'
<1>1. active' = "CondTransientData" /\ hist' = hist /\ active \in DataStates
  BY GoToJudgement DEF DataBlock
<1>2. tm("zero") /\ UNCHANGED interrupted /\ UNCHANGED result
  BY DEF DataBlock, NotCancelling, ghosts
<1> QED
  BY <1>1, <1>2 DEF IInv, ChartOK, ResultOK, HistoryOK, tm, result, running, Final, Waiting, NON_CAN, DataStates

LEMMA CanChart ==
  ASSUME IInv, NEW c, FirstCan(c) \/ Resume
  PROVE  ChartOK' /\ ResultOK'
<1>1. UNCHANGED result /\ active # Final
  BY DEF FirstCan, Resume, Final, NON_CAN, DataStates
<1>2. ResultOK'
  BY <1>1 DEF IInv, ResultOK, result, running
<1>3. CASE FirstCan(c)
  <2>1. active \in Waiting /\ timer = "SOH"
    BY <1>3 DEF FirstCan, Waiting, NON_CAN, DataStates, IInv, ChartOK
  <2>2. /\ active' = "CAN" /\ HistoryOK'
        /\ active \in {"FirstByteStat", "AreWeDone"} => hist'["NON_CAN"] = active
    BY <1>3, <2>1, GoToCan DEF FirstCan, IInv, ChartOK
  <2>3. timer' = "2CHAR" /\ held' = "SOH" /\ interrupted' = <<active, "SOH">>
    BY <1>3, <2>1 DEF FirstCan, tmPush
  <2> QED
    BY <1>2, <2>1, <2>2, <2>3 DEF ChartOK, Waiting, NON_CAN, DataStates
<1>4. CASE Resume
  <2>1. hist' = hist /\ active' \in {"FirstByteStat", "AreWeDone"}
    BY <1>4, GoBack DEF Resume, IInv, ChartOK
  <2>2. timer' = "SOH" /\ held' = "SOH" /\ interrupted' = interrupted
    BY <1>4 DEF Resume, tmPop, IInv, ChartOK
  <2> QED
    BY <1>2, <2>1, <2>2 DEF IInv, ChartOK, HistoryOK, Waiting, NON_CAN, DataStates
<1> QED
  BY <1>3, <1>4

LEMMA ByteChart ==
  ASSUME IInv, NEW c, SER(c)
  PROVE  ChartOK' /\ ResultOK'
<1>1. CASE FirstByteData_EOT(c) \/ EOT_Closed(c) \/ FirstByteStat_EOT(c)
  <2>1. /\ active \in NON_CAN /\ UNCHANGED interrupted /\ tm("SOH") /\ ending' = ending
        /\ (\E t \in Waiting : GoTo(active, t)) \/ (Stays /\ active \in Waiting)
    BY <1>1 DEF FirstByteData_EOT, EOT_Closed, FirstByteStat_EOT, NotCancelling, ghosts, result,
                Waiting, NON_CAN, DataStates
  <2>2. active' \in Waiting /\ hist' = hist
    BY <2>1, GoToLeaf DEF Stays, chart, Waiting, NON_CAN, DataStates
  <2>3. done' \in 0..MaxDone
    BY <1>1 DEF FirstByteData_EOT, EOT_Closed, FirstByteStat_EOT, result, IInv, ResultOK
  <2> QED
    BY <2>1, <2>2, <2>3, WaitChart
<1>2. CASE EOT_CloseError(c) \/ FirstByteStat_ExcessiveEOTs(c) \/ CAN_Cancelled(c) \/ CancelAtByte(c)
  <2>1. (\E e \in Endings : Finish(e)) /\ UNCHANGED timers /\ UNCHANGED interrupted
    BY <1>2 DEF EOT_CloseError, FirstByteStat_ExcessiveEOTs, CAN_Cancelled, CancelAtByte, NotCancelling,
                ghosts, Endings
  <2> QED
    BY <2>1, FinishChart
<1>3. CASE FirstCan(c) \/ CAN_Resume(c)
  BY <1>3, CanChart DEF CAN_Resume
<1>4. CASE Ignored(c)
  BY <1>4, StayChart DEF Ignored, NotCancelling, ghosts
<1> QED
  BY <1>1, <1>2, <1>3, <1>4 DEF SER

LEMMA TimeChart ==
  ASSUME IInv, TM \/ KB_C
  PROVE  ChartOK' /\ ResultOK'
<1>1. CASE CondTransientData_Answer
  <2>1. active' = "FirstByteData" /\ hist' = hist /\ active \in NON_CAN
    BY <1>1, GoToData DEF CondTransientData_Answer, IInv, ChartOK, NON_CAN
  <2>2. tm("SOH") /\ UNCHANGED interrupted /\ UNCHANGED result
    BY <1>1 DEF CondTransientData_Answer, NotCancelling, ghosts
  <2> QED
    BY <2>1, <2>2, WaitChart DEF Waiting, result, IInv, ResultOK
<1>2. CASE Retry
  <2>1. /\ active' \in Waiting /\ hist' = hist /\ active \in NON_CAN /\ tm("SOH")
        /\ UNCHANGED interrupted /\ UNCHANGED result
    BY <1>2 DEF Retry, Stays, chart, NotCancelling, ghosts, Waiting, NON_CAN, DataStates
  <2> QED
    BY <2>1, WaitChart DEF result, IInv, ResultOK
<1>3. CASE CondTransientData_GivenUp \/ AreWeDone_TM \/ TopLevel_TM \/ CondTransientData_KB_C
  <2>1. (\E e \in Endings : Finish(e)) /\ UNCHANGED timers /\ UNCHANGED interrupted
    BY <1>3 DEF CondTransientData_GivenUp, AreWeDone_TM, TopLevel_TM, CondTransientData_KB_C, NotCancelling,
                ghosts, Endings
  <2> QED
    BY <2>1, FinishChart
<1>4. CASE CAN_TM
  BY <1>4, CanChart DEF CAN_TM
<1>5. CASE TopLevel_KB_C
  BY <1>5, StayChart DEF TopLevel_KB_C, ghosts
<1> QED
  BY <1>1, <1>2, <1>3, <1>4, <1>5 DEF TM, KB_C

-----------------------------------------------------------------------------
(***************************************************************************)
(* The flags.                                                              *)
(***************************************************************************)
LEMMA JudgedFlags ==
  ASSUME IInv, NEW q \in Qualities, NEW m \in SentBlocks, getRestBlk(q, m)
  PROVE  /\ goodBlk' \in BOOLEAN /\ goodBlk1st' \in BOOLEAN /\ syncLoss' \in BOOLEAN
         /\ purged' \in BOOLEAN
BY Zenon DEF getRestBlk

LEMMA StepFlags ==
  ASSUME IInv, AnyLine
  PROVE  FlagsOK' /\ AnswerOK'
<1>1. ASSUME NEW q \in Qualities, NEW m \in SentBlocks, StatBlock(q, m) PROVE FlagsOK' /\ AnswerOK'
  <2>1. getRestBlk(q, m) /\ KbCan' = KbCan /\ astray' = astray
    BY <1>1 DEF StatBlock, Stat_Rejected, Stat_NoMoreFiles, Stat_FileOpened, Stat_CreatError, Stat_SizeThrows,
                Stat_GivenUp, StatTaken, StatJudged, NotCancelling, ghosts
  <2>2. anotherFile' = NamesFile(m) \/ anotherFile' = anotherFile
    BY <1>1 DEF StatBlock, Stat_Rejected, Stat_NoMoreFiles, Stat_FileOpened, Stat_CreatError, Stat_SizeThrows,
                Stat_GivenUp, StatTaken
  <2>3. NamesFile(m) \in BOOLEAN
    BY Zenon DEF NamesFile
  <2>4. active' # "CondTransientData" \/ KbCan' = FALSE
    BY <1>1 DEF StatBlock, Stat_Rejected, Stat_NoMoreFiles, Stat_FileOpened, Stat_CreatError, Stat_SizeThrows,
                Stat_GivenUp, StatTaken, StatJudged, NotCancelling, IInv, FlagsOK
  <2> QED
    BY <2>1, <2>2, <2>3, <2>4, JudgedFlags DEF IInv, FlagsOK, AnswerOK
<1>2. ASSUME NEW q \in Qualities, NEW m \in SentBlocks, DataBlock(q, m) PROVE FlagsOK' /\ AnswerOK'
  <2>1. getRestBlk(q, m) /\ KbCan' = KbCan /\ ~ KbCan /\ astray' = astray
    BY <1>2 DEF DataBlock, NotCancelling, ghosts
  <2>2. anotherFile' \in BOOLEAN
    BY <1>2, Zenon DEF DataBlock
  <2> QED
    BY <2>1, <2>2, JudgedFlags DEF IInv, FlagsOK, AnswerOK
<1>3. ASSUME NEW c, SER(c) \/ TM \/ KB_C PROVE FlagsOK' /\ AnswerOK'
  <2>1. /\ anotherFile' = anotherFile /\ goodBlk' = goodBlk /\ goodBlk1st' = goodBlk1st /\ syncLoss' = syncLoss
        /\ purged' \in BOOLEAN /\ KbCan' \in {KbCan, TRUE}
    BY <1>3 DEF SER, FirstByteData_EOT, EOT_Closed, EOT_CloseError, FirstByteStat_EOT, FirstByteStat_ExcessiveEOTs,
                FirstCan, CAN_Resume, CAN_Cancelled, Ignored, CancelAtByte, Resume, NothingJudged, NotCancelling,
                judgement, purge, NoPurge, TM, CondTransientData_Answer, CondTransientData_GivenUp, CAN_TM, Retry,
                AreWeDone_TM, TopLevel_TM, KB_C, CondTransientData_KB_C, TopLevel_KB_C
  <2>2. astray' \in BOOLEAN
    <3>1. CASE Resume
      BY <3>1, Zenon DEF Resume
    <3>2. CASE ~ Resume
      <4>1. astray' = astray
        BY <1>3, <3>2 DEF SER, FirstByteData_EOT, EOT_Closed, EOT_CloseError, FirstByteStat_EOT,
                FirstByteStat_ExcessiveEOTs, FirstCan, CAN_Resume, CAN_Cancelled, Ignored, CancelAtByte,
                NotCancelling, ghosts, TM, CondTransientData_Answer, CondTransientData_GivenUp, CAN_TM, Retry,
                AreWeDone_TM, TopLevel_TM, KB_C, CondTransientData_KB_C, TopLevel_KB_C
      <4> QED
        BY <4>1 DEF IInv, FlagsOK
    <3> QED
      BY <3>1, <3>2
  <2>3. active' # "CondTransientData" \/ (active' = active /\ KbCan' = KbCan)
    <3>1. CASE active = "CAN" /\ active' # "CAN"
      BY <1>3, <3>1, GoBack DEF SER, FirstByteData_EOT, EOT_Closed, EOT_CloseError, FirstByteStat_EOT,
                FirstByteStat_ExcessiveEOTs, FirstCan, CAN_Resume, CAN_Cancelled, Ignored, CancelAtByte, Finish,
                Final, Stays, chart, Resume, TM, CondTransientData_Answer, CondTransientData_GivenUp, CAN_TM, Retry,
                AreWeDone_TM, TopLevel_TM, KB_C, CondTransientData_KB_C, TopLevel_KB_C, NON_CAN, DataStates,
                IInv, ChartOK
    <3>2. CASE active = "CondTransientData"
      BY <1>3, <3>2, GoToData DEF SER, FirstByteData_EOT, EOT_Closed, EOT_CloseError, FirstByteStat_EOT,
                FirstByteStat_ExcessiveEOTs, FirstCan, CAN_Resume, CAN_Cancelled, Ignored, CancelAtByte, Finish,
                Final, Stays, chart, Resume, TM, CondTransientData_Answer, CondTransientData_GivenUp, CAN_TM, Retry,
                AreWeDone_TM, TopLevel_TM, KB_C, CondTransientData_KB_C, TopLevel_KB_C, NON_CAN, DataStates,
                NotCancelling, LeafTakes, IInv, ChartOK
    <3>3. CASE active \in Waiting \cup {Final}
      BY <1>3, <3>3, GoToLeaf, GoToCan DEF SER, FirstByteData_EOT, EOT_Closed, EOT_CloseError, FirstByteStat_EOT,
                FirstByteStat_ExcessiveEOTs, FirstCan, CAN_Resume, CAN_Cancelled, Ignored, CancelAtByte, Finish,
                Final, Stays, chart, Resume, TM, CondTransientData_Answer, CondTransientData_GivenUp, CAN_TM, Retry,
                AreWeDone_TM, TopLevel_TM, KB_C, CondTransientData_KB_C, TopLevel_KB_C, NON_CAN, DataStates,
                Waiting, IInv, ChartOK
    <3> QED
      BY <3>1, <3>2, <3>3 DEF IInv, ChartOK, NON_CAN, DataStates, Waiting
  <2> QED
    BY <2>1, <2>2, <2>3 DEF IInv, FlagsOK, AnswerOK
<1> QED
  BY <1>1, <1>2, <1>3 DEF AnyLine, SER_SOH

-----------------------------------------------------------------------------
(***************************************************************************)
(* Blocks, answers and the file.                                           *)
(***************************************************************************)
LEMMA StatBlocks ==
  ASSUME IInv, NEW q \in Qualities, NEW m \in SentBlocks, SER_SOH(q, m)
  PROVE  BlocksOK'
<1>1. getRestBlk(q, m)
  BY DEF SER_SOH, StatBlock, Stat_Rejected, Stat_NoMoreFiles, Stat_FileOpened, Stat_CreatError, Stat_SizeThrows,
         Stat_GivenUp, StatTaken, StatJudged, DataBlock
<1>2. rcvBlk' = m /\ numLastGoodBlk' \in {m.num, numLastGoodBlk}
  BY <1>1 DEF getRestBlk
<1>3. Silent \/ cans \/ \E b \in Seq(ControlBytes) : send(b)
  BY AnswersTyped DEF SER_SOH, StatBlock, Stat_Rejected, Stat_NoMoreFiles, Stat_FileOpened, Stat_CreatError,
         Stat_SizeThrows, Stat_GivenUp, DataBlock
<1>4. out' \in Seq(Messages)
  BY <1>3, OutTyped
<1> QED
  BY <1>2, <1>4, SentTyped DEF IInv, BlocksOK

LEMMA OtherBlocks ==
  ASSUME IInv, NEW c, SER(c) \/ TM \/ KB_C
  PROVE  BlocksOK'
<1>1. rcvBlk' = rcvBlk /\ numLastGoodBlk' \in {numLastGoodBlk, NumMod - 1}
  BY DEF SER, FirstByteData_EOT, EOT_Closed, EOT_CloseError, FirstByteStat_EOT, FirstByteStat_ExcessiveEOTs,
         FirstCan, CAN_Resume, CAN_Cancelled, Ignored, CancelAtByte, Resume, NothingJudged,
         judgement, closeTransferredFile, TM, CondTransientData_Answer, CondTransientData_GivenUp, CAN_TM, Retry,
         AreWeDone_TM, TopLevel_TM, KB_C, CondTransientData_KB_C, TopLevel_KB_C
<1>2. Silent \/ cans \/ \E b \in Seq(ControlBytes) : send(b)
  <2>1. CASE SER(c)
    BY <2>1, AnswersTyped DEF SER, FirstByteData_EOT, EOT_Closed, EOT_CloseError, FirstByteStat_EOT,
         FirstByteStat_ExcessiveEOTs, FirstCan, CAN_Resume, CAN_Cancelled, Ignored, CancelAtByte, Resume
  <2>2. CASE CondTransientData_Answer
    <3>1. (IF ~goodBlk THEN <<NAK>> ELSE IF anotherFile THEN <<ACK, C>> ELSE <<ACK>>) \in Seq(ControlBytes)
      BY AnswersTyped
    <3> QED
      BY <2>2, <3>1 DEF CondTransientData_Answer
  <2>3. CASE Retry
    <3>1. (IF transferringFileD = Closed THEN <<C>> ELSE <<NAK>>) \in Seq(ControlBytes)
      BY AnswersTyped
    <3> QED
      BY <2>3, <3>1 DEF Retry
  <2>4. CASE CondTransientData_GivenUp \/ CAN_TM \/ AreWeDone_TM \/ TopLevel_TM \/ KB_C
    BY <2>4 DEF CondTransientData_GivenUp, CAN_TM, Resume, AreWeDone_TM, TopLevel_TM, KB_C,
                CondTransientData_KB_C, TopLevel_KB_C
  <2> QED
    BY <2>1, <2>2, <2>3, <2>4 DEF TM
<1>3. out' \in Seq(Messages)
  BY <1>2, OutTyped
<1> QED
  BY <1>1, <1>3 DEF IInv, BlocksOK

LEMMA OpenFile ==
  ASSUME IInv, NEW m \in SentBlocks, NamesFile(m), openFileForTransfer(m), closeProb' \in {0, -1}
  PROVE  FileOK'
<1>1. m.file \in 0..NumFiles /\ (m.chunk = 0 => m.file \in Files)
  BY SentTyped DEF NamesFile, Files
<1>2. fileName' \in 0..NumFiles /\ transferringFileD' \in {Descriptor, Closed}
  BY <1>1 DEF openFileForTransfer
<1>3. bytesRemaining' \in Nat /\ declared' = bytesRemaining' /\ stored' = 0
  BY <1>1, SizeTyped DEF openFileForTransfer
<1>4. disk' \in [0..NumFiles -> Seq(Messages)]
  BY <1>2 DEF openFileForTransfer, IInv, FileOK
<1>5. SizeExact'
  <2>1. bytesRemaining' > -ChunkSz
    BY <1>3
  <2>2. CASE bytesRemaining' > 0
    <3>1. stored' = 0 /\ declared' = bytesRemaining' /\ bytesRemaining' \in Int
      BY <1>3
    <3>2. \A n \in Int : 0 + n = n
      OBVIOUS
    <3>3. stored' + bytesRemaining' = declared'
      BY ONLY <3>1, <3>2
    <3>4. stored' + (IF bytesRemaining' > 0 THEN bytesRemaining' ELSE 0) = declared'
      BY <2>2, <3>3
    <3> QED
      BY <2>1, <3>4 DEF SizeExact
  <2>3. CASE bytesRemaining' = 0
    BY <1>3, <2>1, <2>3 DEF SizeExact
  <2> QED
    BY <1>3, <2>2, <2>3
<1> QED
  BY <1>2, <1>3, <1>4, <1>5 DEF FileOK

LEMMA WriteChunk ==
  ASSUME IInv, writeChunk, UNCHANGED <<closeProb, opened>>
  PROVE  FileOK'
<1>1. CASE bytesRemaining <= 0
  BY <1>1 DEF writeChunk, contents, opened, IInv, FileOK, SizeExact
<1>2. CASE bytesRemaining > 0
  <2>1. /\ bytesRemaining' = bytesRemaining - ChunkSz /\ declared' = declared
        /\ stored' = stored + IF bytesRemaining' < 0 THEN ChunkSz + bytesRemaining' ELSE ChunkSz
        /\ disk' = [disk EXCEPT ![fileName] = Append(@, rcvBlk)]
    BY <1>2 DEF writeChunk, IInv, FileOK
  <2>2. bytesRemaining \in Int /\ stored \in Nat /\ declared \in Nat /\ ChunkSz \in Nat \ {0}
    BY DEF IInv, FileOK
  <2>3. bytesRemaining' \in Int /\ declared' \in Nat /\ stored' \in Nat
    BY <1>2, <2>1, <2>2
  <2>4. disk' \in [0..NumFiles -> Seq(Messages)]
    BY <2>1 DEF IInv, FileOK, BlocksOK
  <2>5. SizeExact'
    BY <1>2, <2>1, <2>2 DEF SizeExact, IInv, FileOK
  <2> QED
    BY <2>3, <2>4, <2>5 DEF opened, IInv, FileOK
<1> QED
  BY <1>1, <1>2 DEF IInv, FileOK

LEMMA KeepFile ==
  ASSUME IInv, UNCHANGED contents, fileName' = fileName,
         transferringFileD' \in {transferringFileD, Closed}, closeProb' \in {closeProb, 0, -1}
  PROVE  FileOK'
BY DEF contents, IInv, FileOK, SizeExact

LEMMA StepFile ==
  ASSUME IInv, AnyLine
  PROVE  FileOK'
<1>1. ASSUME NEW q \in Qualities, NEW m \in SentBlocks, StatBlock(q, m) PROVE FileOK'
  <2>1. closeProb' \in {closeProb, 0, -1}
    BY <1>1 DEF StatBlock, Stat_Rejected, Stat_NoMoreFiles, Stat_FileOpened, Stat_CreatError, Stat_SizeThrows,
                Stat_GivenUp, StatTaken, StatJudged
  <2>2. CASE Stat_FileOpened(q, m) \/ Stat_CreatError(q, m)
    <3>1. openFileForTransfer(m) /\ NamesFile(m)
      BY <2>2 DEF Stat_FileOpened, Stat_CreatError, StatTaken
    <3> QED
      BY <2>1, <3>1, OpenFile DEF IInv, FileOK
  <2>3. CASE ~ (Stat_FileOpened(q, m) \/ Stat_CreatError(q, m))
    <3>1. UNCHANGED <<opened, contents>>
      BY <1>1, <2>3 DEF StatBlock, Stat_Rejected, Stat_NoMoreFiles, Stat_SizeThrows, Stat_GivenUp
    <3> QED
      BY <2>1, <3>1, KeepFile DEF opened
  <2> QED
    BY <2>2, <2>3
<1>2. CASE CondTransientData_Answer
  <2>1. UNCHANGED <<closeProb, opened>>
    BY <1>2 DEF CondTransientData_Answer
  <2>2. writeChunk \/ UNCHANGED contents
    BY <1>2 DEF CondTransientData_Answer
  <2> QED
    BY <2>1, <2>2, WriteChunk, KeepFile DEF opened
<1>3. ASSUME NEW c, SER(c) \/ KB_C \/ CondTransientData_GivenUp \/ CAN_TM \/ Retry \/ AreWeDone_TM \/ TopLevel_TM
      PROVE  FileOK'
  <2>1. /\ UNCHANGED contents /\ fileName' = fileName
        /\ transferringFileD' \in {transferringFileD, Closed} /\ closeProb' \in {closeProb, 0, -1}
    BY <1>3 DEF SER, FirstByteData_EOT, EOT_Closed, EOT_CloseError, FirstByteStat_EOT, FirstByteStat_ExcessiveEOTs,
         FirstCan, CAN_Resume, CAN_Cancelled, Ignored, CancelAtByte, Resume, opened, closeTransferredFile,
         CondTransientData_GivenUp, CAN_TM, Retry, AreWeDone_TM, TopLevel_TM, KB_C, CondTransientData_KB_C,
         TopLevel_KB_C
  <2> QED
    BY <2>1, KeepFile
<1>4. ASSUME NEW q \in Qualities, NEW m \in SentBlocks, DataBlock(q, m) PROVE FileOK'
  <2>1. UNCHANGED <<closeProb, opened, contents>>
    BY <1>4 DEF DataBlock
  <2> QED
    BY <2>1, KeepFile DEF opened
<1> QED
  BY <1>1, <1>2, <1>3, <1>4 DEF AnyLine, SER_SOH, TM

-----------------------------------------------------------------------------
(***************************************************************************)
(* Errors and the descriptor.                                              *)
(***************************************************************************)
(* Where a step leads: cur' tells both, given these.                       *)
LEMMA CurOf ==
  ASSUME IInv
  PROVE  /\ active # "CAN" => cur = active
         /\ active = "CAN" => cur = interrupted[1] /\ cur \in Waiting
         /\ errCnt \in Nat /\ errB \in Nat \ {0}
BY DEF IInv, ChartOK, ErrorsOK, cur

LEMMA StatErrorsBound ==
  ASSUME IInv, active \in {"FirstByteStat", "AreWeDone"}
  PROVE  StatErrors \in 0..(errB + 2)
BY DEF IInv, ErrorsOK, StatErrors, Waiting

LEMMA StatStep ==
  ASSUME IInv, NEW q \in Qualities, NEW m \in SentBlocks, StatBlock(q, m)
  PROVE  ErrorsOK' /\ DescriptorMatchesState'
<1>1. /\ active \in {"FirstByteStat", "AreWeDone"} /\ active \in NON_CAN /\ cur = active
      /\ astray' = astray
  BY DEF StatBlock, Stat_Rejected, Stat_NoMoreFiles, Stat_FileOpened, Stat_CreatError, Stat_SizeThrows,
         Stat_GivenUp, StatTaken, StatJudged, NotCancelling, ghosts, NON_CAN, cur
<1>2. StatErrors \in 0..(errB + 2)
  BY <1>1, StatErrorsBound
<1>3. ~ astray => transferringFileD = Closed
  BY <1>1 DEF IInv, DescriptorMatchesState
<1>8. ending = "none"
  BY <1>1 DEF IInv, ResultOK, running, Final
<1>4. CASE Stat_Rejected(q, m)
  <2>1. active' = "FirstByteStat" /\ cur' = "FirstByteStat"
    BY <1>1, <1>4, GoToLeaf DEF Stat_Rejected, NON_CAN, cur
  <2>2. /\ errCnt' \in 0..errB /\ transferringFileD' = transferringFileD /\ ending' = "none"
    BY <1>2, <1>4, <1>8 DEF Stat_Rejected, opened, result
  <2> QED
    BY <1>1, <1>3, <2>1, <2>2 DEF ErrorsOK, ErrorsBounded, DescriptorMatchesState, DataStates
<1>5. CASE Stat_NoMoreFiles(q, m)
  <2>1. active' = "AreWeDone" /\ cur' = "AreWeDone"
    BY <1>1, <1>5, GoToLeaf DEF Stat_NoMoreFiles, NON_CAN, cur
  <2>2. /\ errCnt' \in 0..errB /\ transferringFileD' = transferringFileD /\ ending' = "none"
    BY <1>2, <1>5, <1>8 DEF Stat_NoMoreFiles, StatTaken, opened, result
  <2> QED
    BY <1>1, <1>3, <2>1, <2>2 DEF ErrorsOK, ErrorsBounded, DescriptorMatchesState, DataStates
<1>6. CASE Stat_FileOpened(q, m)
  <2>1. active' = "FirstByteData" /\ cur' = "FirstByteData"
    BY <1>1, <1>6, GoToLeaf DEF Stat_FileOpened, NON_CAN, DataStates, cur
  <2>2. /\ errCnt' \in 0..errB /\ transferringFileD' = Descriptor /\ ending' = "none"
    BY <1>2, <1>6, <1>8 DEF Stat_FileOpened, StatTaken, openFileForTransfer, result
  <2> QED
    BY <1>1, <2>1, <2>2 DEF ErrorsOK, ErrorsBounded, DescriptorMatchesState, DataStates
<1>7. CASE Stat_CreatError(q, m) \/ Stat_SizeThrows(q, m) \/ Stat_GivenUp(q, m)
  <2>1. /\ active' = Final /\ cur' = Final /\ errCnt' = StatErrors
        /\ ending' \notin {"EndOfSession", "ExcessiveEOTs"}
    BY <1>7 DEF Stat_CreatError, Stat_SizeThrows, Stat_GivenUp, Finish, Final, cur
  <2> QED
    BY <1>2, <2>1 DEF ErrorsOK, ErrorsBounded, DescriptorMatchesState, DataStates, Final, Waiting
<1> QED
  BY <1>4, <1>5, <1>6, <1>7 DEF StatBlock

LEMMA DataStep ==
  ASSUME IInv, NEW q \in Qualities, NEW m \in SentBlocks, DataBlock(q, m)
  PROVE  ErrorsOK' /\ DescriptorMatchesState'
<1>1. active' = "CondTransientData" /\ cur' = "CondTransientData" /\ active \in DataStates /\ cur = active
  BY GoToJudgement DEF DataBlock, DataStates, cur
<1>2. errCnt' \in {0, errCnt + 1} /\ astray' = astray /\ transferringFileD' = transferringFileD /\ ending' = ending
  BY DEF DataBlock, NotCancelling, ghosts, opened, result
<1>3. errCnt' \in 0..(errB + 2)
  BY <1>1, <1>2 DEF IInv, ErrorsOK, Waiting, DataStates
<1>4. ending = "none"
  BY <1>1 DEF IInv, ResultOK, running, DataStates, Final
<1> QED
  BY <1>1, <1>2, <1>3, <1>4 DEF ErrorsOK, ErrorsBounded, DescriptorMatchesState, IInv, Waiting, DataStates

(* A step that ends the session without a file open, or badly.             *)
LEMMA FinishStep ==
  ASSUME IInv, NEW e \in Endings, Finish(e), errCnt' = errCnt, astray' = astray,
         e \in {"EndOfSession", "ExcessiveEOTs"} => transferringFileD' = Closed \/ astray
  PROVE  ErrorsOK' /\ DescriptorMatchesState'
<1>1. active' = Final /\ cur' = Final /\ ending' = e
  BY DEF Finish, Final, cur
<1> QED
  BY <1>1 DEF IInv, ErrorsOK, ErrorsBounded, DescriptorMatchesState, DataStates, Final, Waiting

(* A step that keeps state, file and errors, or takes a CAN.               *)
LEMMA SameStep ==
  ASSUME IInv, cur' = cur, errCnt' = errCnt, astray' = astray, transferringFileD' = transferringFileD,
         ending' = ending, active' \in Waiting \cup {"CAN"} => active \in Waiting \cup {"CAN"}
  PROVE  ErrorsOK' /\ DescriptorMatchesState'
BY DEF IInv, ErrorsOK, ErrorsBounded, DescriptorMatchesState

LEMMA CanStep ==
  ASSUME IInv, NEW c, FirstCan(c) \/ Resume
  PROVE  ErrorsOK' /\ DescriptorMatchesState'
<1>1. errCnt' = errCnt /\ transferringFileD' = transferringFileD /\ ending' = ending
  BY DEF FirstCan, Resume, opened, result
<1>2. CASE FirstCan(c)
  <2>1. active \in Waiting /\ interrupted' = <<active, timer>> /\ astray' = astray
    BY <1>2 DEF FirstCan, Waiting, NON_CAN, DataStates
  <2>2. active' = "CAN"
    BY <1>2, <2>1, GoToCan DEF FirstCan, IInv, ChartOK
  <2>3. cur' = cur
    BY <2>1, <2>2 DEF cur, Waiting
  <2> QED
    BY <1>1, <2>1, <2>3, SameStep
<1>3. CASE Resume
  <2>1. /\ active = "CAN" /\ cur = interrupted[1] /\ interrupted[1] \in Waiting
        /\ active' \in {"FirstByteStat", "AreWeDone"} /\ cur' = active'
    BY <1>3, GoBack DEF Resume, IInv, ChartOK, cur
  <2>2. active' # interrupted[1] => astray'
    BY <1>3, Zenon DEF Resume
  <2>3. astray => astray'
    BY <1>3, Zenon DEF Resume
  <2>4. CASE active' = interrupted[1]
    BY <1>1, <2>1, <2>3, <2>4 DEF IInv, ErrorsOK, ErrorsBounded, DescriptorMatchesState, Waiting, DataStates
  <2>5. CASE active' # interrupted[1]
    BY <1>1, <2>1, <2>2, <2>5 DEF IInv, ErrorsOK, ErrorsBounded, DescriptorMatchesState, Waiting
  <2> QED
    BY <2>4, <2>5
<1> QED
  BY <1>2, <1>3

LEMMA ByteStep ==
  ASSUME IInv, NEW c, SER(c)
  PROVE  ErrorsOK' /\ DescriptorMatchesState'
<1>1. CASE FirstByteData_EOT(c)
  <2>1. active = "FirstByteData" /\ cur = "FirstByteData" /\ active' = "EOT" /\ cur' = "EOT"
    BY <1>1, GoToLeaf DEF FirstByteData_EOT, NON_CAN, DataStates, cur
  <2>2. errCnt' = errCnt + 1 /\ astray' = astray /\ transferringFileD' = transferringFileD /\ ending' = ending
    BY <1>1 DEF FirstByteData_EOT, NotCancelling, ghosts, opened, result
  <2>3. errCnt' \in 0..(errB + 1)
    BY <2>1, <2>2 DEF IInv, ErrorsOK
  <2>4. ending = "none"
    BY <2>1 DEF IInv, ResultOK, running, Final
  <2> QED
    BY <2>1, <2>2, <2>3, <2>4 DEF IInv, ErrorsOK, ErrorsBounded, DescriptorMatchesState, DataStates
<1>2. CASE EOT_Closed(c)
  <2>1. active = "EOT" /\ active' = "FirstByteStat" /\ cur' = "FirstByteStat"
    BY <1>2, GoToLeaf DEF EOT_Closed, NON_CAN, DataStates, cur
  <2>2. errCnt' = 0 /\ transferringFileD' = Closed /\ ending' = ending
    BY <1>2 DEF EOT_Closed, closeTransferredFile
  <2>4. ending = "none"
    BY <2>1 DEF IInv, ResultOK, running, Final
  <2> QED
    BY <2>1, <2>2, <2>4 DEF IInv, ErrorsOK, ErrorsBounded, DescriptorMatchesState, DataStates
<1>3. CASE FirstByteStat_EOT(c)
  <2>1. /\ active = "FirstByteStat" /\ active' = active /\ cur' = active /\ cur = active
        /\ errCnt < errB /\ errCnt' = errCnt + 1
        /\ astray' = astray /\ transferringFileD' = transferringFileD /\ ending' = ending
    BY <1>3 DEF FirstByteStat_EOT, Stays, chart, NotCancelling, ghosts, opened, result, cur
  <2> QED
    BY <2>1 DEF IInv, ErrorsOK, ErrorsBounded, DescriptorMatchesState, DataStates
<1>4. CASE EOT_CloseError(c) \/ CAN_Cancelled(c) \/ CancelAtByte(c)
  <2>1. \E e \in Endings \ {"EndOfSession", "ExcessiveEOTs"} : Finish(e)
    BY <1>4 DEF EOT_CloseError, CAN_Cancelled, CancelAtByte, Endings
  <2>2. errCnt' = errCnt /\ astray' = astray
    BY <1>4 DEF EOT_CloseError, CAN_Cancelled, CancelAtByte, NotCancelling, ghosts
  <2> QED
    BY <2>1, <2>2, FinishStep
<1>5. CASE FirstByteStat_ExcessiveEOTs(c)
  <2>1. /\ Finish("ExcessiveEOTs") /\ errCnt' = errCnt /\ astray' = astray
        /\ transferringFileD' = transferringFileD /\ cur = "FirstByteStat"
    BY <1>5 DEF FirstByteStat_ExcessiveEOTs, NotCancelling, ghosts, opened, cur
  <2>2. transferringFileD' = Closed \/ astray
    BY <2>1 DEF IInv, DescriptorMatchesState
  <2> QED
    BY <2>1, <2>2, FinishStep DEF Endings
<1>6. CASE FirstCan(c) \/ CAN_Resume(c)
  BY <1>6, CanStep DEF CAN_Resume
<1>7. CASE Ignored(c)
  BY <1>7, SameStep DEF Ignored, Stays, chart, NotCancelling, ghosts, opened, result, cur
<1> QED
  BY <1>1, <1>2, <1>3, <1>4, <1>5, <1>6, <1>7 DEF SER

LEMMA TimeStep ==
  ASSUME IInv, TM \/ KB_C
  PROVE  ErrorsOK' /\ DescriptorMatchesState'
<1>1. CASE CondTransientData_Answer
  <2>1. /\ active = "CondTransientData" /\ cur = active /\ active' = "FirstByteData" /\ cur' = "FirstByteData"
    BY <1>1, GoToData DEF CondTransientData_Answer, IInv, ChartOK, cur
  <2>2. /\ errCnt < errB /\ errCnt' = errCnt
        /\ astray' = astray /\ transferringFileD' = transferringFileD /\ ending' = ending
    BY <1>1 DEF CondTransientData_Answer, NotCancelling, ghosts, opened, result
  <2>3. ending = "none"
    BY <2>1 DEF IInv, ResultOK, running, Final
  <2> QED
    BY <2>1, <2>2, <2>3 DEF IInv, ErrorsOK, ErrorsBounded, DescriptorMatchesState, DataStates
<1>2. CASE Retry
  <2>1. /\ active \in Waiting /\ active' = active /\ cur' = active /\ cur = active
        /\ errCnt < errB /\ errCnt' = errCnt + 1
        /\ astray' = astray /\ transferringFileD' = transferringFileD /\ ending' = ending
    BY <1>2 DEF Retry, Stays, chart, NotCancelling, ghosts, opened, result, cur, Waiting, DataStates
  <2> QED
    BY <2>1 DEF IInv, ErrorsOK, ErrorsBounded, DescriptorMatchesState
<1>3. CASE CondTransientData_GivenUp \/ TopLevel_TM \/ CondTransientData_KB_C
  <2>1. \E e \in Endings \ {"EndOfSession", "ExcessiveEOTs"} : Finish(e)
    BY <1>3 DEF CondTransientData_GivenUp, TopLevel_TM, CondTransientData_KB_C, Endings
  <2>2. errCnt' = errCnt /\ astray' = astray
    BY <1>3 DEF CondTransientData_GivenUp, TopLevel_TM, CondTransientData_KB_C, NotCancelling, ghosts
  <2> QED
    BY <2>1, <2>2, FinishStep
<1>4. CASE AreWeDone_TM
  <2>1. /\ Finish("EndOfSession") /\ errCnt' = errCnt /\ astray' = astray
        /\ transferringFileD' = transferringFileD /\ cur = "AreWeDone"
    BY <1>4 DEF AreWeDone_TM, NotCancelling, ghosts, opened, cur
  <2>2. transferringFileD' = Closed \/ astray
    BY <2>1 DEF IInv, DescriptorMatchesState
  <2> QED
    BY <2>1, <2>2, FinishStep DEF Endings
<1>5. CASE CAN_TM
  BY <1>5, CanStep DEF CAN_TM
<1>6. CASE TopLevel_KB_C
  BY <1>6, SameStep DEF TopLevel_KB_C, Stays, chart, ghosts, opened, result, cur
<1> QED
  BY <1>1, <1>2, <1>3, <1>4, <1>5, <1>6 DEF TM, KB_C

-----------------------------------------------------------------------------
LEMMA InitIInv == Init => IInv
<1> SUFFICES ASSUME Init PROVE IInv
  OBVIOUS
<1>1. active = "FirstByteStat" /\ cur = "FirstByteStat" /\ hist = [s \in States |-> NoState]
  BY StartState DEF Init, cur
<1>2. ChartOK
  BY <1>1 DEF Init, ChartOK, HistoryOK, States, Super, NON_CAN, DataStates
<1>3. ResultOK
  BY DEF Init, ResultOK, Endings
<1>7. FlagsOK /\ AnswerOK
  BY <1>1 DEF Init, FlagsOK, AnswerOK
<1>4. BlocksOK
  <2>1. C \in ControlBytes /\ Byte(C) \in Messages
    BY ByteIsMessage DEF ControlBytes
  <2>2. NoBlk \in Messages
    BY DEF NoBlk, Blk, Messages
  <2> QED
    BY <2>1, <2>2 DEF Init, BlocksOK
<1>5. FileOK
  BY DEF Init, FileOK, SizeExact
<1>6. ErrorsOK /\ DescriptorMatchesState
  BY <1>1 DEF Init, ErrorsOK, ErrorsBounded, DescriptorMatchesState, DataStates
<1> QED
  BY <1>2, <1>3, <1>4, <1>5, <1>6, <1>7 DEF IInv

LEMMA StepIInv == IInv /\ [AnyLine]_vars => IInv'
<1> SUFFICES ASSUME IInv, [AnyLine]_vars PROVE IInv'
  OBVIOUS
<1>1. CASE AnyLine
  <2>1. FlagsOK' /\ AnswerOK' /\ FileOK'
    BY <1>1, StepFlags, StepFile
  <2>2. ASSUME NEW q \in Qualities, NEW m \in SentBlocks, SER_SOH(q, m) PROVE IInv'
    BY <2>1, <2>2, StatChart, DataChart, StatBlocks, StatStep, DataStep DEF SER_SOH, IInv
  <2>3. ASSUME NEW c, SER(c) PROVE IInv'
    BY <2>1, <2>3, ByteChart, OtherBlocks, ByteStep DEF IInv
  <2>4. CASE TM \/ KB_C
    BY <2>1, <2>4, TimeChart, OtherBlocks, TimeStep DEF IInv
  <2> QED
    BY <1>1, <2>2, <2>3, <2>4 DEF AnyLine
<1>2. CASE UNCHANGED vars
  BY <1>2 DEF vars, chart, timers, judgement, opened, contents, result, ghosts, IInv, ChartOK, HistoryOK,
              ResultOK, FlagsOK, AnswerOK, BlocksOK, FileOK, SizeExact, ErrorsOK, ErrorsBounded,
              DescriptorMatchesState, running, cur
<1> QED
  BY <1>1, <1>2

(* What every step of the receiver keeps, whatever the line does: where    *)
(* the chart's history can point, how far the errors can pass their bound  *)
(* and where, what the descriptor and the sizes say in each state.         *)
THEOREM ReceiverInvariant == Spec => []IInv
<1>1. [Next]_vars => [AnyLine]_vars
  BY DEF Next, AnyLine
<1> QED
  BY <1>1, InitIInv, StepIInv, PTL DEF Spec

(* Every variable of the receiver keeps its type; the error counter passes *)
(* its bound by two at most.                                               *)
THEOREM TypeCorrect == Spec => []TypeOK
<1>1. IInv => TypeOK
  BY DEF IInv, ChartOK, HistoryOK, ResultOK, FlagsOK, BlocksOK, FileOK, ErrorsOK, TypeOK, States
<1> QED
  BY <1>1, ReceiverInvariant, PTL

(* The padding of the last chunk never reaches a file: what was written    *)
(* and what is still expected add up to the announced size, for every      *)
(* size of file and chunk, a garbage one included.                         *)
THEOREM SizesCorrect == Spec => []SizeExact
<1>1. IInv => SizeExact
  BY DEF IInv, FileOK
<1> QED
  BY <1>1, ReceiverInvariant, PTL

(* Unless a stray CAN fell in the data phase, a file is open exactly while *)
(* its blocks are received, and a session that ends well leaves none open. *)
THEOREM DescriptorSafe == Spec => []DescriptorMatchesState
<1>1. IInv => DescriptorMatchesState
  BY DEF IInv
<1> QED
  BY <1>1, ReceiverInvariant, PTL

(* Errors in a row stay within the bound wherever a retry would answer     *)
(* another one, for every bound.                                           *)
THEOREM ErrorsStayBounded == Spec => []ErrorsBounded
<1>1. IInv => ErrorsBounded
  BY DEF IInv, ErrorsOK
<1> QED
  BY <1>1, ReceiverInvariant, PTL

(* Once cancelled at the keyboard the receiver takes no data any more: an  *)
(* answer that was waiting to be given is not, and no chunk is written.    *)
THEOREM CancelStopsWrites == Spec => NoWriteAfterCancel
<1>1. IInv /\ [Next]_vars => [KbCan => UNCHANGED <<disk, bytesRemaining>>]_vars
  <2> SUFFICES ASSUME IInv, Next, KbCan PROVE UNCHANGED <<disk, bytesRemaining>>
    BY DEF vars, contents
  <2>1. ASSUME NEW q \in Qualities, NEW m \in SentBlocks PROVE ~ SER_SOH(q, m)
    BY DEF SER_SOH, StatBlock, Stat_Rejected, Stat_NoMoreFiles, Stat_FileOpened, Stat_CreatError,
           Stat_SizeThrows, Stat_GivenUp, StatTaken, StatJudged, DataBlock
  <2>2. ~ CondTransientData_Answer
    BY DEF CondTransientData_Answer, IInv, AnswerOK
  <2>3. ASSUME NEW c, SER(c) PROVE UNCHANGED contents
    BY <2>3 DEF SER, FirstByteData_EOT, EOT_Closed, EOT_CloseError, FirstByteStat_EOT,
                FirstByteStat_ExcessiveEOTs, FirstCan, CAN_Resume, CAN_Cancelled, Ignored, CancelAtByte, Resume
  <2>4. CASE TM \/ KB_C
    BY <2>2, <2>4 DEF TM, CondTransientData_GivenUp, CAN_TM, Resume, Retry, AreWeDone_TM, TopLevel_TM, KB_C,
                      CondTransientData_KB_C, TopLevel_KB_C, contents
  <2> QED
    BY <2>1, <2>3, <2>4 DEF Next, contents
<1> QED
  BY <1>1, ReceiverInvariant, PTL DEF Spec, NoWriteAfterCancel
=============================================================================
