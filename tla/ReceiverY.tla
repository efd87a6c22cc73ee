------------------------------ MODULE ReceiverY ------------------------------
(***************************************************************************)
(* The YMODEM receiver: the context ReceiverY (ReceiverY.cpp) driven by    *)
(* its statechart (yReceiverSS.cpp).  A step is one event posted by        *)
(* PeerY::transferCommon and run to completion, the transient states that  *)
(* post CONT included.  When the byte is SOH the handler reads the rest of *)
(* the block too; its quality is how getRestBlk finds it.                  *)
(*                                                                         *)
(* The environment is a line with a sender behind it that keeps to what    *)
(* SenderYProofs shows of SenderY: blocks go on in order (OrderedBlocks),  *)
(* EOT comes after a file's last block (EotSafe) and the file is closed by *)
(* then (DescriptorSafe).  Any block may be lost or arrive damaged, and    *)
(* other bytes arrive at any time (Arrives, ByteArrives).  YSession checks *)
(* these assumptions against the sender itself.                            *)
(*                                                                         *)
(* out holds what the last step wrote to the medium, and purged tells      *)
(* whether it called purge(), which discards what is on the line.          *)
(***************************************************************************)
EXTENDS YModem

CONSTANTS
  ZeroFirst,     \* the <<file, chunk>> whose data starts with a zero byte
  GarbageSizes,  \* what stoi may make of file data taken for a file size
  MaxDone        \* bound of the model: files completed in an open environment

ASSUME ReceiverAssumption ==
  /\ ZeroFirst \subseteq Files \X (Nat \ {0})
  /\ GarbageSizes \subseteq Nat
  /\ MaxDone \in Nat

VARIABLES
  active, hist,      \* active leaf, Final once stopped; the runtime's history
  timer, held,       \* what armed absoluteTimeout and holdTimeout
  errCnt, KbCan,
  closeProb, anotherFile, goodBlk, goodBlk1st, syncLoss,
  bytesRemaining, numLastGoodBlk,
  rcvBlk,            \* the block received last
  transferringFileD,
  fileName,          \* name creat() was given last, 0 if it is no file's
  disk,              \* disk[f]: the blocks whose chunks were written to f
  declared, stored,  \* ghost: bytes announced for, and written to, the open file
  done, ending,      \* result: how many "Done, " and what ended the session
  out, purged,
  interrupted,       \* ghost: state and timer a CAN interrupted
  astray             \* ghost: a stray CAN sent the chart to another state

chart == <<active, hist>>
timers == <<timer, held>>
judgement == <<goodBlk, goodBlk1st, syncLoss, numLastGoodBlk, rcvBlk>>
opened == <<transferringFileD, fileName>>
contents == <<bytesRemaining, disk, declared, stored>>
result == <<done, ending>>
ghosts == <<interrupted, astray>>
vars == <<chart, timers, errCnt, KbCan, closeProb, anotherFile, judgement,
          opened, contents, result, out, purged, ghosts>>

(***************************************************************************)
(* The state tree.  The CondTransient states other than                    *)
(* CondTransientData post CONT on entry and are left within the same step. *)
(***************************************************************************)
DataStates == {"FirstByteData", "EOT"}
NON_CAN == DataStates \cup {"FirstByteStat", "CondTransientData", "AreWeDone"}
Super == {"DataCancelable", "NON_CAN", "TopLevel"}
Final == "Final"
NoState == "none"

SM == INSTANCE SmartState WITH
  States <- NON_CAN \cup {"CAN"} \cup Super,
  Parent <- [s \in NON_CAN \cup {"CAN"} \cup Super |->
              IF s \in DataStates THEN "DataCancelable"
              ELSE IF s \in NON_CAN \cup {"DataCancelable"} THEN "NON_CAN"
              ELSE IF s = "TopLevel" THEN NoState ELSE "TopLevel"],
  FirstSub <- [s \in NON_CAN \cup {"CAN"} \cup Super |->
                IF s = "TopLevel" THEN "NON_CAN"
                ELSE IF s = "NON_CAN" THEN "FirstByteStat"
                ELSE IF s = "DataCancelable" THEN "FirstByteData" ELSE NoState],
  WithHistory <- {"TopLevel", "NON_CAN"},
  None <- NoState

Endings == {"none", "EndOfSession", "SndCancelled", "KbCancelled",
            "KbCancelledDelayed", "KbCancelledImmediate", "ExcessiveErrors",
            "ExcessiveEOTs", "LossOfSync", "CreatError", "CloseError",
            "Terminated"}

(* What getRestBlk can find of a block: too few bytes; too many, or a      *)
(* number that does not match its complement; a wrong CRC; or a good one.  *)
Qualities == {"short", "bad", "badCRC", "good"}

(* Every block the sender can make.                                        *)
SentBlocks == {Blk(0, 0, 0)} \cup
  UNION {{Blk(k % NumMod, f, k) : k \in 0..Chunks[f]} : f \in Files}

running == active # Final

GoTo(caller, target) ==
  /\ hist' = SM!RecordExit(hist, active, caller)
  /\ active' = SM!Enter(hist', target)

Finish(end) ==
  /\ active' = Final
  /\ ending' = end
  /\ UNCHANGED <<hist, done>>

Stays == UNCHANGED chart

(***************************************************************************)
(* The context's operations.                                               *)
(***************************************************************************)
tm(t) == timer' = t /\ UNCHANGED held
tmPush(t) == held' = timer /\ timer' = t
tmPop == timer' = held /\ UNCHANGED held

send(bytes) == out' = [i \in DOMAIN bytes |-> Byte(bytes[i])]
cans == out' = Cans
Silent == out' = <<>>
purge == purged' = TRUE
NoPurge == purged' = FALSE

(* Mutants: a repeated block counts as new; no number loses the            *)
(* synchronization.                                                        *)
getRestBlk_RepeatIsNew(q, m) ==
  LET first == m.num \in {numLastGoodBlk, (numLastGoodBlk + 1) % NumMod}
      lost == q \in {"badCRC", "good"} /\ ~first
      good == q = "good" /\ ~lost
  IN /\ rcvBlk' = m
     /\ syncLoss' = (syncLoss \/ lost)
     /\ goodBlk' = good
     /\ goodBlk1st' = (good /\ first)
     /\ numLastGoodBlk' = IF good /\ first THEN m.num ELSE numLastGoodBlk
     /\ purged' = (q # "short" /\ ~good)

getRestBlk_NeverLost(q, m) ==
  LET first == m.num = (numLastGoodBlk + 1) % NumMod
      good == q = "good"
  IN /\ rcvBlk' = m
     /\ UNCHANGED syncLoss
     /\ goodBlk' = good
     /\ goodBlk1st' = (good /\ first)
     /\ numLastGoodBlk' = IF good /\ first THEN m.num ELSE numLastGoodBlk
     /\ purged' = (q # "short" /\ ~good)

(* Judges a block.  A number that is neither the next nor the last one, or *)
(* the last one while no file is open, is a fatal loss of synchronization, *)
(* found before the CRC is looked at.                                      *)
getRestBlk(q, m) ==
  LET first == m.num = (numLastGoodBlk + 1) % NumMod
      lost == /\ q \in {"badCRC", "good"} /\ ~first
              /\ transferringFileD = Closed \/ m.num # numLastGoodBlk
      good == q = "good" /\ ~lost
  IN /\ rcvBlk' = m
     /\ syncLoss' = (syncLoss \/ lost)
     /\ goodBlk' = good
     /\ goodBlk1st' = (good /\ first)
     /\ numLastGoodBlk' = IF good /\ first THEN m.num ELSE numLastGoodBlk
     /\ purged' = (q # "short" /\ ~good)

(* Mutant: the whole last chunk is written, padding included.              *)
writeChunk_Padded ==
  IF bytesRemaining <= 0 THEN UNCHANGED contents
  ELSE /\ bytesRemaining' = bytesRemaining - ChunkSz
       /\ stored' = stored + ChunkSz
       /\ disk' = [disk EXCEPT ![fileName] = Append(@, rcvBlk)]
       /\ UNCHANGED declared

(* Writes the chunk, cut to the bytes still expected.                      *)
writeChunk ==
  IF bytesRemaining <= 0 THEN UNCHANGED contents
  ELSE /\ bytesRemaining' = bytesRemaining - ChunkSz
       /\ stored' = stored + IF bytesRemaining' < 0 THEN ChunkSz + bytesRemaining'
                             ELSE ChunkSz
       /\ disk' = [disk EXCEPT ![fileName] = Append(@, rcvBlk)]
       /\ UNCHANGED declared

(* The data of a block taken for a stat block: whether it names a file.    *)
NamesFile(m) == IF m.chunk = 0 THEN m.file # 0 ELSE <<m.file, m.chunk>> \notin ZeroFirst

(* Creates (and empties) the file named in the block, and takes its size.  *)
(* File data in its place names some other file and any size.              *)
openFileForTransfer(m) ==
  /\ transferringFileD' \in {Descriptor, Closed}
  /\ fileName' = IF m.chunk = 0 THEN m.file ELSE 0
  /\ disk' = IF transferringFileD' = Closed THEN disk
             ELSE [disk EXCEPT ![fileName'] = <<>>]
  /\ bytesRemaining' \in IF m.chunk = 0 THEN {FileSize(m.file)} ELSE GarbageSizes
  /\ declared' = bytesRemaining' /\ stored' = 0

(* close() may fail; then the descriptor is kept.                          *)
closeTransferredFile ==
  IF transferringFileD = Closed
  THEN UNCHANGED <<closeProb, transferringFileD, numLastGoodBlk>>
  ELSE \/ /\ closeProb' = 0 /\ transferringFileD' = Closed
          /\ numLastGoodBlk' = NumMod - 1
       \/ closeProb' = -1 /\ UNCHANGED <<transferringFileD, numLastGoodBlk>>

NothingJudged == UNCHANGED <<goodBlk, goodBlk1st, syncLoss, rcvBlk>>
NotCancelling == UNCHANGED <<KbCan, ghosts>>

(***************************************************************************)
(* Start: TopLevel's onEntry sends the first 'C'.                          *)
(***************************************************************************)
Init ==
  /\ active = SM!Enter(SM!NoHistory, "TopLevel")
  /\ hist = SM!NoHistory
  /\ timer = "SOH" /\ held = "none"
  /\ errCnt = 0 /\ KbCan = FALSE
  /\ closeProb = -1 /\ anotherFile = TRUE
  /\ goodBlk = FALSE /\ goodBlk1st = FALSE /\ syncLoss = FALSE
  /\ numLastGoodBlk = NumMod - 1 /\ rcvBlk = NoBlk
  /\ transferringFileD = Closed /\ fileName = 0
  /\ bytesRemaining = 0 /\ declared = 0 /\ stored = 0
  /\ disk = [f \in 0..NumFiles |-> <<>>]
  /\ done = 0 /\ ending = "none"
  /\ out = <<Byte(C)>> /\ purged = FALSE
  /\ interrupted = <<"none", "none">> /\ astray = FALSE

(***************************************************************************)
(* A block where a stat block is due: FirstByteStat and AreWeDone, with    *)
(* the transient states CondlTransientStat, -Check and -Open.              *)
(***************************************************************************)
StatErrors ==
  IF active = "AreWeDone" THEN errCnt + 1 ELSE IF closeProb = 0 THEN 0 ELSE errCnt

StatJudged(q, m) ==
  /\ active \in {"FirstByteStat", "AreWeDone"} /\ ~KbCan
  /\ getRestBlk(q, m)
  /\ closeProb' = IF active = "FirstByteStat" /\ closeProb = 0 THEN -1 ELSE closeProb
  /\ NotCancelling

StatTaken(q, m) ==
  /\ StatJudged(q, m)
  /\ ~syncLoss' /\ StatErrors < errB /\ goodBlk'
  /\ anotherFile' = NamesFile(m)

Stat_Rejected(q, m) ==
  /\ StatJudged(q, m)
  /\ ~syncLoss' /\ StatErrors < errB /\ ~goodBlk'
  /\ send(<<NAK>>) /\ errCnt' = StatErrors + 1 /\ tm("SOH")
  /\ GoTo(active, "FirstByteStat")
  /\ UNCHANGED <<anotherFile, opened, contents, result>>

Stat_NoMoreFiles(q, m) ==
  /\ StatTaken(q, m) /\ ~anotherFile'
  /\ send(<<ACK>>) /\ errCnt' = StatErrors /\ tm("SOH")
  /\ GoTo(active, "AreWeDone")
  /\ UNCHANGED <<opened, contents, result>>

Stat_FileOpened(q, m) ==
  /\ StatTaken(q, m) /\ anotherFile'
  /\ openFileForTransfer(m) /\ transferringFileD' # Closed
  /\ send(<<ACK, C>>) /\ errCnt' = StatErrors /\ tm("SOH")
  /\ GoTo(active, "FirstByteData")
  /\ UNCHANGED result

Stat_CreatError(q, m) ==
  /\ StatTaken(q, m) /\ anotherFile'
  /\ openFileForTransfer(m) /\ transferringFileD' = Closed
  /\ cans /\ Finish("CreatError")
  /\ errCnt' = StatErrors /\ UNCHANGED timers

(* stoi() throws when file data holds no number where the size is due, and *)
(* nothing catches it: the process ends.                                   *)
Stat_SizeThrows(q, m) ==
  /\ StatTaken(q, m) /\ anotherFile' /\ m.chunk > 0
  /\ Silent /\ Finish("Terminated")
  /\ errCnt' = StatErrors /\ UNCHANGED <<timers, opened, contents>>

Stat_GivenUp(q, m) ==
  /\ StatJudged(q, m)
  /\ syncLoss' \/ StatErrors >= errB
  /\ cans /\ Finish(IF syncLoss' THEN "LossOfSync" ELSE "ExcessiveErrors")
  /\ errCnt' = StatErrors
  /\ UNCHANGED <<timers, anotherFile, opened, contents>>

StatBlock(q, m) ==
  \/ Stat_Rejected(q, m) \/ Stat_NoMoreFiles(q, m) \/ Stat_FileOpened(q, m)
  \/ Stat_CreatError(q, m) \/ Stat_SizeThrows(q, m) \/ Stat_GivenUp(q, m)

(***************************************************************************)
(* A block where a data block is due.  Its answer waits in                 *)
(* CondTransientData for a timeout of zero: the last moment at which a     *)
(* keyboard cancel can take the answer's place.                            *)
(***************************************************************************)
DataBlock(q, m) ==
  /\ active \in DataStates /\ ~KbCan
  /\ getRestBlk(q, m)
  /\ errCnt' = IF goodBlk1st' THEN 0 ELSE errCnt + 1
  /\ anotherFile' = (anotherFile /\ ~goodBlk1st')
  /\ GoTo("DataCancelable", "CondTransientData") /\ tm("zero")
  /\ Silent /\ NotCancelling
  /\ UNCHANGED <<closeProb, opened, contents, result>>

(* Mutant: the answer ignores the error bound.                             *)
CondTransientData_Answer_Unbounded ==
  /\ active = "CondTransientData"
  /\ ~syncLoss
  /\ send(IF ~goodBlk THEN <<NAK>> ELSE IF anotherFile THEN <<ACK, C>> ELSE <<ACK>>)
  /\ IF goodBlk1st THEN writeChunk ELSE UNCHANGED contents
  /\ GoTo("CondTransientData", "DataCancelable") /\ tm("SOH")
  /\ NoPurge /\ NotCancelling
  /\ UNCHANGED <<errCnt, closeProb, anotherFile, judgement, opened, result>>

CondTransientData_Answer ==
  /\ active = "CondTransientData"
  /\ ~syncLoss /\ errCnt < errB
  /\ send(IF ~goodBlk THEN <<NAK>> ELSE IF anotherFile THEN <<ACK, C>> ELSE <<ACK>>)
  /\ IF goodBlk1st THEN writeChunk ELSE UNCHANGED contents
  /\ GoTo("CondTransientData", "DataCancelable") /\ tm("SOH")
  /\ NoPurge /\ NotCancelling
  /\ UNCHANGED <<errCnt, closeProb, anotherFile, judgement, opened, result>>

CondTransientData_GivenUp ==
  /\ active = "CondTransientData"
  /\ syncLoss \/ errCnt >= errB
  /\ cans /\ closeTransferredFile
  /\ Finish(IF syncLoss THEN "LossOfSync" ELSE "ExcessiveErrors")
  /\ NoPurge /\ NotCancelling /\ NothingJudged
  /\ UNCHANGED <<timers, errCnt, anotherFile, fileName, contents>>

(* Mutant: the cancel waits for the answer to be given.                    *)
CondTransientData_KB_C_Flag ==
  /\ active = "CondTransientData"
  /\ KbCan' = TRUE
  /\ Silent /\ Stays /\ NoPurge
  /\ UNCHANGED <<timers, errCnt, closeProb, anotherFile, judgement, opened,
                 contents, result, ghosts>>

CondTransientData_KB_C ==
  /\ active = "CondTransientData"
  /\ cans /\ Finish("KbCancelledImmediate") /\ KbCan' = TRUE
  /\ NoPurge
  /\ UNCHANGED <<timers, errCnt, closeProb, anotherFile, judgement, opened,
                 contents, ghosts>>

(***************************************************************************)
(* The end of a file: the first EOT is questioned, the second one answered *)
(* (CondTransientEOT), further ones only as long as the bound allows.      *)
(***************************************************************************)
FirstByteData_EOT(c) ==
  /\ active = "FirstByteData" /\ c = EOT /\ ~KbCan
  /\ purge /\ send(<<NAK>>) /\ errCnt' = errCnt + 1 /\ tm("SOH")
  /\ GoTo("FirstByteData", "EOT")
  /\ NotCancelling
  /\ UNCHANGED <<closeProb, anotherFile, judgement, opened, contents, result>>

(* Mutant: whether close() failed is not looked at.                        *)
EOT_Closed_Unchecked(c) ==
  /\ active = "EOT" /\ c = EOT
  /\ closeTransferredFile
  /\ done < MaxDone
  /\ send(<<ACK, C>>) /\ done' = done + 1 /\ errCnt' = 0 /\ tm("SOH")
  /\ GoTo("EOT", "FirstByteStat")
  /\ NoPurge /\ NotCancelling /\ NothingJudged
  /\ UNCHANGED <<anotherFile, fileName, contents, ending>>

EOT_Closed(c) ==
  /\ active = "EOT" /\ c = EOT
  /\ closeTransferredFile /\ closeProb' = 0
  /\ done < MaxDone
  /\ send(<<ACK, C>>) /\ done' = done + 1 /\ errCnt' = 0 /\ tm("SOH")
  /\ GoTo("EOT", "FirstByteStat")
  /\ NoPurge /\ NotCancelling /\ NothingJudged
  /\ UNCHANGED <<anotherFile, fileName, contents, ending>>

EOT_CloseError(c) ==
  /\ active = "EOT" /\ c = EOT
  /\ closeTransferredFile /\ closeProb' # 0
  /\ cans /\ Finish("CloseError")
  /\ NoPurge /\ NotCancelling /\ NothingJudged
  /\ UNCHANGED <<timers, errCnt, anotherFile, fileName, contents>>

FirstByteStat_EOT(c) ==
  /\ active = "FirstByteStat" /\ c = EOT /\ closeProb = 0
  /\ errCnt < errB
  /\ send(<<ACK, C>>) /\ errCnt' = errCnt + 1 /\ tm("SOH")
  /\ Stays /\ NoPurge /\ NotCancelling
  /\ UNCHANGED <<closeProb, anotherFile, judgement, opened, contents, result>>

FirstByteStat_ExcessiveEOTs(c) ==
  /\ active = "FirstByteStat" /\ c = EOT /\ closeProb = 0
  /\ errCnt >= errB
  /\ cans /\ Finish("ExcessiveEOTs")
  /\ NoPurge /\ NotCancelling
  /\ UNCHANGED <<timers, errCnt, closeProb, anotherFile, judgement, opened, contents>>

(***************************************************************************)
(* CAN: as in the sender, a second one must follow.  But the history taken *)
(* when CAN interrupts is NON_CAN's, which forgets DataCancelable's        *)
(* substates, so the data phase is resumed in another state.               *)
(***************************************************************************)
FirstCan(c) ==
  /\ active \in NON_CAN \ {"CondTransientData"} /\ c = CAN
  /\ tmPush("2CHAR") /\ GoTo("NON_CAN", "CAN")
  /\ interrupted' = <<active, timer>> /\ UNCHANGED astray
  /\ Silent /\ NoPurge
  /\ UNCHANGED <<errCnt, KbCan, closeProb, anotherFile, judgement, opened,
                 contents, result>>

Resume ==
  /\ active = "CAN" /\ ~KbCan
  /\ tmPop /\ GoTo("CAN", "NON_CAN")
  /\ astray' = (astray \/ active' # interrupted[1])
  /\ Silent
  /\ UNCHANGED <<errCnt, KbCan, closeProb, anotherFile, judgement, opened,
                 contents, result, interrupted>>

CAN_Resume(c) == c # CAN /\ Resume /\ purge
CAN_TM == Resume /\ NoPurge

CAN_Cancelled(c) ==
  /\ active = "CAN" /\ c = CAN
  /\ closeTransferredFile /\ Finish("SndCancelled")
  /\ Silent /\ NoPurge /\ NotCancelling /\ NothingJudged
  /\ UNCHANGED <<timers, errCnt, anotherFile, fileName, contents>>

(***************************************************************************)
(* Bytes no leaf takes.                                                    *)
(***************************************************************************)
LeafTakes(c) ==
  \/ active = "CondTransientData"
  \/ active \in DataStates \cup {"FirstByteStat", "AreWeDone"} /\ c = SOH /\ ~KbCan
  \/ active = "FirstByteData" /\ c = EOT /\ ~KbCan
  \/ active = "EOT" /\ c = EOT
  \/ active = "FirstByteStat" /\ c = EOT /\ closeProb = 0
  \/ active = "CAN" /\ (c = CAN \/ ~KbCan)

Ignored(c) ==
  /\ \/ active = "CondTransientData"
     \/ active \in NON_CAN /\ ~LeafTakes(c) /\ c # CAN /\ ~KbCan
  /\ purge /\ Silent /\ Stays /\ NotCancelling
  /\ UNCHANGED <<timers, errCnt, closeProb, anotherFile, judgement, opened,
                 contents, result>>

(* TopLevel: a keyboard cancel takes effect when the sender next speaks.   *)
(* The file is not closed.                                                 *)
CancelAtByte(c) ==
  /\ running /\ ~LeafTakes(c)
  /\ active \in NON_CAN => c # CAN
  /\ KbCan
  /\ purge /\ cans /\ Finish("KbCancelledDelayed")
  /\ NotCancelling
  /\ UNCHANGED <<timers, errCnt, closeProb, anotherFile, judgement, opened, contents>>

SER(c) ==
  \/ FirstByteData_EOT(c) \/ EOT_Closed(c) \/ EOT_CloseError(c)
  \/ FirstByteStat_EOT(c) \/ FirstByteStat_ExcessiveEOTs(c)
  \/ FirstCan(c) \/ CAN_Resume(c) \/ CAN_Cancelled(c)
  \/ Ignored(c) \/ CancelAtByte(c)

SER_SOH(q, m) == StatBlock(q, m) \/ DataBlock(q, m)

(* Mutants: retries without a bound, and retries that are not counted.     *)
Retry_Unbounded ==
  /\ active \in DataStates \cup {"FirstByteStat"} /\ ~KbCan
  /\ send(IF transferringFileD = Closed THEN <<C>> ELSE <<NAK>>)
  /\ errCnt' = errCnt + 1 /\ tm("SOH")
  /\ Stays /\ NoPurge /\ NotCancelling
  /\ UNCHANGED <<closeProb, anotherFile, judgement, opened, contents, result>>

Retry_NotCounted ==
  /\ active \in DataStates \cup {"FirstByteStat"}
  /\ errCnt < errB /\ ~KbCan
  /\ send(IF transferringFileD = Closed THEN <<C>> ELSE <<NAK>>)
  /\ tm("SOH")
  /\ Stays /\ NoPurge /\ NotCancelling
  /\ UNCHANGED <<errCnt, closeProb, anotherFile, judgement, opened, contents, result>>

(***************************************************************************)
(* Timeouts and the keyboard.                                              *)
(***************************************************************************)
Retry ==
  /\ active \in DataStates \cup {"FirstByteStat"}
  /\ errCnt < errB /\ ~KbCan
  /\ send(IF transferringFileD = Closed THEN <<C>> ELSE <<NAK>>)
  /\ errCnt' = errCnt + 1 /\ tm("SOH")
  /\ Stays /\ NoPurge /\ NotCancelling
  /\ UNCHANGED <<closeProb, anotherFile, judgement, opened, contents, result>>

AreWeDone_TM ==
  /\ active = "AreWeDone"
  /\ Silent /\ Finish("EndOfSession")
  /\ NoPurge /\ NotCancelling
  /\ UNCHANGED <<timers, errCnt, closeProb, anotherFile, judgement, opened, contents>>

(* Mutant: no timeout counts while a second CAN is awaited.                *)
TopLevel_TM_NotInCAN ==
  /\ running /\ active \notin {"CondTransientData", "AreWeDone", "CAN"}
  /\ errCnt >= errB \/ KbCan
  /\ cans /\ Finish(IF KbCan THEN "KbCancelled" ELSE "ExcessiveErrors")
  /\ NoPurge /\ NotCancelling
  /\ UNCHANGED <<timers, errCnt, closeProb, anotherFile, judgement, opened, contents>>

TopLevel_TM ==
  /\ running /\ active \notin {"CondTransientData", "AreWeDone"}
  /\ IF active = "CAN" THEN KbCan ELSE errCnt >= errB \/ KbCan
  /\ cans /\ Finish(IF KbCan THEN "KbCancelled" ELSE "ExcessiveErrors")
  /\ NoPurge /\ NotCancelling
  /\ UNCHANGED <<timers, errCnt, closeProb, anotherFile, judgement, opened, contents>>

TM ==
  \/ CondTransientData_Answer \/ CondTransientData_GivenUp
  \/ CAN_TM \/ Retry \/ AreWeDone_TM \/ TopLevel_TM

TopLevel_KB_C ==
  /\ running /\ active # "CondTransientData"
  /\ KbCan' = TRUE
  /\ Silent /\ Stays /\ NoPurge
  /\ UNCHANGED <<timers, errCnt, closeProb, anotherFile, judgement, opened,
                 contents, result, ghosts>>

KB_C == CondTransientData_KB_C \/ TopLevel_KB_C

(* What a sender that keeps to its order puts on the line.  It may go on   *)
(* before the receiver answers, even past a block that was lost (the medium *)
(* makes up ACKs), but goes on to a new file only when the last block of   *)
(* the one before was received, and sends nothing again of a file that is  *)
(* done, nor, once its EOTs were answered, of the one it has closed.       *)
MayFollow(m) ==
  /\ Follows(rcvBlk, m)
  /\ m.chunk = 0 => done = rcvBlk.file \/ numLastGoodBlk = rcvBlk.num
JustClosed == active = "FirstByteStat" /\ closeProb = 0
Arrives(m) ==
  \/ /\ m = rcvBlk /\ (m.file > 0 => done < m.file)
     /\ JustClosed => m.chunk = 0
  \/ MayFollow(m)
  \/ m.chunk > 0 /\ \E x \in SentBlocks : MayFollow(x) /\ Follows(x, m)

(* A second EOT in a row is one.  A single one may also be the number of   *)
(* block 4 that lost its SOH: the line cannot lose a byte again so soon.   *)
ByteArrives(c) == c = EOT => active = "FirstByteData" \/ LastOfFile(rcvBlk)

Next ==
  \/ \E c \in ControlBytes \cup {SOH} : ByteArrives(c) /\ SER(c)
  \/ \E q \in Qualities, m \in SentBlocks : Arrives(m) /\ SER_SOH(q, m)
  \/ TM \/ KB_C

Spec == Init /\ [][Next]_vars

(* Timeouts are not starved: bytes the chart does not answer leave the     *)
(* absolute timeout as it is, and the answered ones are counted.           *)
FairSpec == Spec /\ WF_vars(TM)

-----------------------------------------------------------------------------
(***************************************************************************)
(* Properties.                                                             *)
(***************************************************************************)
TypeOK ==
  /\ active \in NON_CAN \cup {"CAN", Final}
  /\ hist \in [NON_CAN \cup {"CAN"} \cup Super -> NON_CAN \cup {NoState}]
  /\ timer \in {"SOH", "zero", "2CHAR"} /\ held \in {"none", "SOH"}
  /\ errCnt \in 0..(errB + 2) /\ KbCan \in BOOLEAN
  /\ closeProb \in {0, -1} /\ anotherFile \in BOOLEAN
  /\ goodBlk \in BOOLEAN /\ goodBlk1st \in BOOLEAN /\ syncLoss \in BOOLEAN
  /\ numLastGoodBlk \in 0..(NumMod - 1) /\ rcvBlk \in Messages
  /\ transferringFileD \in {Descriptor, Closed} /\ fileName \in 0..NumFiles
  /\ bytesRemaining \in Int /\ declared \in Nat /\ stored \in Nat
  /\ disk \in [0..NumFiles -> Seq(Messages)]
  /\ done \in 0..MaxDone /\ ending \in Endings
  /\ out \in Seq(Messages) /\ purged \in BOOLEAN
  /\ interrupted \in (NON_CAN \cup {"none"}) \X {"none", "SOH"}
  /\ astray \in BOOLEAN

(* The state the chart is in, or that a pending CAN interrupted.           *)
cur == IF active = "CAN" THEN interrupted[1] ELSE active

(* A data block is acknowledged only once its chunk is in the file (or all *)
(* bytes the stat block announced are).                                    *)
BlockStored ==
  \/ bytesRemaining <= 0
  \/ disk[fileName] # <<>> /\ disk[fileName][Len(disk[fileName])].num = rcvBlk.num
AcksDataBlock ==
  /\ out' \in {<<Byte(ACK)>>, <<Byte(ACK), Byte(C)>>}
  /\ active' \in {"FirstByteData", "AreWeDone"} /\ rcvBlk'.chunk > 0

(* "This is an indication of when a block should be written to disk"       *)
(* (ReceiverY.cpp, of goodBlk1st).  The code breaks it after a stray CAN:  *)
(* a data block is taken for a stat block, acknowledged and never written. *)
AckedIsStored == [][AcksDataBlock => BlockStored']_vars

(* The same in every session in which no stray CAN fell in the data phase. *)
AckedIsStoredUnlessAstray == [][AcksDataBlock /\ ~astray' => BlockStored']_vars

(* What is on disk of a file is a prefix of that file: its chunks in       *)
(* order, none twice and none left out, however blocks are repeated or     *)
(* damaged, wherever CANs fall, and across the wrap of the block number    *)
(* (errors allowed in a row skip fewer blocks than a wrap takes).          *)
DiskHoldsPrefix ==
  \A f \in Files : \A i \in DOMAIN disk[f] : disk[f][i] = Blk(i % NumMod, f, i)

(* Bytes written and bytes still expected add up to the announced size:    *)
(* the padding of the last chunk never reaches the file.                   *)
SizeExact ==
  /\ stored + (IF bytesRemaining > 0 THEN bytesRemaining ELSE 0) = declared
  /\ bytesRemaining > -ChunkSz

(* A file is open exactly while its blocks are received, and so no file is *)
(* left open by a session that ends well: EndOfSession, ExcessiveEOTs.     *)
DescriptorMatchesState ==
  ~astray =>
    /\ cur \in {"FirstByteStat", "AreWeDone"} => transferringFileD = Closed
    /\ cur \in DataStates \cup {"CondTransientData"} => transferringFileD = Descriptor
    /\ ending \in {"EndOfSession", "ExcessiveEOTs"} => transferringFileD = Closed

(* Errors in a row stay within the bound wherever another one would be     *)
(* answered by a retry; only the first EOT and the block after it pass it. *)
ErrorsBounded ==
  ~astray /\ cur \in {"FirstByteStat", "FirstByteData", "AreWeDone"} => errCnt <= errB

(* Once cancelled at the keyboard the receiver takes no data any more.     *)
NoWriteAfterCancel == [][KbCan => UNCHANGED <<disk, bytesRemaining>>]_vars

(* A keyboard cancel stops the receiver, whatever the sender goes on       *)
(* sending and also between two CANs of the sender.                        *)
CancelTakesEffect == KbCan ~> ~running

(* When the line falls silent for good, the retries are counted and the    *)
(* receiver stops.                                                         *)
SilenceStops == <>[][TM]_vars => <>(~running)
=============================================================================
