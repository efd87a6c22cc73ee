------------------------------- MODULE SenderY -------------------------------
(***************************************************************************)
(* The YMODEM sender: the context SenderY (SenderY.cpp) driven by its      *)
(* statechart (ySenderSS.cpp).  A step is one event posted by              *)
(* PeerY::transferCommon and run to completion: a byte from the medium     *)
(* (SER), a timeout (TM) or the keyboard cancel (KB_C).  The environment   *)
(* is open: any byte may arrive and the timeout may strike at any time.    *)
(*                                                                         *)
(* out holds what the last step wrote to the medium.                       *)
(***************************************************************************)
EXTENDS YModem

CONSTANT ErrCap   \* bound of the model: ACKNAKSTAT counts errors without end

ASSUME ErrCapAssumption == ErrCap \in Nat /\ ErrCap > errB

VARIABLES
  active,            \* the active leaf of the statechart, Final once stopped
  hist,              \* the runtime's history
  timer, held,       \* what armed absoluteTimeout and holdTimeout
  errCnt, KbCan, firstBlk,
  fileName,          \* file being sent, 0 for the null pointer
  fileNameIndex,     \* files taken from fileNames so far
  transferringFileD,
  filePos,           \* chunks read so far from the open file
  bytesRd,           \* bytes of the chunk prefetched last
  blkNum, blkBufs,
  done, ending,      \* result: how many "Done, " and what ended the session
  out,
  lastBlk,           \* ghost: the block transmitted last
  interrupted        \* ghost: state and timer a CAN interrupted

chart == <<active, hist>>
timers == <<timer, held>>
files == <<fileName, fileNameIndex, transferringFileD, filePos>>
blocks == <<bytesRd, blkNum, blkBufs, lastBlk>>
result == <<done, ending>>
vars == <<chart, timers, errCnt, KbCan, firstBlk, files, blocks, result, out,
          interrupted>>

(***************************************************************************)
(* The state tree.                                                         *)
(***************************************************************************)
NON_CAN == {"StatC", "ACKNAK", "EOT1", "ONE", "EOTEOT", "ACKNAKSTAT"}
Final == "Final"
NoState == "none"

SM == INSTANCE SmartState WITH
  States <- NON_CAN \cup {"CAN", "NON_CAN", "TopLevel"},
  Parent <- [s \in NON_CAN \cup {"CAN", "NON_CAN", "TopLevel"} |->
              IF s \in NON_CAN THEN "NON_CAN"
              ELSE IF s = "TopLevel" THEN NoState ELSE "TopLevel"],
  FirstSub <- [s \in NON_CAN \cup {"CAN", "NON_CAN", "TopLevel"} |->
                IF s = "TopLevel" THEN "NON_CAN"
                ELSE IF s = "NON_CAN" THEN "StatC" ELSE NoState],
  WithHistory <- {"NON_CAN"},
  None <- NoState

Endings == {"none", "EndOfSession", "OpenError", "RcvCancelled",
            "ExcessiveNAKs", "Timeout", "KbCancelled", "KbCancelledOpenErr",
            "KbCancelledFromStatC"}

running == active # Final

GoTo(caller, target) ==
  /\ hist' = SM!RecordExit(hist, active, caller)
  /\ active' = SM!Enter(hist', target)

Finish(end) ==
  /\ active' = Final
  /\ ending' = end
  /\ UNCHANGED <<hist, done>>

(***************************************************************************)
(* The context's operations.                                               *)
(***************************************************************************)
tm(t) == timer' = t /\ UNCHANGED held
tmPush(t) == held' = timer /\ timer' = t
tmPop == timer' = held /\ UNCHANGED held

sendByte(c) == out' = <<Byte(c)>>
cans == out' = Cans
Silent == out' = <<>>

PrevNum == (blkNum + NumMod - 1) % NumMod

(* The next file's stat block if it opens, or the empty stat block when no *)
(* file is left.  A file that fails to open leaves the buffers alone.      *)
prepStatBlk ==
  /\ blkNum' = 0
  /\ IF fileNameIndex < NumFiles
     THEN /\ fileName' = fileNameIndex + 1
          /\ fileNameIndex' = fileNameIndex + 1
          /\ transferringFileD' \in {Descriptor, Closed}
          /\ blkBufs' = IF transferringFileD' = Closed THEN blkBufs
                        ELSE [blkBufs EXCEPT ![0] = Blk(0, fileName', 0)]
     ELSE /\ fileName' = 0
          /\ transferringFileD' = -2
          /\ blkBufs' = [blkBufs EXCEPT ![0] = Blk(0, 0, 0)]
          /\ UNCHANGED fileNameIndex
  /\ filePos' = 0
  /\ UNCHANGED <<bytesRd, lastBlk>>

(* Mutant: the next chunk is read into the buffer of the block that is out. *)
genBlk_SameBuffer(n) ==
  /\ bytesRd' = ChunkBytes(fileName, filePos + 1)
  /\ IF bytesRd' > 0
     THEN /\ filePos' = filePos + 1
          /\ blkBufs' = [blkBufs EXCEPT ![(n + 1) % 2] = Blk(n, fileName, filePos')]
     ELSE UNCHANGED <<filePos, blkBufs>>

(* Reads the file's next chunk; past its end the buffer is left alone.     *)
genBlk(n) ==
  /\ bytesRd' = ChunkBytes(fileName, filePos + 1)
  /\ IF bytesRd' > 0
     THEN /\ filePos' = filePos + 1
          /\ blkBufs' = [blkBufs EXCEPT ![n % 2] = Blk(n, fileName, filePos')]
     ELSE UNCHANGED <<filePos, blkBufs>>

(* Mutant: the block number is not cut to a byte.                          *)
sendBlkPrepNext_NoWrap ==
  /\ out' = <<blkBufs[blkNum % 2]>>
  /\ lastBlk' = blkBufs[blkNum % 2]
  /\ blkNum' = blkNum + 1
  /\ IF fileName # 0 THEN genBlk(blkNum')
     ELSE UNCHANGED <<bytesRd, filePos, blkBufs>>
  /\ UNCHANGED <<fileName, fileNameIndex, transferringFileD>>

(* Sends the prepared block and prefetches the next one meanwhile.         *)
sendBlkPrepNext ==
  /\ out' = <<blkBufs[blkNum % 2]>>
  /\ lastBlk' = blkBufs[blkNum % 2]
  /\ blkNum' = (blkNum + 1) % NumMod
  /\ IF fileName # 0 THEN genBlk(blkNum')
     ELSE UNCHANGED <<bytesRd, filePos, blkBufs>>
  /\ UNCHANGED <<fileName, fileNameIndex, transferringFileD>>

(* Mutant: resends from the buffer of the prefetched block.                *)
resendBlk_Prefetched ==
  /\ out' = <<blkBufs[blkNum % 2]>>
  /\ lastBlk' = blkBufs[blkNum % 2]
  /\ UNCHANGED <<bytesRd, blkNum, blkBufs>>

resendBlk ==
  /\ out' = <<blkBufs[PrevNum % 2]>>
  /\ lastBlk' = blkBufs[PrevNum % 2]
  /\ UNCHANGED <<bytesRd, blkNum, blkBufs>>

closeTransferredFile ==
  /\ transferringFileD' = IF transferringFileD > -1 THEN Closed
                          ELSE transferringFileD
  /\ UNCHANGED <<fileName, fileNameIndex, filePos>>

(***************************************************************************)
(* Start: TopLevel's onEntry.                                              *)
(***************************************************************************)
Init ==
  /\ active = SM!Enter(SM!NoHistory, "TopLevel")
  /\ hist = SM!NoHistory
  /\ timer = "VL" /\ held = "none"
  /\ errCnt = 0 /\ KbCan = FALSE /\ firstBlk = FALSE
  /\ fileNameIndex = IF NumFiles > 0 THEN 1 ELSE 0
  /\ fileName = fileNameIndex
  /\ transferringFileD \in IF NumFiles > 0 THEN {Descriptor, Closed} ELSE {-2}
  /\ filePos = 0
  /\ bytesRd = -2
  /\ blkNum = 0
  /\ blkBufs = [i \in 0..1 |->
                 IF i = 0 /\ transferringFileD # Closed
                 THEN Blk(0, fileName, 0) ELSE NoBlk]
  /\ done = 0 /\ ending = "none"
  /\ out = <<>>
  /\ lastBlk = NoBlk
  /\ interrupted = <<"none", "none">>

(***************************************************************************)
(* Bytes from the medium (SER), leaf by leaf.                              *)
(***************************************************************************)
Stays == UNCHANGED chart
NotCancelling == UNCHANGED <<KbCan, interrupted>>

StatC_OpenError(c) ==
  /\ active = "StatC" /\ c = C
  /\ fileName # 0 /\ transferringFileD = Closed
  /\ cans /\ Finish("OpenError")
  /\ NotCancelling /\ UNCHANGED <<timers, errCnt, firstBlk, files, blocks>>

StatC_SendStat(c) ==
  /\ active = "StatC" /\ c = C
  /\ transferringFileD # Closed
  /\ sendBlkPrepNext /\ errCnt' = 0 /\ tm("VL")
  /\ GoTo("StatC", "ACKNAKSTAT")
  /\ NotCancelling /\ UNCHANGED <<firstBlk, result>>

ACKNAKSTAT_Accepted(c) ==
  /\ active = "ACKNAKSTAT" /\ c = ACK
  /\ fileName # 0 /\ ~KbCan
  /\ firstBlk' = TRUE /\ tm("VL")
  /\ GoTo("ACKNAKSTAT", "ONE")
  /\ Silent /\ NotCancelling /\ UNCHANGED <<errCnt, files, blocks, result>>

ACKNAKSTAT_Resend(c) ==
  /\ active = "ACKNAKSTAT" /\ c \in {NAK, C}
  /\ ~KbCan
  /\ errCnt < ErrCap
  /\ resendBlk /\ errCnt' = errCnt + 1 /\ tm("VL")
  /\ Stays /\ NotCancelling /\ UNCHANGED <<firstBlk, files, result>>

(* Mutant: any acknowledged stat block ends the session.                   *)
ACKNAKSTAT_EndOfSession_Any(c) ==
  /\ active = "ACKNAKSTAT" /\ c = ACK
  /\ Finish("EndOfSession")
  /\ Silent /\ NotCancelling
  /\ UNCHANGED <<timers, errCnt, firstBlk, files, blocks>>

ACKNAKSTAT_EndOfSession(c) ==
  /\ active = "ACKNAKSTAT" /\ c = ACK
  /\ fileName = 0
  /\ Finish("EndOfSession")
  /\ Silent /\ NotCancelling
  /\ UNCHANGED <<timers, errCnt, firstBlk, files, blocks>>

ONE_EmptyFile(c) ==
  /\ active = "ONE" /\ c = C
  /\ bytesRd = 0 /\ ~KbCan
  /\ sendByte(EOT) /\ tm("VL") /\ errCnt' = 0 /\ closeTransferredFile
  /\ GoTo("ONE", "EOT1")
  /\ NotCancelling /\ UNCHANGED <<firstBlk, blocks, result>>

ONE_FirstBlock(c) ==
  /\ active = "ONE" /\ c = C
  /\ bytesRd # 0 /\ ~KbCan
  /\ sendBlkPrepNext /\ tm("VL") /\ errCnt' = 0
  /\ GoTo("ONE", "ACKNAK")
  /\ NotCancelling /\ UNCHANGED <<firstBlk, result>>

ONE_Resend(c) ==
  /\ active = "ONE" /\ c = NAK
  /\ ~KbCan
  /\ errCnt < ErrCap
  /\ resendBlk /\ errCnt' = errCnt + 1 /\ tm("VL")
  /\ GoTo("ONE", "ACKNAKSTAT")
  /\ NotCancelling /\ UNCHANGED <<firstBlk, files, result>>

(* Mutants: a resend without the error bound, and one after a cancel.      *)
ACKNAK_Resend_Unbounded(c) ==
  /\ active = "ACKNAK" /\ (c = NAK \/ (c = C /\ firstBlk))
  /\ errCnt < ErrCap /\ ~KbCan
  /\ resendBlk /\ errCnt' = errCnt + 1 /\ tm("VL")
  /\ Stays /\ NotCancelling /\ UNCHANGED <<firstBlk, files, result>>

ACKNAK_Resend_Cancelled(c) ==
  /\ active = "ACKNAK" /\ (c = NAK \/ (c = C /\ firstBlk))
  /\ errCnt < errB
  /\ resendBlk /\ errCnt' = errCnt + 1 /\ tm("VL")
  /\ Stays /\ NotCancelling /\ UNCHANGED <<firstBlk, files, result>>

ACKNAK_Resend(c) ==
  /\ active = "ACKNAK" /\ (c = NAK \/ (c = C /\ firstBlk))
  /\ errCnt < errB /\ ~KbCan
  /\ resendBlk /\ errCnt' = errCnt + 1 /\ tm("VL")
  /\ Stays /\ NotCancelling /\ UNCHANGED <<firstBlk, files, result>>

(* Mutant: a short chunk prefetched is taken for the end of the file.      *)
ACKNAK_LastAcked_Short(c) ==
  /\ active = "ACKNAK" /\ c = ACK
  /\ bytesRd < ChunkSz /\ ~KbCan
  /\ sendByte(EOT) /\ errCnt' = 0 /\ closeTransferredFile /\ tm("VL")
  /\ GoTo("ACKNAK", "EOT1")
  /\ NotCancelling /\ UNCHANGED <<firstBlk, blocks, result>>

ACKNAK_LastAcked(c) ==
  /\ active = "ACKNAK" /\ c = ACK
  /\ bytesRd = 0 /\ ~KbCan
  /\ sendByte(EOT) /\ errCnt' = 0 /\ closeTransferredFile /\ tm("VL")
  /\ GoTo("ACKNAK", "EOT1")
  /\ NotCancelling /\ UNCHANGED <<firstBlk, blocks, result>>

ACKNAK_NextBlock(c) ==
  /\ active = "ACKNAK" /\ c = ACK
  /\ bytesRd # 0 /\ ~KbCan
  /\ sendBlkPrepNext /\ errCnt' = 0 /\ tm("VL") /\ firstBlk' = FALSE
  /\ Stays /\ NotCancelling /\ UNCHANGED result

(* The only leaf that answers a 'C' whether or not KbCan is set.           *)
EOT1_Resend(c) ==
  /\ active = "EOT1" /\ c = C
  /\ firstBlk /\ errCnt < errB
  /\ sendByte(EOT) /\ errCnt' = errCnt + 1 /\ tm("VL")
  /\ Stays /\ NotCancelling /\ UNCHANGED <<firstBlk, files, blocks, result>>

EOT1_Acked(c) ==
  /\ active = "EOT1" /\ c = ACK
  /\ ~KbCan
  /\ prepStatBlk /\ tm("VL")
  /\ GoTo("EOT1", "StatC")
  /\ Silent /\ NotCancelling /\ UNCHANGED <<errCnt, firstBlk, result>>

EOT1_Naked(c) ==
  /\ active = "EOT1" /\ c = NAK
  /\ ~KbCan
  /\ sendByte(EOT) /\ errCnt' = 0 /\ tm("VL") /\ firstBlk' = FALSE
  /\ GoTo("EOT1", "EOTEOT")
  /\ NotCancelling /\ UNCHANGED <<files, blocks, result>>

EOTEOT_Resend(c) ==
  /\ active = "EOTEOT" /\ c = NAK
  /\ ~KbCan /\ errCnt < errB
  /\ sendByte(EOT) /\ errCnt' = errCnt + 1 /\ tm("VL")
  /\ Stays /\ NotCancelling /\ UNCHANGED <<firstBlk, files, blocks, result>>

EOTEOT_Done(c) ==
  /\ active = "EOTEOT" /\ c = ACK
  /\ ~KbCan
  /\ done' = done + 1
  /\ prepStatBlk /\ tm("VL")
  /\ GoTo("EOTEOT", "StatC")
  /\ Silent /\ NotCancelling /\ UNCHANGED <<errCnt, firstBlk, ending>>

(* A CAN is a cancellation only when a second one follows it; until then   *)
(* the state left and its timeout are kept.                                *)
CAN_Resume(c) ==
  /\ active = "CAN" /\ c # CAN /\ ~KbCan
  /\ tmPop /\ GoTo("CAN", "NON_CAN")
  /\ Silent /\ NotCancelling
  /\ UNCHANGED <<errCnt, firstBlk, files, blocks, result>>

CAN_Cancelled(c) ==
  /\ active = "CAN" /\ c = CAN
  /\ closeTransferredFile /\ Finish("RcvCancelled")
  /\ Silent /\ NotCancelling /\ UNCHANGED <<timers, errCnt, firstBlk, blocks>>

(* What the active leaf itself takes; the rest goes up to its parents.     *)
LeafTakes(c) ==
  \/ /\ active = "StatC" /\ c = C
     /\ fileName # 0 \/ transferringFileD # Closed
  \/ /\ active = "ACKNAKSTAT"
     /\ c \in {ACK, NAK, C} /\ (~KbCan \/ (c = ACK /\ fileName = 0))
  \/ active = "ONE" /\ c \in {C, NAK} /\ ~KbCan
  \/ /\ active = "ACKNAK" /\ ~KbCan
     /\ c = ACK \/ (errCnt < errB /\ (c = NAK \/ (c = C /\ firstBlk)))
  \/ active = "EOT1" /\ c = C /\ firstBlk /\ errCnt < errB
  \/ active = "EOT1" /\ c \in {ACK, NAK} /\ ~KbCan
  \/ active = "EOTEOT" /\ ~KbCan /\ (c = ACK \/ (c = NAK /\ errCnt < errB))
  \/ active = "CAN" /\ (c = CAN \/ ~KbCan)

(* Mutant: the file stays open when the session is given up.               *)
ExcessiveNAKs_LeavesOpen(c) ==
  /\ active \in NON_CAN /\ ~LeafTakes(c)
  /\ c = NAK /\ errCnt >= errB
  /\ cans /\ Finish("ExcessiveNAKs")
  /\ NotCancelling /\ UNCHANGED <<timers, errCnt, firstBlk, files, blocks>>

(* NON_CAN, the parent of all leaves but CAN.                              *)
ExcessiveNAKs(c) ==
  /\ active \in NON_CAN /\ ~LeafTakes(c)
  /\ c = NAK /\ errCnt >= errB
  /\ cans /\ closeTransferredFile /\ Finish("ExcessiveNAKs")
  /\ NotCancelling /\ UNCHANGED <<timers, errCnt, firstBlk, blocks>>

(* Mutant: the running timeout is not kept.                                *)
FirstCan_NoPush(c) ==
  /\ active \in NON_CAN /\ c = CAN
  /\ tm("CHAR") /\ GoTo("NON_CAN", "CAN")
  /\ interrupted' = <<active, timer>>
  /\ Silent /\ UNCHANGED <<errCnt, KbCan, firstBlk, files, blocks, result>>

FirstCan(c) ==
  /\ active \in NON_CAN /\ c = CAN
  /\ tmPush("CHAR") /\ GoTo("NON_CAN", "CAN")
  /\ interrupted' = <<active, timer>>
  /\ Silent /\ UNCHANGED <<errCnt, KbCan, firstBlk, files, blocks, result>>

(* TopLevel: once cancelled at the keyboard, the receiver's next answer is *)
(* the moment to send the CANs.                                            *)
CancelAtAnswer(c) ==
  /\ running /\ ~LeafTakes(c)
  /\ ~(active \in NON_CAN /\ c = NAK /\ errCnt >= errB)
  /\ KbCan /\ c \in {ACK, NAK, C}
  /\ cans /\ closeTransferredFile /\ Finish("KbCancelled")
  /\ NotCancelling /\ UNCHANGED <<timers, errCnt, firstBlk, blocks>>

Ignored(c) ==
  /\ running /\ ~LeafTakes(c)
  /\ ~(active \in NON_CAN /\ (c = CAN \/ (c = NAK /\ errCnt >= errB)))
  /\ ~(KbCan /\ c \in {ACK, NAK, C})
  /\ Silent /\ Stays /\ NotCancelling
  /\ UNCHANGED <<timers, errCnt, firstBlk, files, blocks, result>>

Block(c) == StatC_SendStat(c) \/ ONE_FirstBlock(c) \/ ACKNAK_NextBlock(c)
Resend(c) == ACKNAKSTAT_Resend(c) \/ ONE_Resend(c) \/ ACKNAK_Resend(c)
EndOfFile(c) ==
  \/ ONE_EmptyFile(c) \/ ACKNAK_LastAcked(c) \/ EOT1_Resend(c)
  \/ EOT1_Acked(c) \/ EOT1_Naked(c) \/ EOTEOT_Resend(c) \/ EOTEOT_Done(c)
Cancel(c) ==
  \/ FirstCan(c) \/ CAN_Resume(c) \/ CAN_Cancelled(c)
  \/ ExcessiveNAKs(c) \/ CancelAtAnswer(c)

SER(c) ==
  \/ Block(c) \/ Resend(c) \/ EndOfFile(c) \/ Cancel(c)
  \/ StatC_OpenError(c) \/ ACKNAKSTAT_Accepted(c)
  \/ ACKNAKSTAT_EndOfSession(c) \/ Ignored(c)

(***************************************************************************)
(* Timeouts (TM).                                                          *)
(***************************************************************************)
CAN_TM ==
  /\ active = "CAN" /\ ~KbCan
  /\ tmPop /\ GoTo("CAN", "NON_CAN")
  /\ Silent /\ NotCancelling
  /\ UNCHANGED <<errCnt, firstBlk, files, blocks, result>>

(* Mutant: no timeout counts while a second CAN is awaited.                *)
TopLevel_TM_NotInCAN ==
  /\ running /\ active # "CAN"
  /\ cans /\ closeTransferredFile
  /\ Finish(IF KbCan THEN "KbCancelled" ELSE "Timeout")
  /\ NotCancelling /\ UNCHANGED <<timers, errCnt, firstBlk, blocks>>

TopLevel_TM ==
  /\ running /\ (active = "CAN" => KbCan)
  /\ cans /\ closeTransferredFile
  /\ Finish(IF KbCan THEN "KbCancelled" ELSE "Timeout")
  /\ NotCancelling /\ UNCHANGED <<timers, errCnt, firstBlk, blocks>>

TM == CAN_TM \/ TopLevel_TM

(***************************************************************************)
(* Keyboard cancel (KB_C); transferCommon sets KbCan whatever the chart    *)
(* does with the event.                                                    *)
(***************************************************************************)
StatC_KB_C ==
  /\ active = "StatC"
  /\ closeTransferredFile
  /\ done' = 0
  /\ ending' = IF transferringFileD = Closed THEN "KbCancelledOpenErr"
               ELSE "KbCancelledFromStatC"
  /\ active' = Final /\ UNCHANGED hist
  /\ Silent /\ KbCan' = TRUE
  /\ UNCHANGED <<timers, errCnt, firstBlk, blocks, interrupted>>

NON_CAN_KB_C ==
  /\ active \in NON_CAN \ {"StatC"}
  /\ timer' = IF KbCan THEN timer ELSE "RED"
  /\ KbCan' = TRUE
  /\ Silent /\ Stays
  /\ UNCHANGED <<held, errCnt, firstBlk, files, blocks, result, interrupted>>

CAN_KB_C ==
  /\ active = "CAN"
  /\ KbCan' = TRUE
  /\ Silent /\ Stays
  /\ UNCHANGED <<timers, errCnt, firstBlk, files, blocks, result, interrupted>>

KB_C == StatC_KB_C \/ NON_CAN_KB_C \/ CAN_KB_C

Next == (\E c \in ControlBytes : SER(c)) \/ TM \/ KB_C

Spec == Init /\ [][Next]_vars

(* The timeout is never starved once the keyboard has cancelled: no state  *)
(* a byte leads to then arms it anew, but EOT1's 'C', errB times at most.  *)
FairSpec == Spec /\ WF_vars(TopLevel_TM)

-----------------------------------------------------------------------------
(***************************************************************************)
(* Properties.                                                             *)
(***************************************************************************)
TypeOK ==
  /\ active \in NON_CAN \cup {"CAN", Final}
  /\ hist \in [NON_CAN \cup {"CAN", "NON_CAN", "TopLevel"} ->
               NON_CAN \cup {NoState}]
  /\ timer \in {"VL", "RED", "CHAR"} /\ held \in {"none", "VL", "RED"}
  /\ errCnt \in 0..ErrCap /\ KbCan \in BOOLEAN /\ firstBlk \in BOOLEAN
  /\ fileNameIndex \in 0..NumFiles /\ fileName \in {0, fileNameIndex}
  /\ transferringFileD \in {Descriptor, Closed, -2}
  /\ filePos \in Nat
  /\ bytesRd \in {-2} \cup 0..ChunkSz
  /\ blkNum \in 0..(NumMod - 1)
  /\ blkBufs \in [0..1 -> Messages] /\ lastBlk \in Messages
  /\ done \in Nat /\ ending \in Endings
  /\ out \in Seq(Messages)

(* The state the chart is in, or returns to when the CAN was a stray one.  *)
cur == IF active = "CAN" THEN hist["NON_CAN"] ELSE active

(* A block was sent and its answer is awaited.                             *)
AwaitingAnswer == cur \in {"ACKNAKSTAT", "ONE", "ACKNAK"}

(* Although the next block is prefetched while the current one is on its   *)
(* way, every block the sender puts on the line is the very block it sent  *)
(* last (a resend) or the one that comes next in the session, under its    *)
(* own number: no resend takes the prefetched block, no chunk is skipped   *)
(* or sent twice as new, across the wrap of the block number and across    *)
(* files.                                                                  *)
BlockSent(m) == /\ m.num = m.chunk % NumMod
                /\ m = lastBlk \/ Follows(lastBlk, m)
BlocksInOrder == [][\A i \in DOMAIN out' : IsBlk(out'[i]) => BlockSent(out'[i])]_vars

(* However the session ends (nine ways) no file is left open, and while    *)
(* blocks of a file are being answered its descriptor is open.             *)
DescriptorMatchesState ==
  /\ transferringFileD = Descriptor => cur \in {"StatC", "ACKNAKSTAT", "ONE", "ACKNAK"}
  /\ AwaitingAnswer /\ fileName # 0 => transferringFileD = Descriptor

(* EOT is sent only for a file whose last block went out, and closed.      *)
EotAfterLastBlock ==
  [][(\E i \in DOMAIN out' : out'[i] = Byte(EOT))
       => LastOfFile(lastBlk) /\ transferringFileD' = Closed]_vars

(* "Done, " is claimed once per file and only for one sent to its end;     *)
(* "EndOfSession" only after the empty stat block was sent and every file  *)
(* was taken.                                                              *)
ResultTruthful ==
  [][/\ done' > done =>
          LastOfFile(lastBlk) /\ lastBlk.file = fileName /\ done' <= fileName
     /\ running /\ ending' = "EndOfSession" =>
          lastBlk = Blk(0, 0, 0) /\ fileNameIndex = NumFiles]_vars

(* A stray CAN leaves no trace: the chart resumes the very state it        *)
(* interrupted, under the timeout that was running then.                   *)
CanResumes ==
  [][active = "CAN" /\ active' \notin {"CAN", Final}
       => <<active', timer'>> = interrupted]_vars

(* Once cancelled at the keyboard the sender puts no block on the line.    *)
NoBlockAfterCancel ==
  [][KbCan => \A i \in DOMAIN out' : ~IsBlk(out'[i])]_vars

(* Outside the stat block's exchange the number of errors in a row is      *)
(* within the bound.                                                       *)
ErrorsBounded ==
  cur \in {"StatC", "ACKNAK", "EOT1", "EOTEOT"} => errCnt <= errB

(* A keyboard cancel stops the sender, also one that falls between the     *)
(* CANs of the receiver, and however the receiver behaves.                 *)
CancelTakesEffect == KbCan ~> ~running

(***************************************************************************)
(* The inductive invariant behind these: what the buffers, the descriptor  *)
(* and the position in the file are, by the state the chart is in or will  *)
(* resume.                                                                 *)
(***************************************************************************)
(* A CAN is pending in CAN only, over one of the states it may interrupt.  *)
Pending ==
  /\ \A s \in DOMAIN hist : s # "NON_CAN" => hist[s] = NoState
  /\ active = "CAN" => /\ hist["NON_CAN"] \in NON_CAN
                       /\ interrupted = <<cur, held>>
                       /\ held \in {"VL", "RED"}
  /\ active \in NON_CAN => timer \in {"VL", "RED"}

(* Before a stat block: it follows the block sent last.                    *)
StatPrepared ==
  /\ blkNum = 0 /\ filePos = 0
  /\ transferringFileD = -2 <=> fileName = 0
  /\ transferringFileD # Closed => blkBufs[0] = Blk(0, fileName, 0)
  /\ Follows(lastBlk, Blk(0, fileName, 0))

(* While a block is out: it is still in its buffer, and the other buffer   *)
(* holds its successor if the file goes on.                                *)
BlockOut ==
  /\ blkBufs[PrevNum % 2] = lastBlk
  /\ lastBlk = Blk(PrevNum, fileName, lastBlk.chunk)
  /\ lastBlk.num = lastBlk.chunk % NumMod
  /\ cur \in {"ACKNAKSTAT", "ONE"} => lastBlk.chunk = 0
  /\ cur = "ACKNAK" => lastBlk.chunk > 0
  /\ IF fileName = 0
     THEN cur = "ACKNAKSTAT" /\ transferringFileD = -2
     ELSE /\ transferringFileD = Descriptor
          /\ lastBlk.chunk <= Chunks[fileName]
          /\ bytesRd = ChunkBytes(fileName, lastBlk.chunk + 1)
          /\ IF bytesRd = 0 THEN filePos = lastBlk.chunk
             ELSE /\ filePos = lastBlk.chunk + 1
                  /\ blkBufs[blkNum % 2] = Blk(blkNum, fileName, filePos)

(* Once EOT is out the file is closed and its last block was sent.         *)
FileEnded == LastOfFile(lastBlk) /\ lastBlk.file = fileName /\ transferringFileD = Closed

SenderInv ==
  /\ Pending
  /\ fileName = 0 => fileNameIndex = NumFiles
  /\ cur = "StatC" => StatPrepared
  /\ AwaitingAnswer => BlockOut
  /\ cur \in {"EOT1", "EOTEOT"} => FileEnded
  /\ active = Final => transferringFileD # Descriptor
  /\ ErrorsBounded
  /\ active = "StatC" => ~KbCan
  /\ running => ending = "none"
  /\ done <= IF fileName = 0 \/ ~running THEN fileNameIndex ELSE fileName - 1
=============================================================================
