------------------------------ MODULE YSession ------------------------------
(***************************************************************************)
(* A session: the sender (SenderY) and the receiver (ReceiverY) at the two *)
(* ends of the Medium (Ensc351Part6/src/Medium.cpp), which forwards what   *)
(* each writes and now and then damages, loses or makes up a byte.  The    *)
(* three run as threads; a step is one event handled by one peer, and what *)
(* it writes is on its way to the other one after the step.                *)
(*                                                                         *)
(* The Medium counts bytes to choose which one to harm.  Here it may harm  *)
(* any, in the ways of FaultKinds, at most MaxFaults times.                *)
(***************************************************************************)
EXTENDS SenderY

CONSTANTS
  ZeroFirst, GarbageSizes, MaxDone,   \* ReceiverY's
  NumByte,      \* NumByte[n]: the byte a block number n is to the receiver
  RestBytes,    \* the bytes its chart takes that occur in data and CRCs
  RestLen,      \* bound of the model: bytes it sees of what is left of a block
  FaultKinds,   \* the ways in which the medium may harm what it forwards
  Glitches,     \* the values its glitch counter has when it makes one up
  MaxFaults,    \* bound of the model: how often it does harm
  Keyboards     \* the peers at whose keyboard the transfer may be cancelled

AllFaults == {"damaged", "beheaded", "garbled", "stray", "burst",
              "lost", "naked", "glitch", "extraAck"}

ASSUME SessionAssumption ==
  /\ NumByte \in [0..(NumMod - 1) -> {SOH, EOT, CAN, GLITCH}]
  /\ RestBytes \subseteq {SOH, EOT, CAN} /\ RestLen \in Nat
  /\ FaultKinds \subseteq AllFaults /\ Glitches \subseteq ControlBytes
  /\ MaxFaults \in Nat
  /\ Keyboards \subseteq {"sender", "receiver"}

VARIABLES
  rActive, rHist, rTimer, rHeld, rErrCnt, rKbCan, closeProb, anotherFile,
  goodBlk, goodBlk1st, syncLoss, bytesRemaining, numLastGoodBlk, rcvBlk,
  rFileD, rFileName, disk, declared, stored, rDone, rEnding, rOut, purged,
  rInterrupted, astray,
  toRcv,     \* what is on its way to the receiver: messages and their quality
  fromRcv,   \* bytes the receiver wrote that the medium has not read yet
  toSnd,     \* bytes the medium forwarded to the sender
  sendExtraAck,
  faults     \* how often the medium has harmed something

R == INSTANCE ReceiverY WITH
  active <- rActive, hist <- rHist, timer <- rTimer, held <- rHeld,
  errCnt <- rErrCnt, KbCan <- rKbCan, transferringFileD <- rFileD,
  fileName <- rFileName, done <- rDone, ending <- rEnding, out <- rOut,
  interrupted <- rInterrupted

senderVars == vars
receiverVars ==
  <<rActive, rHist, rTimer, rHeld, rErrCnt, rKbCan, closeProb, anotherFile,
    goodBlk, goodBlk1st, syncLoss, bytesRemaining, numLastGoodBlk, rcvBlk,
    rFileD, rFileName, disk, declared, stored, rDone, rEnding, rOut, purged,
    rInterrupted, astray>>
line == <<toRcv, fromRcv, toSnd, sendExtraAck, faults>>
sessionVars == <<senderVars, receiverVars, line>>

(***************************************************************************)
(* The medium.  MsgFromTerm2 forwards what the sender wrote.  A block that *)
(* is damaged behind its SOH is for getRestBlk to judge.  When its SOH is  *)
(* damaged or dropped, its other bytes still follow, and the receiver sees *)
(* them one by one: the noise or the block number and its complement, and  *)
(* whatever a purge() leaves of the data.  A single byte that is dropped   *)
(* is overwritten by a CAN, and that is what is forwarded; after one that  *)
(* is damaged the buffer's CANs follow every other time.                   *)
(***************************************************************************)
Item(m, q) == [msg |-> m, quality |-> q]
Intact(ms) == [i \in DOMAIN ms |-> Item(ms[i], "good")]
Noise(c) == Item(Byte(c), "good")

(* A byte of block m that is read as a first byte: a SOH makes getRestBlk  *)
(* take the rest of m for a block, which is too short.                     *)
Qualities == R!Qualities \cup {"rest"}
AsByte(m, c) == IF c = SOH THEN Item(m, "rest") ELSE Noise(c)
Whole(x) == IsBlk(x.msg) /\ x.quality # "rest"

Rests(m) ==
  LET bytes == {GLITCH} \cup IF m.chunk > 0 THEN RestBytes ELSE {}
  IN {r \in UNION {[1..n -> {AsByte(m, c) : c \in bytes}] : n \in 0..RestLen} :
        \A i \in DOMAIN r : IsBlk(r[i].msg) => i = Len(r)}

Beheaded(m) ==
  IF NumByte[m.num] = SOH
  THEN {<<AsByte(m, SOH)>>} \cup {<<Noise(GLITCH)>> \o r : r \in Rests(m)}
  ELSE {h \o r : h \in {<<Noise(GLITCH)>>, <<Noise(NumByte[m.num]), Noise(GLITCH)>>},
                 r \in Rests(m)}

HarmedBlock(m) ==
  {<<Item(m, q)>> : q \in IF "damaged" \in FaultKinds THEN R!Qualities \ {"good"} ELSE {}}
  \cup IF "beheaded" \in FaultKinds THEN Beheaded(m) ELSE {}

HarmedByte ==
  {<<Noise(GLITCH)>> : k \in FaultKinds \cap {"garbled"}}
  \cup {<<Noise(CAN)>> : k \in FaultKinds \cap {"stray"}}
  \cup {<<Noise(GLITCH), Noise(CAN), Noise(CAN)>> : k \in FaultKinds \cap {"burst"}}

Harmed(m) == IF IsBlk(m) THEN HarmedBlock(m) ELSE HarmedByte

SendsBlock == \E i \in DOMAIN out' : IsBlk(out'[i])

(* An extra ACK follows the first byte that is forwarded; dumpGlitches     *)
(* discards it when that is a block's.                                     *)
MsgFromTerm2(unread) ==
  /\ \/ toRcv' = toRcv \o Intact(out') /\ UNCHANGED faults
     \/ /\ faults < MaxFaults /\ faults' = faults + 1
        /\ \E i \in DOMAIN out' : \E h \in Harmed(out'[i]) :
             toRcv' = toRcv \o Intact(SubSeq(out', 1, i - 1)) \o h
                            \o Intact(SubSeq(out', i + 1, Len(out')))
  /\ sendExtraAck' = (sendExtraAck /\ out' = <<>>)
  /\ toSnd' = IF SendsBlock THEN <<>>
              ELSE IF out' # <<>> /\ sendExtraAck THEN Append(unread, ACK)
              ELSE unread

(* The flag was set while the block was being sent, and its last byte,     *)
(* sent after dumpGlitches, is the one that triggers the extra ACK.        *)
ExtraAckAtLastByte ==
  /\ sendExtraAck
  /\ \E i \in DOMAIN toRcv : IsBlk(toRcv[i].msg)
  /\ sendExtraAck' = FALSE
  /\ toSnd' = Append(toSnd, ACK)
  /\ UNCHANGED <<senderVars, receiverVars, toRcv, fromRcv, faults>>

(* MsgFromTerm1 forwards one byte of the receiver: it may be lost, become  *)
(* NAK, or be preceded by a glitch, which is a counter and so any byte.    *)
MsgFromTerm1 ==
  /\ fromRcv # <<>>
  /\ fromRcv' = Tail(fromRcv)
  /\ LET b == Head(fromRcv)
     IN \/ toSnd' = Append(toSnd, b) /\ UNCHANGED <<sendExtraAck, faults>>
        \/ /\ faults < MaxFaults /\ faults' = faults + 1
           /\ \/ "lost" \in FaultKinds /\ UNCHANGED <<toSnd, sendExtraAck>>
              \/ /\ "naked" \in FaultKinds
                 /\ toSnd' = Append(toSnd, NAK) /\ UNCHANGED sendExtraAck
              \/ /\ "glitch" \in FaultKinds
                 /\ \E g \in Glitches : toSnd' = toSnd \o <<g, b>>
                 /\ UNCHANGED sendExtraAck
              \/ /\ "extraAck" \in FaultKinds
                 /\ toSnd' = Append(toSnd, b) /\ sendExtraAck' = TRUE
  /\ UNCHANGED <<senderVars, receiverVars, toRcv>>

(***************************************************************************)
(* The sender's events.  Bytes take no time compared with the timeouts,    *)
(* which strike when nothing is on its way, but for the one of zero.  All  *)
(* of the receiver's retries take less time than TM_VL, so the sender      *)
(* gives up only a receiver that has stopped, unless it is cancelling.     *)
(***************************************************************************)
Quiet == toRcv = <<>> /\ fromRcv = <<>> /\ toSnd = <<>>

SenderSER ==
  /\ toSnd # <<>>
  /\ SER(Head(toSnd))
  /\ MsgFromTerm2(Tail(toSnd))
  /\ UNCHANGED <<receiverVars, fromRcv>>

SenderTM ==
  /\ Quiet /\ (R!running => active = "CAN" \/ timer = "RED")
  /\ TM
  /\ MsgFromTerm2(toSnd)
  /\ UNCHANGED <<receiverVars, fromRcv>>

SenderKB_C ==
  /\ "sender" \in Keyboards /\ ~KbCan
  /\ KB_C
  /\ UNCHANGED <<receiverVars, line>>

(***************************************************************************)
(* The receiver's events.  A block whose successor has arrived too is read *)
(* with bytes in excess, and judged bad.  purge() reads until the line is  *)
(* idle, or until it has read ten bytes: what had arrived goes, but it may *)
(* stop in the middle of a block, and leave more that is on its way.       *)
(***************************************************************************)
CutAt(s, n) ==
  {r \o SubSeq(s, n + 1, Len(s)) :
     r \in IF Whole(s[n]) THEN Rests(s[n].msg) ELSE {<<>>}}

Kept(s) ==
  IF purged' /\ s # <<>> THEN UNION {CutAt(s, n) : n \in DOMAIN s} ELSE {s}

Answers == fromRcv' = fromRcv \o [i \in DOMAIN rOut' |-> rOut'[i].type]

(* A block where the chart takes no SOH goes as far as it is purged.       *)
ReceiverSER ==
  /\ toRcv # <<>>
  /\ LET m == Head(toRcv).msg
         q == IF Head(toRcv).quality = "rest" THEN "short" ELSE Head(toRcv).quality
     IN IF IsBlk(m)
        THEN \/ /\ R!SER_SOH(q, m) \/ (Len(toRcv) > 1 /\ R!SER_SOH("bad", m))
                /\ toRcv' \in Kept(Tail(toRcv))
             \/ R!SER(SOH) /\ toRcv' \in Kept(toRcv)
        ELSE R!SER(m.type) /\ toRcv' \in Kept(Tail(toRcv))
  /\ Answers
  /\ UNCHANGED <<senderVars, toSnd, sendExtraAck, faults>>

ReceiverTM ==
  /\ Quiet \/ rTimer = "zero"
  /\ R!TM
  /\ Answers
  /\ UNCHANGED <<senderVars, toRcv, toSnd, sendExtraAck, faults>>

ReceiverKB_C ==
  /\ "receiver" \in Keyboards /\ ~rKbCan
  /\ R!KB_C
  /\ Answers
  /\ UNCHANGED <<senderVars, toRcv, toSnd, sendExtraAck, faults>>

(* What reaches a peer that has stopped is never read.                     *)
Unread ==
  \/ /\ ~running /\ toSnd # <<>> /\ toSnd' = <<>>
     /\ UNCHANGED <<senderVars, receiverVars, toRcv, fromRcv, sendExtraAck, faults>>
  \/ /\ ~R!running /\ toRcv # <<>> /\ toRcv' = <<>>
     /\ UNCHANGED <<senderVars, receiverVars, fromRcv, toSnd, sendExtraAck, faults>>

SessionInit ==
  /\ Init /\ R!Init
  /\ toRcv = <<>> /\ fromRcv = <<C>> /\ toSnd = <<>>
  /\ sendExtraAck = FALSE /\ faults = 0

SessionNext ==
  \/ SenderSER \/ SenderTM \/ SenderKB_C
  \/ ReceiverSER \/ ReceiverTM \/ ReceiverKB_C
  \/ MsgFromTerm1 \/ ExtraAckAtLastByte \/ Unread

Session == SessionInit /\ [][SessionNext]_sessionVars

(* The three threads are scheduled, and time passes.                       *)
FairSession ==
  /\ Session
  /\ WF_sessionVars(SenderSER \/ SenderTM)
  /\ WF_sessionVars(ReceiverSER \/ ReceiverTM)
  /\ WF_sessionVars(MsgFromTerm1)
  /\ WF_sessionVars(Unread)

-----------------------------------------------------------------------------
(***************************************************************************)
(* Properties.                                                             *)
(***************************************************************************)
LineTypeOK ==
  /\ toRcv \in Seq([msg : Messages, quality : Qualities])
  /\ fromRcv \in Seq(ControlBytes) /\ toSnd \in Seq(ControlBytes)
  /\ sendExtraAck \in BOOLEAN
  /\ faults \in 0..MaxFaults

(* What the open environment of ReceiverY assumes of the blocks and bytes  *)
(* that arrive, this sender and this medium keep.                          *)
EnvironmentKept ==
  [][ReceiverSER /\ R!running =>
       LET m == Head(toRcv).msg
       IN IF IsBlk(m) THEN R!Arrives(m) ELSE R!ByteArrives(m.type)]_sessionVars

(* The promise of a session, on the receiver's disk and in its result.     *)
FT == INSTANCE FileTransfer WITH
  received <- [f \in Files |->
                [i \in DOMAIN disk[f] |->
                  [file |-> disk[f][i].file, chunk |-> disk[f][i].chunk]]],
  complete <- rDone

Promise == FT!Spec

(* When the sender claims a file is done, or that the session is over, the *)
(* receiver has stored it, respectively has everything.                    *)
SenderClaimsTrue ==
  /\ \A f \in 1..done : Len(disk[f]) = Chunks[f]
  /\ ending = "EndOfSession" => \A f \in Files : Len(disk[f]) = Chunks[f]

FilesFail ==
  \/ ending = "OpenError" \/ rEnding \in {"CreatError", "CloseError"}

(* However the line harms what it forwards, both peers stop.               *)
BothStop == <>(~running /\ ~R!running)

(* Nobody cancelling, the files being there and the faults being fewer     *)
(* than the error bound, every file arrives.                               *)
AllArrive ==
  <>(FilesFail \/ \A f \in Files : Len(disk[f]) = Chunks[f] /\ rDone = NumFiles)
=============================================================================
