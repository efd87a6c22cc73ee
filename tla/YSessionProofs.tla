---------------------------- MODULE YSessionProofs ----------------------------
(***************************************************************************)
(* Theorems about whole sessions (YSession), for any files, bounds and     *)
(* number of faults.                                                       *)
(***************************************************************************)
EXTENDS YSession, SenderYProofs

-----------------------------------------------------------------------------
(***************************************************************************)
(* What travels on the line, however it is harmed.                         *)
(***************************************************************************)
Items == [msg : Messages, quality : Qualities]

LEMMA LineParts ==
  ASSUME toRcv' \in Seq(Items), fromRcv' \in Seq(ControlBytes), toSnd' \in Seq(ControlBytes),
         sendExtraAck' \in BOOLEAN, faults' \in 0..MaxFaults
  PROVE  LineTypeOK'
BY DEF LineTypeOK, Items

LEMMA LineKept ==
  ASSUME LineTypeOK
  PROVE  /\ UNCHANGED toRcv => toRcv' \in Seq(Items)
         /\ UNCHANGED fromRcv => fromRcv' \in Seq(ControlBytes)
         /\ UNCHANGED toSnd => toSnd' \in Seq(ControlBytes)
         /\ UNCHANGED sendExtraAck => sendExtraAck' \in BOOLEAN
         /\ UNCHANGED faults => faults' \in 0..MaxFaults
BY Zenon DEF LineTypeOK, Items

(* The bytes that messages start with.                                     *)
TypesOf(s) == [i \in DOMAIN s |-> s[i].type]

LEMMA ItemTyped ==
  ASSUME NEW m \in Messages, NEW q \in Qualities
  PROVE  Item(m, q) \in Items /\ Item(m, q).msg = m /\ Item(m, q).quality = q
BY DEF Item, Items

LEMMA NoiseTyped ==
  ASSUME NEW c \in ControlBytes
  PROVE  Noise(c) \in Items /\ Noise(c).msg = Byte(c) /\ Noise(c).quality = "good"
BY ByteIsMessage, ItemTyped DEF Noise, Item, Qualities, R!Qualities

LEMMA IntactTyped ==
  ASSUME NEW ms \in Seq(Messages)
  PROVE  Intact(ms) \in Seq(Items) /\ Len(Intact(ms)) = Len(ms)
         /\ \A i \in 1..Len(ms) : Intact(ms)[i] = Item(ms[i], "good")
<1>1. Len(ms) \in Nat /\ DOMAIN ms = 1..Len(ms) /\ \A i \in 1..Len(ms) : ms[i] \in Messages
  OBVIOUS
<1>2. \A i \in 1..Len(ms) : Item(ms[i], "good") \in Items
  BY <1>1, ItemTyped DEF Qualities, R!Qualities
<1>3. Intact(ms) = [i \in 1..Len(ms) |-> Item(ms[i], "good")]
  BY <1>1 DEF Intact
<1> HIDE DEF Intact
<1> QED
  BY <1>1, <1>2, <1>3

LEMMA AsByteTyped ==
  ASSUME NEW m \in Messages, NEW c \in {SOH, EOT, CAN, GLITCH}
  PROVE  AsByte(m, c) \in Items
<1>1. CASE c = SOH
  BY <1>1, ItemTyped DEF AsByte, Qualities
<1>2. CASE c # SOH
  BY <1>2, NoiseTyped DEF AsByte, ControlBytes
<1> QED
  BY <1>1, <1>2

LEMMA RestsTyped ==
  ASSUME NEW m \in Messages, NEW r \in Rests(m)
  PROVE  r \in Seq(Items)
<1> DEFINE bytes == {GLITCH} \cup IF m.chunk > 0 THEN RestBytes ELSE {}
<1>1. bytes \subseteq {SOH, EOT, CAN, GLITCH}
  BY SessionAssumption
<1> HIDE DEF bytes
<1>2. \A c \in bytes : AsByte(m, c) \in Items
  BY <1>1, AsByteTyped
<1>3. PICK n \in 0..RestLen : r \in [1..n -> {AsByte(m, c) : c \in bytes}]
  BY DEF Rests, bytes
<1>4. n \in Nat /\ \A i \in 1..n : r[i] \in Items
  BY <1>2, <1>3, SessionAssumption
<1>5. r = [i \in 1..n |-> r[i]]
  BY <1>3
<1>6. [i \in 1..n |-> r[i]] \in Seq(Items)
  BY <1>4, IsASeq
<1> QED
  BY <1>5, <1>6, Zenon

LEMMA BeheadedTyped ==
  ASSUME NEW m \in Messages, IsBlk(m), NEW h \in Beheaded(m)
  PROVE  h \in Seq(Items)
<1>1. NumByte[m.num] \in {SOH, EOT, CAN, GLITCH}
  BY SessionAssumption DEF Messages
<1>2. Noise(GLITCH) \in Items /\ AsByte(m, SOH) \in Items
  BY NoiseTyped, AsByteTyped DEF ControlBytes
<1>5. \A r \in Rests(m) : r \in Seq(Items)
  BY RestsTyped, Zenon
<1>3. CASE NumByte[m.num] = SOH
  <2>1. h = <<AsByte(m, SOH)>> \/ \E r \in Rests(m) : h = <<Noise(GLITCH)>> \o r
    BY <1>3 DEF Beheaded
  <2>2. <<AsByte(m, SOH)>> \in Seq(Items) /\ <<Noise(GLITCH)>> \in Seq(Items)
    BY <1>2
  <2>3. ASSUME NEW r \in Rests(m) PROVE <<Noise(GLITCH)>> \o r \in Seq(Items)
    BY <1>5, <2>2, <2>3
  <2> QED
    BY <2>1, <2>2, <2>3, Zenon
<1>4. CASE NumByte[m.num] # SOH
  <2>1. Noise(NumByte[m.num]) \in Items
    BY <1>1, <1>4, NoiseTyped DEF ControlBytes
  <2>2. /\ <<Noise(GLITCH)>> \in Seq(Items)
        /\ <<Noise(NumByte[m.num]), Noise(GLITCH)>> \in Seq(Items)
    BY <1>2, <2>1
  <2>3. \E r \in Rests(m) : \/ h = <<Noise(GLITCH)>> \o r
                           \/ h = <<Noise(NumByte[m.num]), Noise(GLITCH)>> \o r
    BY <1>4 DEF Beheaded
  <2>4. ASSUME NEW r \in Rests(m)
        PROVE  /\ <<Noise(GLITCH)>> \o r \in Seq(Items)
               /\ <<Noise(NumByte[m.num]), Noise(GLITCH)>> \o r \in Seq(Items)
    BY <1>5, <2>2, <2>4
  <2> QED
    BY <2>3, <2>4, Zenon
<1> QED
  BY <1>3, <1>4

LEMMA HarmedTyped ==
  ASSUME NEW m \in Messages, NEW h \in Harmed(m)
  PROVE  h \in Seq(Items)
<1>1. \A q \in R!Qualities : <<Item(m, q)>> \in Seq(Items)
  BY ItemTyped DEF Qualities
<1>2. Noise(GLITCH) \in Items /\ Noise(CAN) \in Items
  BY NoiseTyped DEF ControlBytes
<1>3. <<Noise(GLITCH)>> \in Seq(Items) /\ <<Noise(CAN)>> \in Seq(Items)
      /\ <<Noise(GLITCH), Noise(CAN), Noise(CAN)>> \in Seq(Items)
  BY <1>2
<1>4. CASE IsBlk(m)
  <2>1. (\E q \in R!Qualities : h = <<Item(m, q)>>) \/ h \in Beheaded(m)
    BY <1>4 DEF Harmed, HarmedBlock
  <2> QED
    BY <1>1, <1>4, <2>1, BeheadedTyped
<1>5. CASE ~IsBlk(m)
  BY <1>3, <1>5 DEF Harmed, HarmedByte
<1> QED
  BY <1>4, <1>5

(* What a purge leaves is part of what was on its way.                     *)
LEMMA KeptTyped ==
  ASSUME NEW s \in Seq(Items), NEW t \in Kept(s)
  PROVE  t \in Seq(Items)
<1>1. CASE t = s
  BY <1>1
<1>2. CASE \E n \in DOMAIN s : t \in CutAt(s, n)
  <2>1. PICK n \in DOMAIN s : t \in CutAt(s, n)
    BY <1>2
  <2>2. n \in Nat /\ n <= Len(s) /\ s[n] \in Items /\ SubSeq(s, n + 1, Len(s)) \in Seq(Items)
    OBVIOUS
  <2>3. PICK r : /\ r \in Rests(s[n].msg) \/ r = <<>>
                 /\ t = r \o SubSeq(s, n + 1, Len(s))
    BY <2>1 DEF CutAt
  <2>4. s[n].msg \in Messages
    BY <2>2 DEF Items
  <2>5. r \in Seq(Items)
    <3>1. \A x \in Rests(s[n].msg) : x \in Seq(Items)
      BY <2>4, RestsTyped, Zenon
    <3>2. <<>> \in Seq(Items)
      OBVIOUS
    <3> QED
      BY <2>3, <3>1, <3>2, Zenon
  <2> QED
    BY <2>2, <2>3, <2>5
<1> QED
  BY <1>1, <1>2 DEF Kept

LEMMA Term2Typed ==
  ASSUME LineTypeOK, out' \in Seq(Messages), NEW unread \in Seq(ControlBytes), MsgFromTerm2(unread)
  PROVE  /\ toRcv' \in Seq(Items) /\ toSnd' \in Seq(ControlBytes)
         /\ sendExtraAck' \in BOOLEAN /\ faults' \in 0..MaxFaults
<1>1. toRcv \in Seq(Items) /\ faults \in 0..MaxFaults /\ sendExtraAck \in BOOLEAN
  BY DEF LineTypeOK, Items
<1>2. toRcv' \in Seq(Items)
  <2>1. CASE toRcv' = toRcv \o Intact(out')
    BY <1>1, <2>1, IntactTyped
  <2>2. ASSUME NEW i \in DOMAIN out', NEW h \in Harmed(out'[i]),
               toRcv' = toRcv \o Intact(SubSeq(out', 1, i - 1)) \o h
                              \o Intact(SubSeq(out', i + 1, Len(out')))
        PROVE  toRcv' \in Seq(Items)
    <3>1. out'[i] \in Messages /\ i \in Nat /\ i >= 1 /\ i <= Len(out') /\ Len(out') \in Nat
      OBVIOUS
    <3>2. h \in Seq(Items)
      BY <3>1, HarmedTyped
    <3>3. SubSeq(out', 1, i - 1) \in Seq(Messages) /\ SubSeq(out', i + 1, Len(out')) \in Seq(Messages)
      BY <3>1
    <3>4. Intact(SubSeq(out', 1, i - 1)) \in Seq(Items)
          /\ Intact(SubSeq(out', i + 1, Len(out'))) \in Seq(Items)
      BY <3>3, IntactTyped
    <3> QED
      BY <1>1, <2>2, <3>2, <3>4
  <2> QED
    BY <2>1, <2>2 DEF MsgFromTerm2
<1>3. toSnd' \in Seq(ControlBytes)
  BY DEF MsgFromTerm2, ControlBytes
<1>4. sendExtraAck' \in BOOLEAN
  BY Zenon, <1>1 DEF MsgFromTerm2
<1>5. faults' \in 0..MaxFaults
  <2>1. faults' = faults \/ (faults < MaxFaults /\ faults' = faults + 1)
    BY Zenon DEF MsgFromTerm2
  <2> QED
    BY <1>1, <2>1, SessionAssumption
<1> QED
  BY <1>2, <1>3, <1>4, <1>5

(* What a receiver's step answers.                                         *)
LEMMA AnswerTypes ==
  /\ R!cans => TypesOf(rOut') = [i \in 1..CAN_LEN |-> CAN]
  /\ R!Silent => TypesOf(rOut') = <<>>
  /\ \A b \in Seq(ControlBytes) : R!send(b) => TypesOf(rOut') = b
<1>1. R!cans => TypesOf(rOut') = [i \in 1..CAN_LEN |-> CAN]
  BY DEF R!cans, R!Cans, R!Byte, R!CAN, CAN, TypesOf
<1>2. R!Silent => TypesOf(rOut') = <<>>
  BY DEF R!Silent, TypesOf
<1>3. ASSUME NEW b \in Seq(ControlBytes), R!send(b)
      PROVE  TypesOf(rOut') = b
  <2>1. rOut' = [i \in 1..Len(b) |-> R!Byte(b[i])] /\ Len(b) \in Nat
    BY <1>3 DEF R!send
  <2>2. DOMAIN rOut' = 1..Len(b) /\ \A i \in 1..Len(b) : rOut'[i].type = b[i]
    BY <2>1 DEF R!Byte
  <2>3. TypesOf(rOut') = [i \in 1..Len(b) |-> b[i]]
    BY <2>2 DEF TypesOf
  <2> QED
    BY <2>3
<1> QED
  BY <1>1, <1>2, <1>3

LEMMA ReceiverWrites ==
  ASSUME (\E c : R!SER(c)) \/ (\E q, m : R!SER_SOH(q, m)) \/ R!TM \/ R!KB_C
  PROVE  TypesOf(rOut') \in Seq(ControlBytes)
<1>1. /\ R!ACK = ACK /\ R!NAK = NAK /\ R!C = C
      /\ {ACK, NAK, C, CAN} \subseteq ControlBytes
  BY DEF R!ACK, R!NAK, R!C, ACK, NAK, C, CAN, ControlBytes
<1>2. /\ <<ACK>> \in Seq(ControlBytes) /\ <<NAK>> \in Seq(ControlBytes)
      /\ <<C>> \in Seq(ControlBytes) /\ <<ACK, C>> \in Seq(ControlBytes)
      /\ [i \in 1..CAN_LEN |-> CAN] \in Seq(ControlBytes) /\ <<>> \in Seq(ControlBytes)
  <2>1. CAN_LEN \in Nat /\ \A i \in 1..CAN_LEN : CAN \in ControlBytes
    BY <1>1, BoundAssumption
  <2>2. [i \in 1..CAN_LEN |-> CAN] \in Seq(ControlBytes)
    BY <2>1, IsASeq
  <2> QED
    BY <1>1, <2>2
<1> DEFINE Answer == \/ R!cans \/ R!Silent
                     \/ \E b \in {<<ACK>>, <<NAK>>, <<C>>, <<ACK, C>>} : R!send(b)
<1>3. Answer => TypesOf(rOut') \in Seq(ControlBytes)
  BY <1>2, AnswerTypes
<1>4. ASSUME NEW c, R!SER(c) PROVE Answer
  BY <1>1, <1>4 DEF R!SER, R!FirstByteData_EOT, R!EOT_Closed, R!EOT_CloseError, R!FirstByteStat_EOT,
     R!FirstByteStat_ExcessiveEOTs, R!FirstCan, R!CAN_Resume, R!CAN_Cancelled, R!Ignored,
     R!CancelAtByte, R!Resume
<1>5. ASSUME NEW q, NEW m, R!SER_SOH(q, m) PROVE Answer
  BY <1>1, <1>5 DEF R!SER_SOH, R!StatBlock, R!Stat_Rejected, R!Stat_NoMoreFiles, R!Stat_FileOpened,
     R!Stat_CreatError, R!Stat_SizeThrows, R!Stat_GivenUp, R!DataBlock
<1>6. CASE R!CondTransientData_Answer
  <2>1. R!send(IF ~goodBlk THEN <<NAK>> ELSE IF anotherFile THEN <<ACK, C>> ELSE <<ACK>>)
    BY <1>1, <1>6, Zenon DEF R!CondTransientData_Answer
  <2>2. R!send(<<NAK>>) \/ R!send(<<ACK, C>>) \/ R!send(<<ACK>>)
    BY <2>1, Zenon
  <2> QED
    BY <1>3, <2>2, Zenon
<1>7. CASE R!Retry
  <2>1. R!send(IF rFileD = R!Closed THEN <<C>> ELSE <<NAK>>)
    BY <1>1, <1>7, Zenon DEF R!Retry
  <2>2. R!send(<<C>>) \/ R!send(<<NAK>>)
    BY <2>1, Zenon
  <2> QED
    BY <1>3, <2>2, Zenon
<1>8. CASE R!CondTransientData_GivenUp \/ R!CAN_TM \/ R!AreWeDone_TM \/ R!TopLevel_TM \/ R!KB_C
  <2>1. R!cans \/ R!Silent
    BY <1>8, Zenon DEF R!CondTransientData_GivenUp, R!CAN_TM, R!Resume, R!AreWeDone_TM, R!TopLevel_TM, R!KB_C,
              R!CondTransientData_KB_C, R!TopLevel_KB_C
  <2> QED
    BY <1>3, <2>1, Zenon
<1> HIDE DEF Answer
<1> QED
  BY <1>3, <1>4, <1>5, <1>6, <1>7, <1>8 DEF R!TM

(***************************************************************************)
(* The sender in a session takes steps of SenderY in its open environment, *)
(* and the line keeps its types.                                           *)
(***************************************************************************)
LEMMA SenderSteps ==
  ASSUME LineTypeOK, [SessionNext]_sessionVars
  PROVE  [Next]_vars
<1>1. CASE SenderSER
  <2>1. Head(toSnd) \in ControlBytes
    BY <1>1 DEF SenderSER, LineTypeOK
  <2> QED
    BY <1>1, <2>1 DEF SenderSER, Next
<1>2. CASE SenderTM \/ SenderKB_C
  BY <1>2 DEF SenderTM, SenderKB_C, Next
<1>3. CASE ReceiverSER \/ ReceiverTM \/ ReceiverKB_C \/ MsgFromTerm1 \/ ExtraAckAtLastByte \/ Unread
  BY <1>3 DEF ReceiverSER, ReceiverTM, ReceiverKB_C, MsgFromTerm1, ExtraAckAtLastByte, Unread, senderVars
<1>4. CASE UNCHANGED sessionVars
  BY <1>4 DEF sessionVars, senderVars
<1> QED
  BY <1>1, <1>2, <1>3, <1>4 DEF SessionNext

LEMMA ReceiverLine ==
  ASSUME LineTypeOK, ReceiverSER \/ ReceiverTM \/ ReceiverKB_C
  PROVE  LineTypeOK'
<1>1. TypesOf(rOut') \in Seq(ControlBytes)
  BY ReceiverWrites DEF ReceiverSER, ReceiverTM, ReceiverKB_C
<1>2. fromRcv' = fromRcv \o TypesOf(rOut')
  BY DEF ReceiverSER, ReceiverTM, ReceiverKB_C, Answers, TypesOf
<1>3. UNCHANGED <<toSnd, sendExtraAck, faults>>
  BY DEF ReceiverSER, ReceiverTM, ReceiverKB_C
<1>4. toRcv' \in Seq(Items)
  <2>1. toRcv \in Seq(Items)
    BY DEF LineTypeOK, Items
  <2>2. CASE ReceiverSER
    <3>1. toRcv # <<>> /\ (toRcv' \in Kept(Tail(toRcv)) \/ toRcv' \in Kept(toRcv))
      BY <2>2, Zenon DEF ReceiverSER
    <3>2. Tail(toRcv) \in Seq(Items)
      BY <2>1, <3>1
    <3> QED
      BY <2>1, <3>1, <3>2, KeptTyped
  <2>3. CASE ReceiverTM \/ ReceiverKB_C
    BY <2>1, <2>3 DEF ReceiverTM, ReceiverKB_C
  <2> QED
    BY <2>2, <2>3
<1>5. fromRcv' \in Seq(ControlBytes)
  BY <1>1, <1>2 DEF LineTypeOK
<1> QED
  BY <1>3, <1>4, <1>5 DEF LineTypeOK, Items

LEMMA MediumLine ==
  ASSUME LineTypeOK, MsgFromTerm1 \/ ExtraAckAtLastByte \/ Unread
  PROVE  LineTypeOK'
<1>1. CASE MsgFromTerm1
  <2>1. Head(fromRcv) \in ControlBytes /\ fromRcv' \in Seq(ControlBytes) /\ UNCHANGED toRcv
    BY <1>1 DEF MsgFromTerm1, LineTypeOK
  <2>2. toSnd' \in Seq(ControlBytes) /\ sendExtraAck' \in BOOLEAN
    <3>1. NAK \in ControlBytes /\ \A g \in Glitches : g \in ControlBytes
      BY SessionAssumption DEF ControlBytes
    <3>2. toSnd \in Seq(ControlBytes) /\ sendExtraAck \in BOOLEAN
      BY DEF LineTypeOK
    <3> DEFINE b == Head(fromRcv)
    <3>3. /\ \/ toSnd' \in {toSnd, Append(toSnd, b), Append(toSnd, NAK)}
             \/ \E g \in Glitches : toSnd' = toSnd \o <<g, b>>
          /\ sendExtraAck' = sendExtraAck \/ sendExtraAck' = TRUE
      BY <1>1 DEF MsgFromTerm1
    <3>4. b \in ControlBytes
      BY <2>1
    <3> HIDE DEF b
    <3>5. \A g \in Glitches : <<g, b>> \in Seq(ControlBytes)
      BY <3>1, <3>4
    <3>6. /\ Append(toSnd, b) \in Seq(ControlBytes) /\ Append(toSnd, NAK) \in Seq(ControlBytes)
          /\ \A g \in Glitches : toSnd \o <<g, b>> \in Seq(ControlBytes)
      BY <3>1, <3>2, <3>4, <3>5
    <3>7. toSnd' \in Seq(ControlBytes)
      BY <3>2, <3>3, <3>6, Zenon
    <3>8. sendExtraAck' \in BOOLEAN
      BY <3>2, <3>3, Zenon
    <3> QED
      BY <3>7, <3>8
  <2>3. faults' \in 0..MaxFaults
    <3>1. faults' = faults \/ (faults < MaxFaults /\ faults' = faults + 1)
      BY <1>1, Zenon DEF MsgFromTerm1
    <3> QED
      BY <3>1, SessionAssumption DEF LineTypeOK
  <2> QED
    BY <2>1, <2>2, <2>3 DEF LineTypeOK, Items
<1>2. CASE ExtraAckAtLastByte
  <2>1. ACK \in ControlBytes
    BY DEF ControlBytes
  <2>2. toSnd' \in Seq(ControlBytes) /\ sendExtraAck' = FALSE
    <3>1. toSnd' = Append(toSnd, ACK) /\ sendExtraAck' = FALSE
      BY <1>2 DEF ExtraAckAtLastByte
    <3>2. toSnd \in Seq(ControlBytes)
      BY DEF LineTypeOK
    <3>3. Append(toSnd, ACK) \in Seq(ControlBytes)
      BY <2>1, <3>2
    <3> QED
      BY <3>1, <3>3, Zenon
  <2>3. UNCHANGED <<toRcv, fromRcv, faults>>
    BY <1>2 DEF ExtraAckAtLastByte
  <2> QED
    BY <2>2, <2>3, LineKept, LineParts
<1>3. CASE Unread
  <2>1. /\ UNCHANGED <<fromRcv, sendExtraAck, faults>>
        /\ UNCHANGED toRcv \/ toRcv' = <<>>
        /\ UNCHANGED toSnd \/ toSnd' = <<>>
    BY <1>3 DEF Unread
  <2>2. toRcv' \in Seq(Items) /\ toSnd' \in Seq(ControlBytes)
    <3>1. <<>> \in Seq(Items) /\ <<>> \in Seq(ControlBytes)
      OBVIOUS
    <3> QED
      BY <2>1, <3>1, LineKept, Zenon
  <2> QED
    BY <2>1, <2>2, LineKept, LineParts
<1> QED
  BY <1>1, <1>2, <1>3

LEMMA LineStep ==
  ASSUME IInv, LineTypeOK, [SessionNext]_sessionVars
  PROVE  IInv' /\ LineTypeOK'
<1>1. IInv'
  BY SenderSteps, StepIInv
<1>2. out' \in Seq(Messages)
  BY <1>1 DEF IInv, TypeOK
<1>3. ASSUME NEW unread \in Seq(ControlBytes), MsgFromTerm2(unread), UNCHANGED fromRcv
      PROVE  LineTypeOK'
  BY <1>2, <1>3, Term2Typed, LineKept, LineParts
<1>4. CASE SenderSER
  <2>1. Tail(toSnd) \in Seq(ControlBytes)
    BY <1>4 DEF SenderSER, LineTypeOK
  <2> QED
    BY <1>1, <1>3, <1>4, <2>1, Zenon DEF SenderSER
<1>5. CASE SenderTM
  <2>1. toSnd \in Seq(ControlBytes)
    BY DEF LineTypeOK
  <2> QED
    BY <1>1, <1>3, <1>5, <2>1, Zenon DEF SenderTM
<1>6. CASE UNCHANGED line
  <2>1. UNCHANGED toRcv /\ UNCHANGED fromRcv /\ UNCHANGED toSnd /\ UNCHANGED sendExtraAck
        /\ UNCHANGED faults
    BY <1>6 DEF line
  <2> QED
    BY <1>1, <2>1, LineKept, LineParts, Zenon
<1>7. SenderKB_C \/ UNCHANGED sessionVars => UNCHANGED line
  BY DEF SenderKB_C, sessionVars
<1> QED
  BY <1>1, <1>4, <1>5, <1>6, <1>7, ReceiverLine, MediumLine DEF SessionNext

LEMMA LineInit ==
  ASSUME SessionInit
  PROVE  IInv /\ LineTypeOK
<1>1. IInv
  BY InitInv DEF SessionInit, IInv
<1>2. LineTypeOK
  <2>1. /\ <<C>> \in Seq(ControlBytes) /\ FALSE \in BOOLEAN /\ 0 \in 0..MaxFaults
    BY SessionAssumption DEF ControlBytes
  <2>2. <<>> \in Seq([msg : Messages, quality : Qualities]) /\ <<>> \in Seq(ControlBytes)
    OBVIOUS
  <2> QED
    BY <2>1, <2>2, Zenon DEF SessionInit, LineTypeOK
<1> QED
  BY <1>1, <1>2

-----------------------------------------------------------------------------

\* Whatever the medium does, what travels on the line are messages and bytes
\* the peers know, and the sender's buffers hold what SenderY says they do.
THEOREM LineInvariant == Session => [](IInv /\ LineTypeOK)
<1>1. (IInv /\ LineTypeOK) /\ [SessionNext]_sessionVars => (IInv /\ LineTypeOK)'
  BY LineStep
<1> QED
  BY <1>1, LineInit, PTL DEF Session

\* The line keeps its types (Medium.cpp forwards or harms, and counts faults).
THEOREM LineTyped == Session => []LineTypeOK
BY LineInvariant, PTL

\* The sender of a session is a SenderY in its open environment: all that is
\* proved of SenderY holds in every session, over any line.
THEOREM SenderInSession == Session => Spec
<1>1. SessionInit => Init
  BY DEF SessionInit
<1>2. LineTypeOK /\ [SessionNext]_sessionVars => [Next]_vars
  BY SenderSteps
<1> QED
  BY <1>1, <1>2, LineTyped, PTL DEF Session, Spec

-----------------------------------------------------------------------------
(***************************************************************************)
(* A medium that makes up nothing: it damages blocks behind their SOH,     *)
(* turns an EOT or a CAN into noise, and loses bytes of the receiver, as   *)
(* often as it likes.  (A block that loses its SOH makes bytes up: its     *)
(* number may be EOT or CAN.)  Behind it the two peers go through a file   *)
(* in step, and the invariant says where each can be: by the phase the     *)
(* receiver is in, the states of the sender and what is on its way.        *)
(***************************************************************************)
NothingMadeUp == FaultKinds \subseteq {"damaged", "garbled", "lost"}

(* The answers on their way to the sender, on either side of the medium.   *)
Coming == toSnd \o fromRcv
NoneOr(S) == {<<>>} \cup {<<c>> : c \in S}
AckAndC == NoneOr({ACK, C}) \cup {<<ACK, C>>}
AckOrMore == NoneOr({ACK, NAK, C}) \cup {<<ACK, C>>}

(* The message m, or what is left of it, on its way to the receiver; or    *)
(* the answer to it on its way back, when that was not lost.               *)
Arriving(m) == {<<Noise(GLITCH)>>} \cup {<<Item(m, q)>> : q \in R!Qualities}
Answered(W) == toRcv = <<>> /\ Coming \in W
Exchange(m, W) == Answered(W) \/ (toRcv \in Arriving(m) /\ Coming = <<>>)

(* The file the receiver is to complete next, 0 after the last one, and    *)
(* how many of its chunks are on its disk.                                 *)
Due == IF rDone < NumFiles THEN rDone + 1 ELSE 0
OnDisk == Len(disk[rDone + 1])

StatOf(g) == Blk(0, g, 0)
DataOf(g, k) == Blk(k % NumMod, g, k)
EndOf(b, g) == LastOfFile(b) /\ b.file = g

(* The receiver waits for a stat block.  The sender has not been answered  *)
(* its second EOT yet, is about to send the block, or has sent it.         *)
StatDue ==
  /\ rActive = "FirstByteStat" /\ rTimer = "SOH"
  /\ rFileD = Closed /\ numLastGoodBlk = NumMod - 1
  /\ rDone < NumFiles => disk[rDone + 1] = <<>>
  /\ rcvBlk = StatOf(Due) \/ (rcvBlk = NoBlk /\ rDone = 0) \/ EndOf(rcvBlk, rDone)
  /\ \/ /\ active = "EOTEOT" /\ EndOf(lastBlk, rDone)
        /\ fileName = rDone /\ done < rDone /\ Answered(AckAndC)
     \/ active = "StatC" /\ fileName = Due /\ Answered(NoneOr({C}))
     \/ /\ active = "ACKNAKSTAT" /\ fileName = Due /\ lastBlk = StatOf(Due)
        /\ Exchange(StatOf(Due), NoneOr({C, NAK}))

(* Both are at the file that is due; k is the number of the block the      *)
(* receiver took last, the stat block's being 0.                           *)
InFile(k) ==
  /\ rDone < NumFiles /\ fileName = rDone + 1
  /\ rFileD = Descriptor /\ rFileName = rDone + 1
  /\ OnDisk <= Chunks[rDone + 1]
  /\ bytesRemaining = FileSize(rDone + 1) - (OnDisk * ChunkSz)
  /\ numLastGoodBlk = k % NumMod
  /\ k > 0 => ~anotherFile

(* The receiver waits for the next block of the file, or its EOT.          *)
DataDue ==
  /\ rActive = "FirstByteData" /\ rTimer = "SOH"
  /\ InFile(OnDisk)
  /\ rcvBlk \in {DataOf(rDone + 1, OnDisk), lastBlk}
  /\ \/ /\ active = "ACKNAKSTAT" /\ OnDisk = 0 /\ lastBlk = StatOf(rDone + 1)
        /\ Exchange(lastBlk, AckOrMore)
     \/ /\ active = "ONE" /\ OnDisk = 0 /\ lastBlk = StatOf(rDone + 1)
        /\ Answered(NoneOr({C, NAK}))
     \/ /\ active = "ACKNAK" /\ lastBlk = DataOf(rDone + 1, OnDisk + 1)
        /\ Exchange(lastBlk, NoneOr({NAK}))
     \/ /\ active = "ACKNAK" /\ OnDisk > 0 /\ lastBlk = DataOf(rDone + 1, OnDisk)
        /\ Exchange(lastBlk, NoneOr({NAK, ACK}))
     \/ /\ active \in {"EOT1", "EOTEOT"} /\ EndOf(lastBlk, rDone + 1)
        /\ lastBlk = DataOf(rDone + 1, OnDisk)
        /\ Exchange(Byte(EOT), NoneOr({NAK}))

(* The receiver is about to answer the block that is out.                  *)
Judged ==
  /\ rActive = "CondTransientData" /\ toRcv = <<>> /\ Coming = <<>>
  /\ InFile(IF goodBlk1st THEN OnDisk + 1 ELSE OnDisk)
  /\ rcvBlk = lastBlk
  /\ \/ /\ active = "ACKNAK" /\ lastBlk = DataOf(rDone + 1, OnDisk + 1)
        /\ goodBlk1st \/ ~goodBlk
     \/ /\ active = "ACKNAK" /\ OnDisk > 0 /\ lastBlk = DataOf(rDone + 1, OnDisk)
        /\ ~goodBlk1st
     \/ /\ active = "ACKNAKSTAT" /\ OnDisk = 0 /\ lastBlk = StatOf(rDone + 1)
        /\ ~goodBlk1st
  /\ goodBlk1st => goodBlk

(* The receiver has questioned the file's first EOT.                       *)
EndDue ==
  /\ rActive = "EOT" /\ rTimer = "SOH"
  /\ InFile(OnDisk)
  /\ EndOf(lastBlk, rDone + 1) /\ lastBlk = DataOf(rDone + 1, OnDisk)
  /\ rcvBlk = lastBlk
  /\ \/ active = "EOT1" /\ Answered(NoneOr({NAK}))
     \/ active = "EOTEOT" /\ Exchange(Byte(EOT), NoneOr({NAK}))

(* The receiver has answered the empty stat block.                         *)
AllThere ==
  /\ rActive = "AreWeDone" /\ rTimer = "SOH" /\ rDone = NumFiles
  /\ active = "ACKNAKSTAT" /\ fileName = 0
  /\ Answered(NoneOr({ACK}))

(* One of the peers has stopped.  A block the receiver judged good before  *)
(* it hears of that is still written.                                      *)
SenderGone ==
  /\ ~running /\ R!running
  /\ toRcv \in Seq({Noise(CAN), Noise(GLITCH)})
  /\ rActive = "CondTransientData" /\ goodBlk1st =>
       /\ rDone < NumFiles /\ rFileName = rDone + 1
       /\ rcvBlk = DataOf(rDone + 1, OnDisk + 1) /\ OnDisk < Chunks[rDone + 1]

ReceiverGone ==
  /\ ~R!running
  /\ running => toSnd \in Seq({CAN}) /\ fromRcv \in Seq({CAN})

Phase ==
  \/ StatDue \/ DataDue \/ Judged \/ EndDue \/ AllThere
  \/ SenderGone \/ ReceiverGone

(* The receiver's history, which no CAN disturbs in the phases of a file.  *)
RHistOK ==
  /\ DOMAIN rHist = R!NON_CAN \cup {"CAN"} \cup R!Super
  /\ rHist["NON_CAN"] \in {R!NoState, "FirstByteStat", "AreWeDone"}
  /\ rHist["DataCancelable"] = R!NoState

(* The files that are done are whole, and of those to come there is none.  *)
DiskOK ==
  /\ rDone \in 0..NumFiles /\ disk \in [0..NumFiles -> Seq(Messages)]
  /\ \A g \in Files : g <= rDone => Len(disk[g]) = Chunks[g]
  /\ \A g \in Files : g > rDone + 1 => disk[g] = <<>>

ClaimsOK == done <= rDone /\ (ending = "EndOfSession" => rDone = NumFiles)

InStep == Phase /\ RHistOK /\ DiskOK /\ ClaimsOK /\ sendExtraAck = FALSE

-----------------------------------------------------------------------------
(***************************************************************************)
(* What is on the line after each of its steps.                            *)
(***************************************************************************)
LEMMA SplitNone ==
  ASSUME NEW S, NEW s \in Seq(S), NEW t \in Seq(S), s \o t = <<>>
  PROVE  s = <<>> /\ t = <<>>
<1>1. Len(s \o t) = Len(s) + Len(t) /\ Len(s) \in Nat /\ Len(t) \in Nat
  OBVIOUS
<1>2. Len(s \o t) = 0
  OBVIOUS
<1>3. Len(s) = 0 /\ Len(t) = 0
  BY <1>1, <1>2
<1> QED
  BY <1>3

LEMMA SplitOne ==
  ASSUME NEW S, NEW s \in Seq(S), NEW t \in Seq(S), NEW c, s \o t = <<c>>
  PROVE  (s = <<>> /\ t = <<c>>) \/ (s = <<c>> /\ t = <<>>)
<1>1. Len(s \o t) = Len(s) + Len(t) /\ Len(s) \in Nat /\ Len(t) \in Nat /\ Len(s \o t) = 1
  OBVIOUS
<1>2. (Len(s) = 0 /\ Len(t) = 1) \/ (Len(s) = 1 /\ Len(t) = 0)
  <2>1. \A i, j \in Nat : i + j = 1 => (i = 0 /\ j = 1) \/ (i = 1 /\ j = 0)
    OBVIOUS
  <2> QED
    BY ONLY <1>1, <2>1
<1>3. (s \o t)[1] = c
  OBVIOUS
<1>4. CASE Len(s) = 0 /\ Len(t) = 1
  <2>1. s = <<>> /\ t = <<t[1]>> /\ (s \o t)[1] = t[1]
    BY <1>4
  <2> QED
    BY <1>3, <2>1
<1>5. CASE Len(s) = 1 /\ Len(t) = 0
  <2>1. t = <<>> /\ s = <<s[1]>> /\ (s \o t)[1] = s[1]
    BY <1>5
  <2> QED
    BY <1>3, <2>1
<1> QED
  BY <1>2, <1>4, <1>5

LEMMA SplitTwo ==
  ASSUME NEW S, NEW s \in Seq(S), NEW t \in Seq(S), NEW a, NEW c, s \o t = <<a, c>>
  PROVE  \/ s = <<>> /\ t = <<a, c>>
         \/ s = <<a>> /\ t = <<c>>
         \/ s = <<a, c>> /\ t = <<>>
<1>1. Len(s \o t) = Len(s) + Len(t) /\ Len(s) \in Nat /\ Len(t) \in Nat /\ Len(s \o t) = 2
  <2>1. Len(s \o t) = Len(s) + Len(t) /\ Len(s) \in Nat /\ Len(t) \in Nat
    BY ConcatProperties, LenProperties
  <2>2. Len(<<a, c>>) = 2
    OBVIOUS
  <2> QED
    BY <2>1, <2>2
<1>2. \/ Len(s) = 0 /\ Len(t) = 2
      \/ Len(s) = 1 /\ Len(t) = 1
      \/ Len(s) = 2 /\ Len(t) = 0
  <2>1. \A i, j \in Nat : i + j = 2 => (i = 0 /\ j = 2) \/ (i = 1 /\ j = 1) \/ (i = 2 /\ j = 0)
    OBVIOUS
  <2> QED
    BY ONLY <1>1, <2>1
<1>3. (s \o t)[1] = a /\ (s \o t)[2] = c
  OBVIOUS
<1>4. CASE Len(s) = 0 /\ Len(t) = 2
  <2>1. s = <<>> /\ t = <<t[1], t[2]>> /\ (s \o t)[1] = t[1] /\ (s \o t)[2] = t[2]
    BY <1>4
  <2> QED
    BY <1>3, <2>1
<1>5. CASE Len(s) = 1 /\ Len(t) = 1
  <2>1. s = <<s[1]>> /\ t = <<t[1]>>
    BY <1>5
  <2>2. \A i \in 1..(Len(s) + Len(t)) :
          (s \o t)[i] = IF i <= Len(s) THEN s[i] ELSE t[i - Len(s)]
    BY ConcatProperties, Zenon
  <2> DEFINE st == s \o t
  <2>4. \A i \in 1..(1 + 1) : st[i] = IF i <= 1 THEN s[i] ELSE t[i - 1]
    BY <1>5, <2>2, Zenon
  <2> HIDE DEF st
  <2>5. st[1] = s[1] /\ st[2] = t[1]
    BY ONLY <2>4
  <2>3. (s \o t)[1] = s[1] /\ (s \o t)[2] = t[1]
    BY <2>5 DEF st
  <2> QED
    BY <1>3, <2>1, <2>3
<1>6. CASE Len(s) = 2 /\ Len(t) = 0
  <2>1. t = <<>> /\ s = <<s[1], s[2]>> /\ (s \o t)[1] = s[1] /\ (s \o t)[2] = s[2]
    BY <1>6
  <2> QED
    BY <1>3, <2>1
<1> QED
  BY <1>2, <1>4, <1>5, <1>6

LEMMA PassedOn ==
  ASSUME NEW S, NEW s \in Seq(S), NEW t \in Seq(S), t # <<>>
  PROVE  Append(s, Head(t)) \o Tail(t) = s \o t
<1>1. t = <<Head(t)>> \o Tail(t) /\ Tail(t) \in Seq(S) /\ <<Head(t)>> \in Seq(S) /\ Head(t) \in S
  OBVIOUS
<1>2. Append(s, Head(t)) = s \o <<Head(t)>>
  BY <1>1, AppendIsConcat
<1>3. (s \o <<Head(t)>>) \o Tail(t) = s \o (<<Head(t)>> \o Tail(t))
  BY <1>1, ConcatAssociative
<1> QED
  BY <1>1, <1>2, <1>3

(* The medium forwards one byte of the receiver, or loses it.              *)
LEMMA Forwarded ==
  ASSUME NothingMadeUp, LineTypeOK, MsgFromTerm1
  PROVE  /\ UNCHANGED <<senderVars, receiverVars, toRcv, sendExtraAck>>
         /\ Coming # <<>>
         /\ \A S : Coming \in NoneOr(S) => Coming' \in NoneOr(S)
         /\ Coming \in AckAndC => Coming' \in AckAndC
         /\ Coming \in AckOrMore => Coming' \in AckOrMore
         /\ toSnd \in Seq({CAN}) /\ fromRcv \in Seq({CAN}) => toSnd' \in Seq({CAN}) /\ fromRcv' \in Seq({CAN})
<1>1. /\ toSnd \in Seq(ControlBytes) /\ fromRcv \in Seq(ControlBytes)
      /\ fromRcv # <<>> /\ fromRcv' = Tail(fromRcv)
      /\ toSnd' = Append(toSnd, Head(fromRcv)) \/ toSnd' = toSnd
  BY DEF LineTypeOK, MsgFromTerm1, NothingMadeUp
<1>2. UNCHANGED <<senderVars, receiverVars, toRcv, sendExtraAck>>
  BY DEF MsgFromTerm1, NothingMadeUp
<1>3. Coming # <<>>
  BY <1>1, SplitNone DEF Coming
<1>4. ASSUME NEW c, Coming = <<c>>
      PROVE  Coming' \in {<<>>, <<c>>}
  <2>1. toSnd = <<>> /\ fromRcv = <<c>>
    BY <1>1, <1>4, SplitOne DEF Coming
  <2>2. fromRcv' = <<>> /\ toSnd' \in {<<>>, <<c>>}
    BY <1>1, <2>1
  <2>3. toSnd' \o fromRcv' \in {<<>>, <<c>>}
    BY <2>2
  <2> QED
    BY <2>3 DEF Coming
<1>5. ASSUME NEW a, NEW c, Coming = <<a, c>>
      PROVE  Coming' \in {<<a>>, <<c>>, <<a, c>>}
  <2>1. \/ toSnd = <<>> /\ fromRcv = <<a, c>>
        \/ toSnd = <<a>> /\ fromRcv = <<c>>
    BY <1>1, <1>5, SplitTwo DEF Coming
  <2>2. CASE toSnd' = Append(toSnd, Head(fromRcv))
    BY <1>1, <1>5, <2>2, PassedOn DEF Coming
  <2>3. CASE toSnd' = toSnd
    <3>1. CASE toSnd = <<>> /\ fromRcv = <<a, c>>
      <4>1. fromRcv' = <<c>> /\ toSnd' = <<>> /\ <<>> \o <<c>> = <<c>>
        BY <1>1, <2>3, <3>1
      <4> QED
        BY <4>1 DEF Coming
    <3>2. CASE toSnd = <<a>> /\ fromRcv = <<c>>
      <4>1. fromRcv' = <<>> /\ toSnd' = <<a>> /\ <<a>> \o <<>> = <<a>>
        BY <1>1, <2>3, <3>2
      <4> QED
        BY <4>1 DEF Coming
    <3> QED
      BY <2>1, <3>1, <3>2
  <2> QED
    BY <1>1, <2>2, <2>3
<1>6. ASSUME NEW S, Coming \in NoneOr(S)
      PROVE  Coming' \in NoneOr(S)
  <2>1. PICK c \in S : Coming = <<c>>
    BY <1>3, <1>6, Zenon DEF NoneOr
  <2>2. Coming' = <<>> \/ Coming' = <<c>>
    BY <1>4, <2>1
  <2> QED
    BY <2>2, Zenon DEF NoneOr
<1>7. ASSUME Coming = <<ACK, C>>
      PROVE  Coming' \in AckAndC /\ Coming' \in AckOrMore
  <2>1. Coming' \in {<<ACK>>, <<C>>, <<ACK, C>>}
    BY <1>5, <1>7
  <2> QED
    BY <2>1, Zenon DEF AckAndC, AckOrMore, NoneOr
<1>8. (Coming \in AckAndC => Coming' \in AckAndC) /\ (Coming \in AckOrMore => Coming' \in AckOrMore)
  <2>1. Coming \in AckAndC => Coming \in NoneOr({ACK, C}) \/ Coming = <<ACK, C>>
    BY Zenon DEF AckAndC
  <2>2. Coming \in AckOrMore => Coming \in NoneOr({ACK, NAK, C}) \/ Coming = <<ACK, C>>
    BY Zenon DEF AckOrMore
  <2>3. /\ Coming' \in NoneOr({ACK, C}) => Coming' \in AckAndC
        /\ Coming' \in NoneOr({ACK, NAK, C}) => Coming' \in AckOrMore
    BY Zenon DEF AckAndC, AckOrMore
  <2> QED
    BY <1>6, <1>7, <2>1, <2>2, <2>3
<1>9. ASSUME toSnd \in Seq({CAN}), fromRcv \in Seq({CAN})
      PROVE  toSnd' \in Seq({CAN}) /\ fromRcv' \in Seq({CAN})
  BY <1>1, <1>9
<1> QED
  BY <1>2, <1>3, <1>6, <1>8, <1>9

(* The sender reads the first of the answers that are coming.              *)
LEMMA ReadOne ==
  ASSUME LineTypeOK, NEW S, Coming \in NoneOr(S), toSnd # <<>>
  PROVE  Head(toSnd) \in S /\ Tail(toSnd) = <<>> /\ fromRcv = <<>>
<1>1. toSnd \in Seq(ControlBytes) /\ fromRcv \in Seq(ControlBytes)
  BY DEF LineTypeOK
<1>2. Coming # <<>>
  BY <1>1, SplitNone DEF Coming
<1>3. PICK c \in S : Coming = <<c>>
  BY <1>2, Zenon DEF NoneOr
<1>4. toSnd = <<c>> /\ fromRcv = <<>>
  BY <1>1, <1>3, SplitOne DEF Coming
<1> QED
  BY <1>4

LEMMA ReadTwo ==
  ASSUME LineTypeOK, Coming = <<ACK, C>>, toSnd # <<>>
  PROVE  Head(toSnd) = ACK /\ Tail(toSnd) \o fromRcv = <<C>>
<1>1. toSnd \in Seq(ControlBytes) /\ fromRcv \in Seq(ControlBytes)
  BY DEF LineTypeOK
<1>2. \/ toSnd = <<ACK>> /\ fromRcv = <<C>>
      \/ toSnd = <<ACK, C>> /\ fromRcv = <<>>
  BY <1>1, SplitTwo DEF Coming
<1>3. CASE toSnd = <<ACK>> /\ fromRcv = <<C>>
  BY <1>3
<1>4. CASE toSnd = <<ACK, C>> /\ fromRcv = <<>>
  BY <1>4
<1> QED
  BY <1>2, <1>3, <1>4

(* What the sender writes, as it leaves this medium.                       *)
LEMMA Written1 ==
  ASSUME NothingMadeUp, sendExtraAck = FALSE, NEW m, out' = <<m>>, m.type \in {SOH, EOT},
         toRcv = <<>>, NEW unread, MsgFromTerm2(unread)
  PROVE  /\ toRcv' \in Arriving(m) /\ sendExtraAck' = FALSE
         /\ toSnd' = unread \/ toSnd' = <<>>
<1>1. sendExtraAck' = FALSE /\ (toSnd' = unread \/ toSnd' = <<>>)
  BY DEF MsgFromTerm2
<1>2. Intact(<<m>>) = <<Item(m, "good")>> /\ Intact(<<>>) = <<>>
  BY DEF Intact
<1>3. \A h \in Harmed(m) : h \in Arriving(m)
  BY DEF Harmed, HarmedBlock, HarmedByte, Arriving, NothingMadeUp
<1>4. <<Item(m, "good")>> \in Arriving(m)
  BY DEF Arriving, R!Qualities
<1>5. \/ toRcv' = toRcv \o Intact(<<m>>)
      \/ \E h \in Harmed(m) : toRcv' = toRcv \o Intact(SubSeq(<<m>>, 1, 1 - 1)) \o h
                                            \o Intact(SubSeq(<<m>>, 1 + 1, Len(<<m>>)))
  <2>1. DOMAIN out' = {1} /\ out'[1] = m
    OBVIOUS
  <2> QED
    BY <2>1 DEF MsgFromTerm2
<1>6. SubSeq(<<m>>, 1, 1 - 1) = <<>> /\ SubSeq(<<m>>, 1 + 1, Len(<<m>>)) = <<>>
  OBVIOUS
<1>7. CASE toRcv' = toRcv \o Intact(<<m>>)
  BY <1>1, <1>2, <1>4, <1>7
<1>8. ASSUME NEW h \in Harmed(m), toRcv' = toRcv \o Intact(SubSeq(<<m>>, 1, 1 - 1)) \o h
                                            \o Intact(SubSeq(<<m>>, 1 + 1, Len(<<m>>)))
      PROVE  toRcv' \in Arriving(m)
  <2>1. toRcv' = <<>> \o <<>> \o h \o <<>>
    BY <1>2, <1>6, <1>8
  <2>2. \A i \in {Noise(GLITCH)} \cup {Item(m, q) : q \in R!Qualities} : <<>> \o <<>> \o <<i>> \o <<>> = <<i>>
    OBVIOUS
  <2>3. \E i \in {Noise(GLITCH)} \cup {Item(m, q) : q \in R!Qualities} : h = <<i>> /\ <<i>> \in Arriving(m)
    BY <1>3, Zenon DEF Arriving
  <2> QED
    BY <2>1, <2>2, <2>3
<1> QED
  BY <1>1, <1>5, <1>7, <1>8

LEMMA Written0 ==
  ASSUME LineTypeOK, sendExtraAck = FALSE, out' = <<>>, NEW unread, MsgFromTerm2(unread)
  PROVE  toRcv' = toRcv /\ sendExtraAck' = FALSE /\ toSnd' = unread
<1>1. DOMAIN out' = {}
  OBVIOUS
<1>2. Intact(out') = <<>>
  BY <1>1 DEF Intact
<1>3. toRcv' = toRcv \o Intact(out')
  BY <1>1 DEF MsgFromTerm2
<1>4. toRcv \in Seq(Items)
  BY DEF LineTypeOK, Items
<1>5. ~SendsBlock
  BY <1>1 DEF SendsBlock
<1>6. toRcv \o <<>> = toRcv
  BY <1>4
<1>7. toSnd' = unread /\ sendExtraAck' = FALSE
  BY <1>5, Zenon DEF MsgFromTerm2
<1> QED
  BY <1>2, <1>3, <1>6, <1>7

LEMMA WrittenCans ==
  ASSUME NothingMadeUp, LineTypeOK, sendExtraAck = FALSE, out' = Cans, toRcv = <<>>,
         NEW unread, MsgFromTerm2(unread)
  PROVE  toRcv' \in Seq({Noise(CAN), Noise(GLITCH)}) /\ sendExtraAck' = FALSE /\ toSnd' = unread
<1> DEFINE Waste == {Noise(CAN), Noise(GLITCH)}
<1>1. CAN_LEN \in Nat /\ CAN_LEN # 0
  BY BoundAssumption
<1>2. /\ out' \in Seq({Byte(CAN)}) /\ Len(out') = CAN_LEN /\ DOMAIN out' = 1..CAN_LEN
      /\ \A i \in DOMAIN out' : out'[i] = Byte(CAN)
  <2>1. out' = [i \in 1..CAN_LEN |-> Byte(CAN)]
    BY DEF Cans
  <2>2. [i \in 1..CAN_LEN |-> Byte(CAN)] \in Seq({Byte(CAN)})
    BY <1>1, IsASeq
  <2> QED
    BY <1>1, <2>1, <2>2
<1>3. \A s \in Seq({Byte(CAN)}) : Intact(s) \in Seq(Waste)
  <2> TAKE s \in Seq({Byte(CAN)})
  <2>1. Len(s) \in Nat /\ DOMAIN s = 1..Len(s) /\ \A i \in 1..Len(s) : s[i] = Byte(CAN)
    OBVIOUS
  <2>2. Intact(s) = [i \in 1..Len(s) |-> Noise(CAN)]
    BY <2>1 DEF Intact, Noise
  <2>3. [i \in 1..Len(s) |-> Noise(CAN)] \in Seq(Waste)
    BY <2>1, IsASeq
  <2> QED
    BY <2>2, <2>3
<1>4. ~SendsBlock
  BY <1>2 DEF SendsBlock, IsBlk, Byte, CAN, SOH
<1>5. toSnd' = unread /\ sendExtraAck' = FALSE
  BY <1>4 DEF MsgFromTerm2
<1>6. CASE toRcv' = toRcv \o Intact(out')
  <2>1. Intact(out') \in Seq(Waste)
    BY <1>2, <1>3
  <2> HIDE DEF Waste
  <2>2. toRcv' \in Seq(Waste)
    BY <1>6, <2>1
  <2> QED
    BY <1>5, <2>2 DEF Waste
<1>7. ASSUME NEW i \in DOMAIN out', NEW h \in Harmed(out'[i]),
             toRcv' = toRcv \o Intact(SubSeq(out', 1, i - 1)) \o h
                            \o Intact(SubSeq(out', i + 1, Len(out')))
      PROVE  toRcv' \in Seq(Waste)
  <2>1. h = <<Noise(GLITCH)>>
    BY <1>2 DEF Harmed, HarmedByte, NothingMadeUp, IsBlk, Byte, CAN, SOH
  <2>2. SubSeq(out', 1, i - 1) \in Seq({Byte(CAN)}) /\ SubSeq(out', i + 1, Len(out')) \in Seq({Byte(CAN)})
    BY <1>1, <1>2
  <2>3. Intact(SubSeq(out', 1, i - 1)) \in Seq(Waste) /\ Intact(SubSeq(out', i + 1, Len(out'))) \in Seq(Waste)
    BY <1>3, <2>2
  <2>4. h \in Seq(Waste)
    BY <2>1
  <2> HIDE DEF Waste
  <2> QED
    BY <1>7, <2>3, <2>4
<1> QED
  BY <1>5, <1>6, <1>7 DEF MsgFromTerm2

-----------------------------------------------------------------------------
(***************************************************************************)
(* What the receiver's events do, as far as the phases are concerned.      *)
(***************************************************************************)
RWaiting == {"FirstByteStat", "FirstByteData", "EOT", "AreWeDone"}

LEMMA RGoToLeaf ==
  ASSUME rActive \in RWaiting, NEW t \in RWaiting, R!GoTo(rActive, t)
  PROVE  rActive' = t /\ rHist' = rHist
BY DEF R!GoTo, R!SM!Enter, R!SM!Descend, R!SM!RecordExit, R!NON_CAN, R!DataStates, R!NoState, RWaiting

LEMMA RGoToJudgement ==
  ASSUME rActive \in R!DataStates, R!GoTo("DataCancelable", "CondTransientData")
  PROVE  rActive' = "CondTransientData" /\ rHist' = rHist
BY DEF R!GoTo, R!SM!Enter, R!SM!Descend, R!SM!RecordExit, R!NON_CAN, R!DataStates, R!Super, R!NoState

LEMMA RGoToData ==
  ASSUME RHistOK, rActive = "CondTransientData", R!GoTo("CondTransientData", "DataCancelable")
  PROVE  rActive' = "FirstByteData" /\ rHist' = rHist
BY DEF R!GoTo, R!SM!Enter, R!SM!Descend, R!SM!RecordExit, RHistOK, R!NON_CAN, R!DataStates, R!Super, R!NoState

LEMMA RGoToCan ==
  ASSUME RHistOK, rActive \in RWaiting, R!GoTo("NON_CAN", "CAN")
  PROVE  rActive' = "CAN" /\ RHistOK'
<1>1. rActive' = "CAN"
  BY DEF R!GoTo, R!SM!Enter, R!SM!Descend, R!SM!RecordExit, R!NON_CAN, R!DataStates, R!Super, R!NoState, RWaiting
<1>2. CASE rActive \in R!DataStates
  BY <1>1, <1>2 DEF R!GoTo, R!SM!RecordExit, RHistOK, R!NON_CAN, R!DataStates, R!Super, R!NoState
<1>3. CASE rActive \in {"FirstByteStat", "AreWeDone"}
  <2>1. rHist' = [rHist EXCEPT !["NON_CAN"] = rActive]
    BY <1>3 DEF R!GoTo, R!SM!RecordExit, R!NON_CAN, R!DataStates, R!Super, R!NoState
  <2> QED
    BY <1>1, <1>3, <2>1 DEF RHistOK, R!NON_CAN, R!Super
<1> QED
  BY <1>1, <1>2, <1>3 DEF RWaiting, R!DataStates

LEMMA RGoBack ==
  ASSUME RHistOK, rActive = "CAN", R!GoTo("CAN", "NON_CAN")
  PROVE  rHist' = rHist /\ rActive' \in {"FirstByteStat", "AreWeDone"}
BY DEF R!GoTo, R!SM!Enter, R!SM!Descend, R!SM!RecordExit, RHistOK, R!NON_CAN, R!DataStates, R!Super, R!NoState

(* The receiver stops, respectively stays as it is.                        *)
RStops == (R!cans \/ R!Silent) /\ rActive' = "Final" /\ UNCHANGED <<rHist, rDone, disk>>
RSame ==
  /\ R!Silent
  /\ UNCHANGED <<rActive, rHist, rTimer, rFileD, rFileName, bytesRemaining, numLastGoodBlk,
                 anotherFile, rcvBlk, goodBlk, goodBlk1st, rDone, disk>>

LEMMA RNoise ==
  ASSUME rActive \in RWaiting, NEW c \in {GLITCH, SOH}, R!SER(c)
  PROVE  RStops \/ RSame
<1>1. c # EOT /\ c # CAN /\ c # R!EOT /\ c # R!CAN /\ rActive # "CAN" /\ rActive # "CondTransientData"
  BY DEF GLITCH, SOH, EOT, CAN, R!EOT, R!CAN, RWaiting
<1>2. R!Ignored(c) \/ R!CancelAtByte(c)
  BY <1>1, Zenon DEF R!SER, R!FirstByteData_EOT, R!EOT_Closed, R!EOT_CloseError, R!FirstByteStat_EOT,
     R!FirstByteStat_ExcessiveEOTs, R!FirstCan, R!CAN_Resume, R!CAN_Cancelled, R!Resume
<1>3. CASE R!Ignored(c)
  BY <1>3 DEF R!Ignored, R!Stays, R!chart, R!timers, R!judgement, R!opened, R!contents, R!result, RSame
<1>4. CASE R!CancelAtByte(c)
  BY <1>4 DEF R!CancelAtByte, R!Finish, R!Final, R!contents, RStops
<1> QED
  BY <1>2, <1>3, <1>4

(* A block is noise to a state that takes it only when it is cancelled.    *)
LEMMA RNoBlock ==
  ASSUME rActive \in {"FirstByteStat", "FirstByteData"}, R!SER(SOH)
  PROVE  RStops
<1>1. SOH # EOT /\ SOH # CAN /\ SOH = R!SOH /\ SOH # R!EOT /\ SOH # R!CAN
  BY DEF SOH, EOT, CAN, R!EOT, R!CAN, R!SOH
<1>2. R!Ignored(SOH) \/ R!CancelAtByte(SOH)
  BY <1>1, Zenon DEF R!SER, R!FirstByteData_EOT, R!EOT_Closed, R!EOT_CloseError, R!FirstByteStat_EOT,
     R!FirstByteStat_ExcessiveEOTs, R!FirstCan, R!CAN_Resume, R!CAN_Cancelled, R!Resume
<1>3. ~R!Ignored(SOH)
  BY <1>1 DEF R!Ignored, R!LeafTakes, R!DataStates
<1>4. CASE R!CancelAtByte(SOH)
  BY <1>4 DEF R!CancelAtByte, R!Finish, R!Final, R!contents, RStops
<1> QED
  BY <1>2, <1>3, <1>4

LEMMA RStatBlock ==
  ASSUME rActive = "FirstByteStat", numLastGoodBlk = NumMod - 1, NEW g \in 0..NumFiles, NEW q,
         R!SER_SOH(q, StatOf(g))
  PROVE  \/ RStops
         \/ /\ rActive' = "FirstByteStat" /\ rTimer' = "SOH" /\ rcvBlk' = StatOf(g)
            /\ R!send(<<NAK>>) /\ UNCHANGED <<rHist, rFileD, numLastGoodBlk, rDone, disk>>
         \/ /\ g = 0 /\ rActive' = "AreWeDone" /\ rTimer' = "SOH"
            /\ R!send(<<ACK>>) /\ UNCHANGED <<rHist, rDone, disk>>
         \/ /\ g # 0 /\ rActive' = "FirstByteData" /\ rTimer' = "SOH" /\ rcvBlk' = StatOf(g)
            /\ rFileD' = Descriptor /\ rFileName' = g /\ bytesRemaining' = FileSize(g)
            /\ numLastGoodBlk' = 0
            /\ R!send(<<ACK, C>>) /\ disk' = [disk EXCEPT ![g] = <<>>] /\ UNCHANGED <<rHist, rDone>>
<1> DEFINE m == StatOf(g)
<1>1. /\ R!NAK = NAK /\ R!ACK = ACK /\ R!C = C /\ R!Closed = Closed /\ R!Descriptor = Descriptor
      /\ Descriptor # Closed
  BY DEF R!NAK, R!ACK, R!C, R!Closed, R!Descriptor, NAK, ACK, C, Closed, Descriptor
<1>2. m.num = 0 /\ m.file = g /\ m.chunk = 0 /\ m.type = SOH
  BY DEF StatOf, Blk
<1>3. (numLastGoodBlk + 1) % NumMod = 0 /\ numLastGoodBlk # 0
  <2>1. (NumMod * 1 + 0) % NumMod = 0
    BY NumModAssumption, ModUnique
  <2> QED
    BY <2>1, NumModAssumption
<1>4. R!NamesFile(m) <=> g # 0
  BY <1>2 DEF R!NamesFile
<1>5. R!FileSize(g) = FileSize(g)
  BY DEF R!FileSize, FileSize
<1>6. R!StatBlock(q, m)
  BY DEF R!SER_SOH, R!DataBlock, R!DataStates
<1>7. R!StatJudged(q, m)
  BY <1>6, Zenon DEF R!StatBlock, R!Stat_Rejected, R!Stat_NoMoreFiles, R!Stat_FileOpened, R!Stat_CreatError,
     R!Stat_SizeThrows, R!Stat_GivenUp, R!StatTaken
<1>8. /\ rcvBlk' = m
      /\ goodBlk' => numLastGoodBlk' = 0
      /\ ~goodBlk' => numLastGoodBlk' = numLastGoodBlk
  BY <1>2, <1>3, <1>7 DEF R!StatJudged, R!getRestBlk
<1>9. CASE R!Stat_Rejected(q, m)
  <2>1. rActive' = "FirstByteStat" /\ rHist' = rHist
    BY <1>9, RGoToLeaf DEF R!Stat_Rejected, RWaiting
  <2> QED
    BY <1>1, <1>8, <1>9, <2>1 DEF R!Stat_Rejected, R!tm, R!opened, R!contents, R!result
<1>10. CASE R!Stat_NoMoreFiles(q, m)
  <2>1. rActive' = "AreWeDone" /\ rHist' = rHist
    BY <1>10, RGoToLeaf DEF R!Stat_NoMoreFiles, RWaiting
  <2>2. g = 0
    BY <1>4, <1>10, Zenon DEF R!Stat_NoMoreFiles, R!StatTaken
  <2> QED
    BY <1>1, <1>10, <2>1, <2>2 DEF R!Stat_NoMoreFiles, R!tm, R!contents, R!result
<1>11. CASE R!Stat_FileOpened(q, m)
  <2>1. rActive' = "FirstByteData" /\ rHist' = rHist
    BY <1>11, RGoToLeaf DEF R!Stat_FileOpened, RWaiting
  <2>2. g # 0 /\ goodBlk'
    BY <1>4, <1>11, Zenon DEF R!Stat_FileOpened, R!StatTaken
  <2>3. /\ rFileD' = Descriptor /\ rFileName' = g
        /\ disk' = [disk EXCEPT ![g] = <<>>] /\ bytesRemaining' = FileSize(g)
    BY <1>1, <1>2, <1>5, <1>11 DEF R!Stat_FileOpened, R!openFileForTransfer
  <2> QED
    BY <1>1, <1>8, <1>11, <2>1, <2>2, <2>3 DEF R!Stat_FileOpened, R!tm, R!result
<1>12. CASE R!Stat_CreatError(q, m)
  <2>1. disk' = disk
    BY <1>1, <1>12 DEF R!Stat_CreatError, R!openFileForTransfer
  <2> QED
    BY <1>12, <2>1 DEF R!Stat_CreatError, R!Finish, R!Final, RStops
<1>13. CASE R!Stat_GivenUp(q, m)
  BY <1>13 DEF R!Stat_GivenUp, R!Finish, R!Final, R!contents, RStops
<1>14. ~R!Stat_SizeThrows(q, m)
  BY <1>2 DEF R!Stat_SizeThrows
<1> HIDE DEF m
<1> QED
  BY <1>6, <1>9, <1>10, <1>11, <1>12, <1>13, <1>14 DEF R!StatBlock, m

LEMMA RDataBlock ==
  ASSUME rActive = "FirstByteData", NEW q, NEW m, R!SER_SOH(q, m),
         NEW k \in Nat, numLastGoodBlk = k % NumMod
  PROVE  /\ rActive' = "CondTransientData" /\ rcvBlk' = m /\ R!Silent
         /\ UNCHANGED <<rHist, rFileD, rFileName, bytesRemaining, rDone, disk>>
         /\ goodBlk1st' => goodBlk'
         /\ m.num = (k + 1) % NumMod =>
              /\ goodBlk1st' \/ ~goodBlk'
              /\ goodBlk1st' => numLastGoodBlk' = (k + 1) % NumMod /\ ~anotherFile'
              /\ ~goodBlk1st' => numLastGoodBlk' = numLastGoodBlk /\ (anotherFile' => anotherFile)
         /\ m.num = k % NumMod =>
              /\ ~goodBlk1st'
              /\ numLastGoodBlk' = numLastGoodBlk /\ (anotherFile' => anotherFile)
<1>1. R!DataBlock(q, m)
  BY DEF R!SER_SOH, R!StatBlock, R!Stat_Rejected, R!Stat_NoMoreFiles, R!Stat_FileOpened, R!Stat_CreatError,
     R!Stat_SizeThrows, R!Stat_GivenUp, R!StatTaken, R!StatJudged
<1>2. rActive' = "CondTransientData" /\ rHist' = rHist
  BY <1>1, RGoToJudgement DEF R!DataBlock, R!DataStates
<1>3. ((k % NumMod) + 1) % NumMod = (k + 1) % NumMod /\ (k + 1) % NumMod # k % NumMod
  BY NumModAssumption, NumOfNext
<1>4. anotherFile' => anotherFile /\ ~goodBlk1st'
  BY <1>1, Zenon DEF R!DataBlock
<1>5. /\ goodBlk1st' => goodBlk'
      /\ goodBlk1st' => m.num = (k + 1) % NumMod
      /\ m.num = (k + 1) % NumMod => (goodBlk1st' \/ ~goodBlk')
      /\ numLastGoodBlk' = IF goodBlk1st' THEN m.num ELSE numLastGoodBlk
  BY <1>1, <1>3 DEF R!DataBlock, R!getRestBlk
<1>6. /\ rcvBlk' = m /\ R!Silent
      /\ UNCHANGED <<rFileD, rFileName, bytesRemaining, rDone, disk>>
  BY <1>1 DEF R!DataBlock, R!getRestBlk, R!opened, R!contents, R!result
<1> QED
  BY <1>2, <1>3, <1>4, <1>5, <1>6

LEMMA REnds ==
  ASSUME rActive = "FirstByteData", R!SER(EOT)
  PROVE  \/ RStops \/ RSame
         \/ /\ rActive' = "EOT" /\ rTimer' = "SOH" /\ R!send(<<NAK>>)
            /\ UNCHANGED <<rHist, rFileD, rFileName, bytesRemaining, numLastGoodBlk, anotherFile,
                           rcvBlk, rDone, disk>>
<1>1. EOT # R!CAN /\ R!NAK = NAK
  BY DEF EOT, R!CAN, R!NAK, NAK
<1>2. R!FirstByteData_EOT(EOT) \/ R!Ignored(EOT) \/ R!CancelAtByte(EOT)
  BY <1>1 DEF R!SER, R!EOT_Closed, R!EOT_CloseError, R!FirstByteStat_EOT,
     R!FirstByteStat_ExcessiveEOTs, R!FirstCan, R!CAN_Resume, R!CAN_Cancelled, R!Resume
<1>3. CASE R!FirstByteData_EOT(EOT)
  <2>1. rActive' = "EOT" /\ rHist' = rHist
    BY <1>3, RGoToLeaf DEF R!FirstByteData_EOT, RWaiting
  <2> QED
    BY <1>1, <1>3, <2>1 DEF R!FirstByteData_EOT, R!tm, R!judgement, R!opened, R!contents, R!result
<1>4. CASE R!Ignored(EOT)
  BY <1>4 DEF R!Ignored, R!Stays, R!chart, R!timers, R!judgement, R!opened, R!contents, R!result, RSame
<1>5. CASE R!CancelAtByte(EOT)
  BY <1>5 DEF R!CancelAtByte, R!Finish, R!Final, R!contents, RStops
<1> QED
  BY <1>2, <1>3, <1>4, <1>5

LEMMA RCloses ==
  ASSUME rActive = "EOT", rFileD = Descriptor, R!SER(EOT)
  PROVE  \/ RStops \/ RSame
         \/ /\ rActive' = "FirstByteStat" /\ rTimer' = "SOH" /\ R!send(<<ACK, C>>)
            /\ rFileD' = Closed /\ numLastGoodBlk' = NumMod - 1 /\ rDone' = rDone + 1
            /\ UNCHANGED <<rHist, rcvBlk, disk>>
<1>1. EOT # R!CAN /\ R!ACK = ACK /\ R!C = C /\ rFileD # R!Closed /\ R!Closed = Closed
  BY DEF EOT, R!CAN, R!ACK, ACK, R!C, C, R!Closed, Closed, Descriptor
<1>2. R!EOT_Closed(EOT) \/ R!EOT_CloseError(EOT) \/ R!Ignored(EOT) \/ R!CancelAtByte(EOT)
  BY <1>1 DEF R!SER, R!FirstByteData_EOT, R!FirstByteStat_EOT,
     R!FirstByteStat_ExcessiveEOTs, R!FirstCan, R!CAN_Resume, R!CAN_Cancelled, R!Resume
<1>3. CASE R!EOT_Closed(EOT)
  <2>1. rActive' = "FirstByteStat" /\ rHist' = rHist
    BY <1>3, RGoToLeaf DEF R!EOT_Closed, RWaiting
  <2>2. rFileD' = Closed /\ numLastGoodBlk' = NumMod - 1
    BY <1>1, <1>3 DEF R!EOT_Closed, R!closeTransferredFile
  <2> QED
    BY <1>1, <1>3, <2>1, <2>2 DEF R!EOT_Closed, R!tm, R!NothingJudged, R!contents
<1>4. CASE R!EOT_CloseError(EOT)
  BY <1>4 DEF R!EOT_CloseError, R!Finish, R!Final, R!contents, RStops
<1>5. CASE R!Ignored(EOT)
  BY <1>5 DEF R!Ignored, R!Stays, R!chart, R!timers, R!judgement, R!opened, R!contents, R!result, RSame
<1>6. CASE R!CancelAtByte(EOT)
  BY <1>6 DEF R!CancelAtByte, R!Finish, R!Final, R!contents, RStops
<1> QED
  BY <1>2, <1>3, <1>4, <1>5, <1>6

LEMMA RTimeout ==
  ASSUME rActive \in RWaiting, R!TM
  PROVE  \/ RStops
         \/ /\ rActive # "AreWeDone" /\ rTimer' = "SOH"
            /\ IF rFileD = Closed THEN R!send(<<C>>) ELSE R!send(<<NAK>>)
            /\ UNCHANGED <<rActive, rHist, rFileD, rFileName, bytesRemaining, numLastGoodBlk,
                           anotherFile, rcvBlk, goodBlk, goodBlk1st, rDone, disk>>
<1>1. R!C = C /\ R!NAK = NAK /\ R!Closed = Closed
  BY DEF R!C, C, R!NAK, NAK, R!Closed, Closed
<1>2. R!Retry \/ R!AreWeDone_TM \/ R!TopLevel_TM
  BY DEF R!TM, R!CondTransientData_Answer, R!CondTransientData_GivenUp, R!CAN_TM, R!Resume, RWaiting
<1>3. CASE R!Retry
  <2>1. IF rFileD = Closed THEN R!send(<<C>>) ELSE R!send(<<NAK>>)
    BY <1>1, <1>3, Zenon DEF R!Retry
  <2> QED
    BY <1>3, <2>1 DEF R!Retry, R!tm, R!Stays, R!chart, R!judgement, R!opened, R!contents, R!result, R!DataStates
<1>4. CASE R!AreWeDone_TM \/ R!TopLevel_TM
  BY <1>4 DEF R!AreWeDone_TM, R!TopLevel_TM, R!Finish, R!Final, R!contents, RStops
<1> QED
  BY <1>2, <1>3, <1>4

LEMMA RAnswers ==
  ASSUME RHistOK, rActive = "CondTransientData", R!TM
  PROVE  \/ RStops
         \/ /\ rActive' = "FirstByteData" /\ rTimer' = "SOH"
            /\ IF ~goodBlk THEN R!send(<<NAK>>)
               ELSE IF anotherFile THEN R!send(<<ACK, C>>) ELSE R!send(<<ACK>>)
            /\ IF goodBlk1st /\ ~(bytesRemaining <= 0)
               THEN /\ bytesRemaining' = bytesRemaining - ChunkSz
                    /\ disk' = [disk EXCEPT ![rFileName] = Append(@, rcvBlk)]
               ELSE UNCHANGED <<bytesRemaining, disk>>
            /\ UNCHANGED <<rHist, rFileD, rFileName, numLastGoodBlk, anotherFile, rcvBlk, rDone>>
<1>1. R!ACK = ACK /\ R!C = C /\ R!NAK = NAK
  BY DEF R!C, C, R!NAK, NAK, R!ACK, ACK
<1>2. R!CondTransientData_Answer \/ R!CondTransientData_GivenUp
  BY DEF R!TM, R!CAN_TM, R!Resume, R!Retry, R!AreWeDone_TM, R!TopLevel_TM, R!DataStates
<1>3. CASE R!CondTransientData_Answer
  <2>1. rActive' = "FirstByteData" /\ rHist' = rHist
    BY <1>3, RGoToData DEF R!CondTransientData_Answer
  <2>2. IF ~goodBlk THEN R!send(<<NAK>>) ELSE IF anotherFile THEN R!send(<<ACK, C>>) ELSE R!send(<<ACK>>)
    BY <1>1, <1>3, Zenon DEF R!CondTransientData_Answer
  <2>3. IF goodBlk1st THEN R!writeChunk ELSE UNCHANGED R!contents
    BY <1>3, Zenon DEF R!CondTransientData_Answer
  <2>4. IF goodBlk1st /\ ~(bytesRemaining <= 0)
        THEN /\ bytesRemaining' = bytesRemaining - ChunkSz
             /\ disk' = [disk EXCEPT ![rFileName] = Append(@, rcvBlk)]
        ELSE UNCHANGED <<bytesRemaining, disk>>
    <3>1. CASE ~goodBlk1st
      BY <2>3, <3>1 DEF R!contents
    <3>2. CASE goodBlk1st /\ bytesRemaining <= 0
      <4>1. R!writeChunk
        BY <2>3, <3>2, Zenon
      <4>2. UNCHANGED R!contents
        BY <3>2, <4>1, Zenon DEF R!writeChunk
      <4> QED
        BY <3>2, <4>2 DEF R!contents
    <3>3. CASE goodBlk1st /\ ~(bytesRemaining <= 0)
      <4>1. R!writeChunk
        BY <2>3, <3>3, Zenon
      <4>2. /\ bytesRemaining' = bytesRemaining - ChunkSz
            /\ disk' = [disk EXCEPT ![rFileName] = Append(@, rcvBlk)]
        BY <3>3, <4>1, Zenon DEF R!writeChunk
      <4> QED
        BY <3>3, <4>2
    <3> QED
      BY <3>1, <3>2, <3>3
  <2> QED
    BY <1>3, <2>1, <2>2, <2>4 DEF R!CondTransientData_Answer, R!tm, R!judgement, R!opened, R!result
<1>4. CASE R!CondTransientData_GivenUp
  BY <1>4 DEF R!CondTransientData_GivenUp, R!Finish, R!Final, R!contents, RStops
<1> QED
  BY <1>2, <1>3, <1>4

LEMMA RKeyboard ==
  ASSUME R!KB_C
  PROVE  (rActive = "CondTransientData" /\ RStops) \/ (rActive # "CondTransientData" /\ RSame)
<1>1. CASE R!CondTransientData_KB_C
  BY <1>1 DEF R!CondTransientData_KB_C, R!Finish, R!Final, R!contents, RStops
<1>2. CASE R!TopLevel_KB_C
  BY <1>2 DEF R!TopLevel_KB_C, R!Stays, R!chart, R!timers, R!judgement, R!opened, R!contents, R!result, RSame
<1> QED
  BY <1>1, <1>2 DEF R!KB_C

-----------------------------------------------------------------------------
(***************************************************************************)
(* What the sender's events do.                                            *)
(***************************************************************************)
SUnmoved == UNCHANGED <<active, fileName, lastBlk, done, ending>>
SIgnores == out' = <<>> /\ SUnmoved
SResends == out' = <<lastBlk>> /\ UNCHANGED <<fileName, lastBlk, done, ending>>
SSendsEot == out' = <<Byte(EOT)>> /\ UNCHANGED <<fileName, lastBlk, done, ending>>
SStops ==
  /\ out' \in {<<>>, Cans} /\ active' = "Final" /\ done' \in {done, 0}
  /\ ending' = "EndOfSession" => active = "ACKNAKSTAT" /\ fileName = 0

LEMMA SAtAnyLeaf ==
  ASSUME NEW c, StatC_OpenError(c) \/ ExcessiveNAKs(c) \/ CancelAtAnswer(c) \/ Ignored(c)
  PROVE  SStops \/ SIgnores
<1>1. CASE StatC_OpenError(c) \/ ExcessiveNAKs(c) \/ CancelAtAnswer(c)
  BY <1>1 DEF StatC_OpenError, ExcessiveNAKs, CancelAtAnswer, Finish, cans, Final, SStops
<1>2. CASE Ignored(c)
  BY <1>2 DEF Ignored, Silent, Stays, chart, files, blocks, result, SIgnores, SUnmoved
<1> QED
  BY <1>1, <1>2

LEMMA SAtStatC ==
  ASSUME IInv, active = "StatC", SER(C)
  PROVE  \/ SStops \/ SIgnores
         \/ /\ active' = "ACKNAKSTAT" /\ lastBlk' = StatOf(fileName) /\ out' = <<StatOf(fileName)>>
            /\ UNCHANGED <<fileName, done, ending>>
<1>1. StatC_SendStat(C) \/ StatC_OpenError(C) \/ ExcessiveNAKs(C) \/ CancelAtAnswer(C) \/ Ignored(C)
  BY DEF SER, Block, Resend, EndOfFile, Cancel, ONE_FirstBlock, ACKNAK_NextBlock, ACKNAKSTAT_Resend, ONE_Resend,
     ACKNAK_Resend, ONE_EmptyFile, ACKNAK_LastAcked, EOT1_Resend, EOT1_Acked, EOT1_Naked, EOTEOT_Resend, EOTEOT_Done,
     FirstCan, CAN_Resume, CAN_Cancelled, ACKNAKSTAT_Accepted, ACKNAKSTAT_EndOfSession, C, CAN
<1>2. CASE StatC_SendStat(C)
  <2>1. active' = "ACKNAKSTAT"
    BY <1>2, GoToLeaf DEF StatC_SendStat, NON_CAN
  <2>2. TypeOK /\ StatPrepared /\ transferringFileD # Closed /\ sendBlkPrepNext /\ UNCHANGED result
    BY <1>2 DEF StatC_SendStat, IInv, SenderInv, cur
  <2>3. Ready(0) /\ blkNum = 0
    BY <2>2, ReadyStat DEF StatPrepared
  <2>4. lastBlk' = StatOf(fileName) /\ out' = <<StatOf(fileName)>> /\ fileName' = fileName
    BY <2>2, <2>3 DEF Ready, sendBlkPrepNext, StatOf
  <2> QED
    BY <2>1, <2>2, <2>4 DEF result
<1> QED
  BY <1>1, <1>2, SAtAnyLeaf

LEMMA SAtStat ==
  ASSUME IInv, active = "ACKNAKSTAT", NEW c \in {ACK, NAK, C}, SER(c)
  PROVE  \/ SStops /\ (ending' = "EndOfSession" => c = ACK)
         \/ SIgnores
         \/ /\ c = ACK /\ fileName # 0 /\ active' = "ONE" /\ out' = <<>>
            /\ UNCHANGED <<fileName, lastBlk, done, ending>>
         \/ c # ACK /\ active' = "ACKNAKSTAT" /\ SResends
<1>1. c # CAN /\ NAK # ACK /\ C # ACK
  BY DEF ACK, NAK, C, CAN
<1>2. \/ ACKNAKSTAT_Accepted(c) \/ ACKNAKSTAT_Resend(c) \/ ACKNAKSTAT_EndOfSession(c)
      \/ ExcessiveNAKs(c) \/ CancelAtAnswer(c) \/ Ignored(c)
  BY <1>1 DEF SER, Block, Resend, EndOfFile, Cancel, ONE_FirstBlock, ACKNAK_NextBlock, StatC_SendStat, ONE_Resend,
     ACKNAK_Resend, ONE_EmptyFile, ACKNAK_LastAcked, EOT1_Resend, EOT1_Acked, EOT1_Naked, EOTEOT_Resend, EOTEOT_Done,
     FirstCan, CAN_Resume, CAN_Cancelled, StatC_OpenError
<1>3. CASE ACKNAKSTAT_Accepted(c)
  <2>1. active' = "ONE"
    BY <1>3, GoToLeaf DEF ACKNAKSTAT_Accepted, NON_CAN
  <2> QED
    BY <1>3, <2>1 DEF ACKNAKSTAT_Accepted, Silent, files, blocks, result
<1>4. CASE ACKNAKSTAT_Resend(c)
  <2>1. UNCHANGED blocks /\ out' = <<lastBlk>>
    BY <1>4, ResendSame DEF ACKNAKSTAT_Resend, IInv, SenderInv, AwaitingAnswer, cur
  <2> QED
    BY <1>1, <1>4, <2>1 DEF ACKNAKSTAT_Resend, Stays, chart, files, blocks, result, SResends
<1>5. CASE ACKNAKSTAT_EndOfSession(c)
  BY <1>5 DEF ACKNAKSTAT_EndOfSession, Finish, Final, Silent, SStops
<1>6. CASE ExcessiveNAKs(c) \/ CancelAtAnswer(c)
  BY <1>6 DEF ExcessiveNAKs, CancelAtAnswer, Finish, cans, Final, SStops
<1>7. CASE Ignored(c)
  BY <1>7 DEF Ignored, Silent, Stays, chart, files, blocks, result, SIgnores, SUnmoved
<1> QED
  BY <1>2, <1>3, <1>4, <1>5, <1>6, <1>7

(* The block that is out, by file and chunk.                               *)
LEMMA OutBlock ==
  ASSUME IInv, active \in {"ACKNAKSTAT", "ONE", "ACKNAK"}
  PROVE  /\ lastBlk = DataOf(fileName, lastBlk.chunk) /\ lastBlk.chunk \in Nat
         /\ active # "ACKNAKSTAT" => fileName \in Files
         /\ fileName # 0 => fileName \in Files /\ lastBlk.chunk <= Chunks[fileName]
         /\ active = "ONE" => lastBlk.chunk = 0
<1>1. BlockOut /\ cur = active
  BY DEF IInv, SenderInv, AwaitingAnswer, cur
<1>2. lastBlk.chunk \in Nat
  BY DEF IInv, TypeOK, Messages
<1>3. lastBlk = Blk(PrevNum, fileName, lastBlk.chunk) /\ lastBlk.num = lastBlk.chunk % NumMod
  BY <1>1 DEF BlockOut
<1>4. lastBlk.num = PrevNum
  BY <1>3 DEF Blk
<1>5. fileName \in 0..NumFiles
  BY FilesAssumption DEF IInv, TypeOK
<1> QED
  BY <1>1, <1>2, <1>3, <1>4, <1>5, FilesAssumption DEF BlockOut, DataOf, Files

(* The file's next block goes out, or EOT after the last one.              *)
LEMMA SNextBlock ==
  ASSUME IInv, active \in {"ONE", "ACKNAK"}, NEW c, ONE_FirstBlock(c) \/ ACKNAK_NextBlock(c)
  PROVE  /\ active' = "ACKNAK"
         /\ lastBlk' = DataOf(fileName, lastBlk.chunk + 1) /\ out' = <<lastBlk'>>
         /\ UNCHANGED <<fileName, done, ending>>
<1>1. TypeOK /\ BlockOut
  BY DEF IInv, SenderInv, AwaitingAnswer, cur
<1>2. fileName # 0 /\ bytesRd # 0 /\ sendBlkPrepNext /\ UNCHANGED result
  BY OutBlock DEF ONE_FirstBlock, ACKNAK_NextBlock, Files
<1>3. Ready(lastBlk.chunk + 1)
  BY <1>1, <1>2, ReadyNext
<1>4. /\ lastBlk' = DataOf(fileName, lastBlk.chunk + 1) /\ out' = <<lastBlk'>>
      /\ fileName' = fileName
  BY <1>2, <1>3 DEF Ready, sendBlkPrepNext, DataOf
<1>5. active' = "ACKNAK"
  BY GoToLeaf DEF ONE_FirstBlock, ACKNAK_NextBlock, Stays, chart, NON_CAN
<1> QED
  BY <1>2, <1>4, <1>5 DEF result

LEMMA SLastBlock ==
  ASSUME IInv, active \in {"ONE", "ACKNAK"}, NEW c, ONE_EmptyFile(c) \/ ACKNAK_LastAcked(c)
  PROVE  active' = "EOT1" /\ EndOf(lastBlk, fileName) /\ SSendsEot
<1>1. TypeOK /\ BlockOut
  BY DEF IInv, SenderInv, AwaitingAnswer, cur
<1>2. /\ fileName \in Files /\ bytesRd = 0 /\ lastBlk.chunk \in Nat
      /\ lastBlk.chunk <= Chunks[fileName] /\ lastBlk.file = fileName
  BY OutBlock DEF ONE_EmptyFile, ACKNAK_LastAcked, DataOf, Blk, Files
<1>3. ChunkBytes(fileName, lastBlk.chunk + 1) = 0
  BY <1>1, <1>2 DEF BlockOut, Files
<1>4. lastBlk.chunk + 1 > Chunks[fileName]
  BY <1>2, <1>3, ChunkBytesTyped
<1>5. Chunks[fileName] \in Nat
  BY <1>2, FilesAssumption
<1>6. EndOf(lastBlk, fileName)
  BY <1>2, <1>4, <1>5 DEF EndOf, LastOfFile
<1>7. active' = "EOT1"
  BY GoToLeaf DEF ONE_EmptyFile, ACKNAK_LastAcked, NON_CAN
<1>8. SSendsEot
  BY DEF ONE_EmptyFile, ACKNAK_LastAcked, sendByte, closeTransferredFile, blocks, result, SSendsEot
<1> QED
  BY <1>6, <1>7, <1>8

LEMMA SAtOne ==
  ASSUME IInv, active = "ONE", NEW c \in {NAK, C}, SER(c)
  PROVE  \/ SStops \/ SIgnores
         \/ active' = "ACKNAKSTAT" /\ SResends
         \/ /\ active' = "ACKNAK" /\ lastBlk' = DataOf(fileName, lastBlk.chunk + 1) /\ out' = <<lastBlk'>>
            /\ UNCHANGED <<fileName, done, ending>>
         \/ active' = "EOT1" /\ EndOf(lastBlk, fileName) /\ SSendsEot
<1>1. c # CAN /\ c # ACK
  BY DEF ACK, NAK, C, CAN
<1>2. \/ ONE_FirstBlock(c) \/ ONE_Resend(c) \/ ONE_EmptyFile(c)
      \/ ExcessiveNAKs(c) \/ CancelAtAnswer(c) \/ Ignored(c)
  BY <1>1 DEF SER, Block, Resend, EndOfFile, Cancel, ACKNAK_NextBlock, StatC_SendStat,
     ACKNAKSTAT_Resend, ACKNAK_Resend, ACKNAK_LastAcked, EOT1_Resend, EOT1_Acked, EOT1_Naked, EOTEOT_Resend, EOTEOT_Done,
     FirstCan, CAN_Resume, CAN_Cancelled, StatC_OpenError, ACKNAKSTAT_Accepted, ACKNAKSTAT_EndOfSession
<1>3. CASE ONE_Resend(c)
  <2>1. active' = "ACKNAKSTAT"
    BY <1>3, GoToLeaf DEF ONE_Resend, NON_CAN
  <2>2. UNCHANGED blocks /\ out' = <<lastBlk>>
    BY <1>3, ResendSame DEF ONE_Resend, IInv, SenderInv, AwaitingAnswer, cur
  <2> QED
    BY <1>3, <2>1, <2>2 DEF ONE_Resend, files, blocks, result, SResends
<1> QED
  BY <1>2, <1>3, SAtAnyLeaf, SNextBlock, SLastBlock

LEMMA SAtAcknak ==
  ASSUME IInv, active = "ACKNAK", NEW c \in {ACK, NAK}, SER(c)
  PROVE  \/ SStops \/ SIgnores
         \/ active' = "ACKNAK" /\ SResends
         \/ /\ c = ACK /\ active' = "ACKNAK"
            /\ lastBlk' = DataOf(fileName, lastBlk.chunk + 1) /\ out' = <<lastBlk'>>
            /\ UNCHANGED <<fileName, done, ending>>
         \/ c = ACK /\ active' = "EOT1" /\ EndOf(lastBlk, fileName) /\ SSendsEot
<1>1. c # CAN /\ c # C
  BY DEF ACK, NAK, C, CAN
<1>2. \/ ACKNAK_NextBlock(c) \/ ACKNAK_Resend(c) \/ ACKNAK_LastAcked(c)
      \/ ExcessiveNAKs(c) \/ CancelAtAnswer(c) \/ Ignored(c)
  BY <1>1 DEF SER, Block, Resend, EndOfFile, Cancel, ONE_FirstBlock, StatC_SendStat,
     ACKNAKSTAT_Resend, ONE_Resend, ONE_EmptyFile, EOT1_Resend, EOT1_Acked, EOT1_Naked, EOTEOT_Resend, EOTEOT_Done,
     FirstCan, CAN_Resume, CAN_Cancelled, StatC_OpenError, ACKNAKSTAT_Accepted, ACKNAKSTAT_EndOfSession
<1>3. CASE ACKNAK_Resend(c)
  <2>1. UNCHANGED blocks /\ out' = <<lastBlk>>
    BY <1>3, ResendSame DEF ACKNAK_Resend, IInv, SenderInv, AwaitingAnswer, cur
  <2> QED
    BY <1>3, <2>1 DEF ACKNAK_Resend, Stays, chart, files, blocks, result, SResends
<1>4. CASE ACKNAK_NextBlock(c) \/ ACKNAK_LastAcked(c)
  <2>1. c = ACK
    BY <1>4 DEF ACKNAK_NextBlock, ACKNAK_LastAcked
  <2> QED
    BY <1>4, <2>1, SNextBlock, SLastBlock
<1> QED
  BY <1>2, <1>3, <1>4, SAtAnyLeaf

LEMMA SAtEot1 ==
  ASSUME IInv, active = "EOT1", SER(NAK)
  PROVE  SStops \/ SIgnores \/ (active' = "EOTEOT" /\ SSendsEot)
<1>1. NAK # CAN /\ NAK # C /\ NAK # ACK
  BY DEF ACK, NAK, C, CAN
<1>2. EOT1_Naked(NAK) \/ ExcessiveNAKs(NAK) \/ CancelAtAnswer(NAK) \/ Ignored(NAK)
  BY <1>1 DEF SER, Block, Resend, EndOfFile, Cancel, ONE_FirstBlock, StatC_SendStat, ACKNAK_NextBlock, ACKNAK_Resend,
     ACKNAKSTAT_Resend, ONE_Resend, ONE_EmptyFile, ACKNAK_LastAcked, EOT1_Resend, EOT1_Acked, EOTEOT_Resend, EOTEOT_Done,
     FirstCan, CAN_Resume, CAN_Cancelled, StatC_OpenError, ACKNAKSTAT_Accepted, ACKNAKSTAT_EndOfSession
<1>3. CASE EOT1_Naked(NAK)
  <2>1. active' = "EOTEOT"
    BY <1>3, GoToLeaf DEF EOT1_Naked, NON_CAN
  <2> QED
    BY <1>3, <2>1 DEF EOT1_Naked, sendByte, files, blocks, result, SSendsEot
<1> QED
  BY <1>2, <1>3, SAtAnyLeaf

LEMMA SAtEoteot ==
  ASSUME IInv, active = "EOTEOT", NEW c \in {ACK, NAK, C}, SER(c)
  PROVE  \/ SStops \/ SIgnores
         \/ c = NAK /\ active' = "EOTEOT" /\ SSendsEot
         \/ /\ c = ACK /\ active' = "StatC" /\ out' = <<>> /\ done' = done + 1
            /\ fileName' = IF fileName = NumFiles THEN 0 ELSE fileName + 1
            /\ UNCHANGED <<lastBlk, ending>>
<1>1. c # CAN
  BY DEF ACK, NAK, C, CAN
<1>2. EOTEOT_Resend(c) \/ EOTEOT_Done(c) \/ ExcessiveNAKs(c) \/ CancelAtAnswer(c) \/ Ignored(c)
  BY <1>1 DEF SER, Block, Resend, EndOfFile, Cancel, ONE_FirstBlock, StatC_SendStat, ACKNAK_NextBlock, ACKNAK_Resend,
     ACKNAKSTAT_Resend, ONE_Resend, ONE_EmptyFile, ACKNAK_LastAcked, EOT1_Resend, EOT1_Acked, EOT1_Naked,
     FirstCan, CAN_Resume, CAN_Cancelled, StatC_OpenError, ACKNAKSTAT_Accepted, ACKNAKSTAT_EndOfSession
<1>3. CASE EOTEOT_Resend(c)
  BY <1>3 DEF EOTEOT_Resend, Stays, chart, sendByte, files, blocks, result, SSendsEot
<1>4. CASE EOTEOT_Done(c)
  <2>1. active' = "StatC"
    BY <1>4, GoToLeaf DEF EOTEOT_Done, NON_CAN
  <2>2. TypeOK /\ FileEnded
    BY DEF IInv, SenderInv, cur
  <2>3. fileName \in Files /\ fileName = fileNameIndex
    BY <2>2 DEF TypeOK, FileEnded, LastOfFile, Files
  <2>4. fileName' = IF fileName = NumFiles THEN 0 ELSE fileName + 1
    <3>1. fileName \in Nat /\ fileName <= NumFiles
      BY <2>3, FilesAssumption DEF Files
    <3>2. CASE fileName < NumFiles
      BY <1>4, <2>3, <3>1, <3>2 DEF EOTEOT_Done, prepStatBlk
    <3>3. CASE fileName = NumFiles
      BY <1>4, <2>3, <3>1, <3>3 DEF EOTEOT_Done, prepStatBlk
    <3> QED
      BY <3>1, <3>2, <3>3, FilesAssumption
  <2> QED
    BY <1>4, <2>1, <2>4 DEF EOTEOT_Done, prepStatBlk, Silent
<1> QED
  BY <1>2, <1>3, <1>4, SAtAnyLeaf
-----------------------------------------------------------------------------
(***************************************************************************)
(* A step of a session leaves each phase for itself or the next one.       *)
(* First, what is on the line gets less: read and ignored, or lost.        *)
(***************************************************************************)
peers ==
  <<active, fileName, lastBlk, done, rActive, rTimer, rFileD, rFileName, bytesRemaining, numLastGoodBlk,
    anotherFile, rcvBlk, goodBlk, goodBlk1st, rDone, disk>>
Shrinks ==
  /\ toRcv' \in {toRcv, <<>>}
  /\ Coming = <<>> => Coming' = <<>>
  /\ Coming # <<>> => UNCHANGED toRcv
  /\ \A S : Coming \in NoneOr(S) => Coming' \in NoneOr(S)
  /\ Coming \in AckAndC => Coming' \in AckAndC
  /\ Coming \in AckOrMore => Coming' \in AckOrMore

LEMMA LessAnswered ==
  ASSUME Shrinks, NEW W, Answered(W), W \in {AckAndC, AckOrMore} \/ \E S : W = NoneOr(S)
  PROVE  toRcv' = <<>> /\ Coming' \in W
BY Zenon DEF Answered, Shrinks

LEMMA LessExchanged ==
  ASSUME Shrinks, NEW m, NEW W, Exchange(m, W), W = AckOrMore \/ \E S : W = NoneOr(S)
  PROVE  (toRcv' = <<>> /\ Coming' \in W) \/ (toRcv' \in Arriving(m) /\ Coming' = <<>>)
<1>1. CASE Answered(W)
  BY <1>1, LessAnswered
<1>2. CASE toRcv \in Arriving(m) /\ Coming = <<>>
  <2>1. <<>> \in W
    BY DEF AckOrMore, NoneOr
  <2> QED
    BY <1>2, <2>1 DEF Shrinks
<1> QED
  BY <1>1, <1>2 DEF Exchange

LEMMA PhaseShrinks ==
  ASSUME Shrinks, UNCHANGED peers
  PROVE  /\ StatDue => StatDue'
         /\ DataDue => DataDue'
         /\ Judged => Judged'
         /\ EndDue => EndDue'
         /\ AllThere => AllThere'
<1>1. ASSUME NEW S, Answered(NoneOr(S)) PROVE toRcv' = <<>> /\ Coming' \in NoneOr(S)
  BY <1>1, LessAnswered, Zenon
<1>2. ASSUME Answered(AckAndC) PROVE toRcv' = <<>> /\ Coming' \in AckAndC
  BY <1>2, LessAnswered
<1>3. ASSUME NEW m, NEW S, Exchange(m, NoneOr(S))
      PROVE  (toRcv' = <<>> /\ Coming' \in NoneOr(S)) \/ (toRcv' \in Arriving(m) /\ Coming' = <<>>)
  BY <1>3, LessExchanged, Zenon
<1>4. ASSUME NEW m, Exchange(m, AckOrMore)
      PROVE  (toRcv' = <<>> /\ Coming' \in AckOrMore) \/ (toRcv' \in Arriving(m) /\ Coming' = <<>>)
  BY <1>4, LessExchanged, Zenon
<1>5. Due' = Due /\ OnDisk' = OnDisk /\ (rDone < NumFiles)' = (rDone < NumFiles)
  BY DEF peers, Due, OnDisk
<1>6. \A k : InFile(k) => InFile(k)'
  BY <1>5 DEF peers, InFile
<1>7. StatDue => StatDue'
  BY <1>1, <1>2, <1>3, <1>5 DEF peers, StatDue, Answered, Exchange
<1>8. DataDue => DataDue'
  BY <1>1, <1>3, <1>4, <1>5, <1>6 DEF peers, DataDue, Answered, Exchange
<1>9. Judged => Judged'
  BY <1>5, <1>6 DEF peers, Judged, Shrinks
<1>10. EndDue => EndDue'
  BY <1>1, <1>3, <1>5, <1>6 DEF peers, EndDue, Answered, Exchange
<1>11. AllThere => AllThere'
  BY <1>1 DEF peers, AllThere, Answered
<1> QED
  BY <1>7, <1>8, <1>9, <1>10, <1>11

-----------------------------------------------------------------------------
(***************************************************************************)
(* The receiver's steps.                                                   *)
(***************************************************************************)
ReceiverSteps == ReceiverSER \/ ReceiverTM \/ ReceiverKB_C

LEMMA SenderRests ==
  ASSUME ReceiverSteps
  PROVE  /\ UNCHANGED <<active, fileName, lastBlk, done, ending, toSnd, sendExtraAck>>
         /\ fromRcv' = fromRcv \o TypesOf(rOut')
BY DEF ReceiverSteps, ReceiverSER, ReceiverTM, ReceiverKB_C, senderVars, vars, chart, files, blocks, result,
       Answers, TypesOf

LEMMA NothingComing ==
  ASSUME LineTypeOK
  PROVE  Coming = <<>> <=> toSnd = <<>> /\ fromRcv = <<>>
BY SplitNone DEF LineTypeOK, Coming

LEMMA ReceiverSilent ==
  ASSUME LineTypeOK, ReceiverSteps, R!Silent
  PROVE  fromRcv' = fromRcv /\ Coming' = Coming
<1>1. TypesOf(rOut') = <<>> /\ fromRcv \in Seq(ControlBytes)
  BY AnswerTypes DEF LineTypeOK
<1>2. fromRcv \o <<>> = fromRcv
  BY <1>1
<1> QED
  BY <1>1, <1>2, SenderRests DEF Coming

LEMMA ReceiverAnswers ==
  ASSUME LineTypeOK, ReceiverSteps, Coming = <<>>, NEW b \in Seq(ControlBytes), R!send(b)
  PROVE  Coming' = b
<1>1. TypesOf(rOut') = b /\ fromRcv = <<>> /\ toSnd = <<>>
  BY AnswerTypes, NothingComing
<1>2. <<>> \o b = b
  OBVIOUS
<1> QED
  BY <1>1, <1>2, SenderRests DEF Coming

LEMMA Replies ==
  /\ <<ACK>> \in Seq(ControlBytes) /\ <<NAK>> \in Seq(ControlBytes)
  /\ <<C>> \in Seq(ControlBytes) /\ <<ACK, C>> \in Seq(ControlBytes)
<1>1. ACK \in ControlBytes /\ NAK \in ControlBytes /\ C \in ControlBytes
  BY DEF ControlBytes
<1> QED
  BY <1>1

(* The receiver stops: its CANs are all that comes.                        *)
LEMMA ReceiverLeaves ==
  ASSUME LineTypeOK, ReceiverSteps, RStops, Coming = <<>>
  PROVE  ReceiverGone'
<1>1. rActive' = "Final" /\ toSnd' = <<>> /\ fromRcv = <<>>
  BY NothingComing, SenderRests DEF RStops
<1>2. TypesOf(rOut') \in Seq({CAN})
  <2>1. CAN_LEN \in Nat
    BY BoundAssumption
  <2>2. [i \in 1..CAN_LEN |-> CAN] \in Seq({CAN})
    BY <2>1, IsASeq
  <2>3. <<>> \in Seq({CAN})
    OBVIOUS
  <2> QED
    BY <2>2, <2>3, AnswerTypes, Zenon DEF RStops
<1>3. fromRcv' \in Seq({CAN})
  BY <1>1, <1>2, SenderRests
<1>4. <<>> \in Seq({CAN})
  OBVIOUS
<1>5. toSnd' \in Seq({CAN})
  BY <1>1, <1>4
<1> QED
  BY <1>1, <1>3, <1>5 DEF ReceiverGone, R!running, R!Final

(* What arrived of a message, as the receiver reads it; a block that the   *)
(* chart takes no SOH of may stay in part.                                 *)
LEMMA ReceiverReads ==
  ASSUME NEW m, toRcv \in Arriving(m), ReceiverSER
  PROVE  \/ IsBlk(m) /\ R!SER(SOH)
         \/ /\ toRcv' = <<>>
            /\ \/ R!SER(GLITCH)
               \/ IsBlk(m) /\ \E q : R!SER_SOH(q, m)
               \/ ~IsBlk(m) /\ R!SER(m.type)
<1>1. PICK i : toRcv = <<i>> /\ (i = Noise(GLITCH) \/ \E q \in R!Qualities : i = Item(m, q))
  BY DEF Arriving
<1>2. Head(toRcv) = i /\ Tail(toRcv) = <<>>
  BY <1>1
<1>3. Kept(<<>>) = {<<>>}
  BY DEF Kept
<1>4. \/ /\ toRcv' \in Kept(<<>>)
         /\ IF IsBlk(i.msg) THEN \E q : R!SER_SOH(q, i.msg) ELSE R!SER(i.msg.type)
      \/ IsBlk(i.msg) /\ R!SER(SOH)
  BY <1>2 DEF ReceiverSER
<1>5. CASE i = Noise(GLITCH)
  BY <1>3, <1>4, <1>5 DEF Noise, Item, Byte, IsBlk, GLITCH, SOH
<1>6. CASE \E q \in R!Qualities : i = Item(m, q)
  BY <1>3, <1>4, <1>6 DEF Item
<1> QED
  BY <1>1, <1>5, <1>6

-----------------------------------------------------------------------------
(* What a step may do to the receiver's files and its count: nothing, the  *)
(* next chunk of the file that is due, or that file is whole and counted.  *)
Stored ==
  /\ rDone < NumFiles /\ OnDisk < Chunks[rDone + 1]
  /\ rcvBlk = DataOf(rDone + 1, OnDisk + 1)
  /\ disk' = [disk EXCEPT ![rDone + 1] = Append(@, rcvBlk)]
  /\ rDone' = rDone
Counted ==
  /\ rDone < NumFiles /\ OnDisk = Chunks[rDone + 1]
  /\ rDone' = rDone + 1 /\ disk' = disk
DiskStep == UNCHANGED <<rDone, disk>> \/ Stored \/ Counted

LEMMA StoredLength ==
  ASSUME DiskOK, Stored
  PROVE  /\ OnDisk' = OnDisk + 1 /\ OnDisk \in Nat
         /\ disk' \in [0..NumFiles -> Seq(Messages)]
         /\ \A g \in Files : g # rDone + 1 => disk'[g] = disk[g]
<1>1. rDone \in Nat /\ rDone + 1 \in Files /\ rDone + 1 \in 0..NumFiles /\ NumFiles \in Nat
  BY FilesAssumption DEF DiskOK, Stored, Files
<1>2. disk[rDone + 1] \in Seq(Messages) /\ OnDisk \in Nat
  BY <1>1 DEF DiskOK, OnDisk
<1>3. rcvBlk \in Messages
  <2>1. (OnDisk + 1) % NumMod \in 0..(NumMod - 1)
    BY <1>2, NumModAssumption
  <2> QED
    BY <1>1, <1>2, <2>1, BlkIsMessage DEF Stored, DataOf
<1>4. /\ Append(disk[rDone + 1], rcvBlk) \in Seq(Messages)
      /\ Len(Append(disk[rDone + 1], rcvBlk)) = OnDisk + 1
  BY <1>2, <1>3 DEF OnDisk
<1>5. disk'[rDone + 1] = Append(disk[rDone + 1], rcvBlk)
  BY <1>1 DEF DiskOK, Stored
<1>6. OnDisk' = OnDisk + 1
  BY <1>4, <1>5 DEF Stored, OnDisk
<1>7. disk' \in [0..NumFiles -> Seq(Messages)]
  BY <1>4 DEF DiskOK, Stored
<1>8. \A g \in Files : g # rDone + 1 => disk'[g] = disk[g]
  BY <1>1, FilesAssumption DEF DiskOK, Stored, Files
<1> QED
  BY <1>2, <1>6, <1>7, <1>8

LEMMA DiskKept ==
  ASSUME DiskOK, DiskStep
  PROVE  DiskOK' /\ rDone <= rDone' /\ (rDone = NumFiles => rDone' = NumFiles)
<1>1. rDone \in Nat /\ NumFiles \in Nat
  BY FilesAssumption DEF DiskOK
<1>2. CASE UNCHANGED <<rDone, disk>>
  BY <1>1, <1>2 DEF DiskOK
<1>3. CASE Stored
  BY <1>1, <1>3, StoredLength DEF DiskOK, Stored, Files
<1>4. CASE Counted
  <2>1. \A g \in Files : g <= rDone + 1 => g <= rDone \/ g = rDone + 1
    BY <1>1 DEF Files
  <2>2. \A g \in Files : g <= rDone' => Len(disk'[g]) = Chunks[g]
    BY <1>4, <2>1 DEF DiskOK, Counted, OnDisk
  <2>3. \A g \in Files : g > rDone' + 1 => disk'[g] = <<>>
    BY <1>1, <1>4 DEF DiskOK, Counted, Files
  <2> QED
    BY <1>1, <1>4, <2>2, <2>3 DEF DiskOK, Counted
<1> QED
  BY <1>2, <1>3, <1>4 DEF DiskStep

(* The bytes the receiver still expects, before and after a chunk.         *)
LEMMA StillExpected ==
  ASSUME NEW f \in Files, NEW n \in Nat, n < Chunks[f]
  PROVE  /\ FileSize(f) - (n * ChunkSz) > 0 /\ FileSize(f) - (n * ChunkSz) \in Int
         /\ (FileSize(f) - (n * ChunkSz)) - ChunkSz = FileSize(f) - ((n + 1) * ChunkSz)
<1>1. Chunks[f] \in Nat /\ ChunkSz \in Nat /\ ChunkSz > 0 /\ LastBytes[f] \in Nat /\ LastBytes[f] > 0
  BY FilesAssumption
<1>2. Chunks[f] # 0 /\ FileSize(f) = (Chunks[f] - 1) * ChunkSz + LastBytes[f]
  BY <1>1 DEF FileSize
<1> DEFINE d == Chunks[f] - 1 - n
<1>3. d \in Nat /\ Chunks[f] - 1 = n + d
  BY <1>1
<1> HIDE DEF d
<1>4. (n + d) * ChunkSz = n * ChunkSz + d * ChunkSz /\ n * ChunkSz \in Nat /\ d * ChunkSz \in Nat
  BY <1>1, <1>3
<1>5. (n + 1) * ChunkSz = n * ChunkSz + ChunkSz
  BY <1>1
<1> QED
  BY <1>1, <1>2, <1>3, <1>4, <1>5

LEMMA FirstNumber == 0 % NumMod = 0
<1>1. (NumMod * 0 + 0) % NumMod = 0
  BY NumModAssumption, ModUnique
<1> QED
  BY <1>1, NumModAssumption

(* What each step of the receiver is to be shown to do.                    *)
GoesOn == Phase' /\ RHistOK' /\ DiskStep

LEMMA GoesOnLess ==
  ASSUME LineTypeOK, RHistOK, UNCHANGED <<rHist, peers>>, Shrinks,
         StatDue \/ DataDue \/ Judged \/ EndDue \/ AllThere
  PROVE  GoesOn
<1>1. Phase'
  BY PhaseShrinks DEF Phase
<1> QED
  BY <1>1 DEF GoesOn, RHistOK, DiskStep, peers

LEMMA GoesOnGone ==
  ASSUME LineTypeOK, RHistOK, ReceiverSteps, RStops, Coming = <<>>
  PROVE  GoesOn
BY ReceiverLeaves DEF GoesOn, Phase, RStops, RHistOK, DiskStep

(* The receiver lets what arrives pass.                                    *)
LEMMA GoesOnSame ==
  ASSUME LineTypeOK, RHistOK, ReceiverSteps, RSame, toRcv' = toRcv \/ (toRcv' = <<>> /\ Coming = <<>>),
         StatDue \/ DataDue \/ Judged \/ EndDue \/ AllThere
  PROVE  GoesOn
<1>1. Coming' = Coming
  BY ReceiverSilent DEF RSame
<1>2. Shrinks
  BY <1>1, Zenon DEF Shrinks
<1>3. UNCHANGED <<rHist, peers>>
  BY SenderRests DEF RSame, peers
<1> QED
  BY <1>2, <1>3, GoesOnLess

LEMMA ReceiverAtStat ==
  ASSUME LineTypeOK, StatDue, RHistOK, DiskOK, ReceiverSteps
  PROVE  GoesOn
<1>1. rActive \in RWaiting /\ rActive = "FirstByteStat" /\ rTimer = "SOH" /\ rFileD = Closed
  BY DEF StatDue, RWaiting
<1>2. /\ Due \in 0..NumFiles /\ (Due = 0 <=> rDone = NumFiles) /\ (Due # 0 => Due = rDone + 1 /\ rDone < NumFiles)
      /\ rDone \in 0..NumFiles
  BY FilesAssumption DEF DiskOK, Due
<1>3. \/ active = "EOTEOT" /\ EndOf(lastBlk, rDone) /\ fileName = rDone /\ done < rDone
      \/ active = "StatC" /\ fileName = Due
      \/ active = "ACKNAKSTAT" /\ fileName = Due /\ lastBlk = StatOf(Due)
  BY DEF StatDue
<1>4. CASE ReceiverTM
  <2>1. R!TM /\ Coming = <<>> /\ toRcv' = toRcv /\ toRcv = <<>>
    BY <1>1, <1>4, NothingComing DEF ReceiverTM, Quiet
  <2>2. CASE RStops
    BY <2>1, <2>2, GoesOnGone
  <2>3. CASE ~RStops
    <3>1. /\ R!send(<<C>>) /\ rTimer' = "SOH"
          /\ UNCHANGED <<rActive, rHist, rFileD, numLastGoodBlk, rcvBlk, rDone, disk>>
      BY <1>1, <2>1, <2>3, RTimeout
    <3>2. Coming' = <<C>>
      BY <2>1, <3>1, Replies, ReceiverAnswers
    <3>3. <<C>> \in AckAndC /\ <<C>> \in NoneOr({C}) /\ <<C>> \in NoneOr({C, NAK})
      BY DEF AckAndC, NoneOr
    <3>4. UNCHANGED <<active, fileName, lastBlk, done>> /\ Due' = Due
      BY <3>1, SenderRests DEF Due
    <3>5. StatDue'
      BY <1>3, <2>1, <3>1, <3>2, <3>3, <3>4 DEF StatDue, Answered, Exchange
    <3> QED
      BY <3>1, <3>5 DEF GoesOn, Phase, RHistOK, DiskStep
  <2> QED
    BY <2>2, <2>3
<1>5. CASE ReceiverKB_C
  <2>1. RSame /\ toRcv' = toRcv
    BY <1>1, <1>5, RKeyboard DEF ReceiverKB_C
  <2> QED
    BY <2>1, GoesOnSame
<1>6. CASE ReceiverSER
  <2>1. active = "ACKNAKSTAT" /\ fileName = Due /\ lastBlk = StatOf(Due) /\ toRcv \in Arriving(StatOf(Due)) /\ Coming = <<>>
    BY <1>6 DEF StatDue, Answered, Exchange, ReceiverSER
  <2>2. IsBlk(StatOf(Due))
    BY DEF IsBlk, StatOf, Blk
  <2>3. \/ R!SER(SOH)
        \/ toRcv' = <<>> /\ (R!SER(GLITCH) \/ \E q : R!SER_SOH(q, StatOf(Due)))
    BY <1>6, <2>1, <2>2, ReceiverReads
  <2>4. ASSUME RStops \/ (RSame /\ toRcv' = <<>>) PROVE GoesOn
    BY <2>1, <2>4, GoesOnGone, GoesOnSame
  <2>5. CASE R!SER(SOH) \/ (toRcv' = <<>> /\ R!SER(GLITCH))
    BY <1>1, <2>4, <2>5, RNoise, RNoBlock
  <2>6. ASSUME NEW q, R!SER_SOH(q, StatOf(Due)), toRcv' = <<>> PROVE GoesOn
    <3>1. UNCHANGED <<active, fileName, lastBlk, done>>
      BY SenderRests
    <3>2. numLastGoodBlk = NumMod - 1
      BY DEF StatDue
    <3>3. CASE R!send(<<NAK>>) /\ rActive' = "FirstByteStat" /\ rTimer' = "SOH" /\ rcvBlk' = StatOf(Due)
               /\ UNCHANGED <<rHist, rFileD, numLastGoodBlk, rDone, disk>>
      <4>1. Coming' = <<NAK>> /\ <<NAK>> \in NoneOr({C, NAK}) /\ Due' = Due
        BY <2>1, <3>3, Replies, ReceiverAnswers DEF NoneOr, Due
      <4>2. StatDue'
        BY <2>1, <2>6, <3>1, <3>3, <4>1 DEF StatDue, Answered, Exchange
      <4> QED
        BY <3>3, <4>2 DEF GoesOn, Phase, RHistOK, DiskStep
    <3>4. CASE Due = 0 /\ R!send(<<ACK>>) /\ rActive' = "AreWeDone" /\ rTimer' = "SOH"
               /\ UNCHANGED <<rHist, rDone, disk>>
      <4>1. Coming' = <<ACK>> /\ <<ACK>> \in NoneOr({ACK})
        BY <2>1, <3>4, Replies, ReceiverAnswers DEF NoneOr
      <4>2. AllThere'
        BY <1>2, <2>1, <2>6, <3>1, <3>4, <4>1 DEF AllThere, Answered
      <4> QED
        BY <3>4, <4>2 DEF GoesOn, Phase, RHistOK, DiskStep
    <3>5. CASE Due # 0 /\ R!send(<<ACK, C>>) /\ rActive' = "FirstByteData" /\ rTimer' = "SOH" /\ rcvBlk' = StatOf(Due)
               /\ rFileD' = Descriptor /\ rFileName' = Due /\ bytesRemaining' = FileSize(Due) /\ numLastGoodBlk' = 0
               /\ disk' = [disk EXCEPT ![Due] = <<>>] /\ UNCHANGED <<rHist, rDone>>
      <4>1. Coming' = <<ACK, C>> /\ <<ACK, C>> \in AckOrMore
        BY <2>1, <3>5, Replies, ReceiverAnswers DEF AckOrMore
      <4>2. Due = rDone + 1 /\ rDone < NumFiles /\ disk[Due] = <<>>
        BY <1>2, <3>5 DEF StatDue
      <4>3. disk' = disk
        BY <1>2, <3>5, <4>2 DEF DiskOK
      <4>4. OnDisk' = 0
        BY <3>5, <4>2, <4>3 DEF OnDisk
      <4>5. 0 <= Chunks[rDone + 1] /\ FileSize(rDone + 1) = FileSize(rDone + 1) - (0 * ChunkSz)
        <5>1. Chunks[Due] \in Nat /\ LastBytes[Due] \in Nat /\ ChunkSz \in Nat
          BY <1>2, <3>5, FilesAssumption DEF Files
        <5>2. FileSize(Due) \in Nat
          BY <5>1 DEF FileSize
        <5> QED
          BY <4>2, <5>1, <5>2
      <4>6. InFile(0)'
        BY <2>1, <3>1, <3>5, <4>2, <4>4, <4>5, FirstNumber DEF InFile
      <4>7. lastBlk' = StatOf(rDone' + 1) /\ rDone' = rDone
        BY <2>1, <3>1, <3>5, <4>2
      <4>8. DataDue'
        BY <2>1, <2>6, <3>1, <3>5, <4>1, <4>2, <4>4, <4>6, <4>7 DEF DataDue, Answered, Exchange
      <4> QED
        BY <3>5, <4>3, <4>8 DEF GoesOn, Phase, RHistOK, DiskStep
    <3> QED
      BY <1>1, <1>2, <2>4, <2>6, <3>2, <3>3, <3>4, <3>5, RStatBlock
  <2> QED
    BY <2>3, <2>5, <2>6
<1> QED
  BY <1>4, <1>5, <1>6 DEF ReceiverSteps

(* The receiver awaits data, the keyboard and the clock strike, or what    *)
(* arrived lets it as it is.                                               *)
LEMMA DataShort ==
  ASSUME LineTypeOK, DataDue, RHistOK, ReceiverSteps, Coming = <<>>,
         RStops \/ (RSame /\ toRcv' \in {toRcv, <<>>})
                \/ /\ toRcv' = <<>> /\ R!send(<<NAK>>) /\ rTimer' = "SOH"
                   /\ UNCHANGED <<rActive, rHist, rFileD, rFileName, bytesRemaining, numLastGoodBlk,
                                  anotherFile, rcvBlk, goodBlk, goodBlk1st, rDone, disk>>
  PROVE  GoesOn
<1>1. CASE RStops
  BY <1>1, GoesOnGone
<1>2. CASE RSame /\ toRcv' \in {toRcv, <<>>}
  BY <1>2, GoesOnSame
<1>3. CASE /\ toRcv' = <<>> /\ R!send(<<NAK>>) /\ rTimer' = "SOH"
           /\ UNCHANGED <<rActive, rHist, rFileD, rFileName, bytesRemaining, numLastGoodBlk,
                          anotherFile, rcvBlk, goodBlk, goodBlk1st, rDone, disk>>
  <2>1. Coming' = <<NAK>>
    BY <1>3, Replies, ReceiverAnswers
  <2>2. UNCHANGED <<active, fileName, lastBlk>>
    BY SenderRests
  <2>3. InFile(OnDisk)' /\ OnDisk' = OnDisk
    BY <1>3, <2>2 DEF DataDue, InFile, OnDisk
  <2>4. /\ <<NAK>> \in AckOrMore /\ <<NAK>> \in NoneOr({NAK}) /\ <<NAK>> \in NoneOr({NAK, ACK})
        /\ <<NAK>> \in NoneOr({C, NAK})
    BY DEF AckOrMore, NoneOr
  <2>5. DataDue'
    BY <1>3, <2>1, <2>2, <2>3, <2>4 DEF DataDue, Answered, Exchange
  <2> QED
    BY <1>3, <2>5 DEF GoesOn, Phase, RHistOK, DiskStep
<1> QED
  BY <1>1, <1>2, <1>3

LEMMA ReceiverAtData ==
  ASSUME LineTypeOK, DataDue, RHistOK, DiskOK, ReceiverSteps
  PROVE  GoesOn
<1>1. /\ rActive \in RWaiting /\ rActive = "FirstByteData" /\ rTimer = "SOH" /\ rFileD # Closed
      /\ rDone + 1 \in Files /\ OnDisk \in Nat /\ InFile(OnDisk) /\ numLastGoodBlk = OnDisk % NumMod
  <2>1. rDone < NumFiles /\ rDone + 1 \in Files /\ rDone + 1 \in 0..NumFiles
    BY FilesAssumption DEF DataDue, InFile, DiskOK, Files
  <2>2. OnDisk \in Nat
    BY <2>1 DEF DiskOK, OnDisk
  <2> QED
    BY <2>1, <2>2 DEF DataDue, RWaiting, InFile, Descriptor, Closed
<1>2. CASE ReceiverTM
  <2>1. R!TM /\ Coming = <<>> /\ toRcv' = toRcv /\ toRcv = <<>>
    BY <1>1, <1>2, NothingComing DEF ReceiverTM, Quiet
  <2>2. RStops \/ /\ R!send(<<NAK>>) /\ rTimer' = "SOH"
                  /\ UNCHANGED <<rActive, rHist, rFileD, rFileName, bytesRemaining, numLastGoodBlk,
                                 anotherFile, rcvBlk, goodBlk, goodBlk1st, rDone, disk>>
    BY <1>1, <2>1, RTimeout
  <2> QED
    BY <2>1, <2>2, DataShort
<1>3. CASE ReceiverKB_C
  <2>1. RSame /\ toRcv' = toRcv
    BY <1>1, <1>3, RKeyboard DEF ReceiverKB_C
  <2> QED
    BY <2>1, GoesOnSame
<1>4. CASE ReceiverSER
  <2>1. Coming = <<>> /\ toRcv # <<>>
    BY <1>4 DEF DataDue, Answered, Exchange, ReceiverSER
  <2>2. ASSUME R!SER(SOH) PROVE GoesOn
    BY <1>1, <2>1, <2>2, RNoBlock, GoesOnGone
  <2>3. ASSUME toRcv' = <<>>, R!SER(GLITCH) PROVE GoesOn
    BY <1>1, <2>1, <2>3, RNoise, DataShort
  <2>4. UNCHANGED <<active, fileName, lastBlk>>
    BY SenderRests
  <2>5. ASSUME NEW q, R!SER_SOH(q, lastBlk), toRcv' = <<>>,
               \/ active = "ACKNAKSTAT" /\ OnDisk = 0 /\ lastBlk = StatOf(rDone + 1)
               \/ active = "ACKNAK" /\ lastBlk = DataOf(rDone + 1, OnDisk + 1)
               \/ active = "ACKNAK" /\ OnDisk > 0 /\ lastBlk = DataOf(rDone + 1, OnDisk)
        PROVE  GoesOn
    <3>1. /\ rActive' = "CondTransientData" /\ rcvBlk' = lastBlk /\ R!Silent
          /\ UNCHANGED <<rHist, rFileD, rFileName, bytesRemaining, rDone, disk>>
          /\ goodBlk1st' => goodBlk'
          /\ lastBlk.num = (OnDisk + 1) % NumMod =>
               /\ goodBlk1st' \/ ~goodBlk'
               /\ goodBlk1st' => numLastGoodBlk' = (OnDisk + 1) % NumMod /\ ~anotherFile'
               /\ ~goodBlk1st' => numLastGoodBlk' = numLastGoodBlk /\ (anotherFile' => anotherFile)
          /\ lastBlk.num = OnDisk % NumMod =>
               /\ ~goodBlk1st'
               /\ numLastGoodBlk' = numLastGoodBlk /\ (anotherFile' => anotherFile)
      BY <1>1, <2>5, RDataBlock
    <3>2. Coming' = <<>>
      BY <2>1, <3>1, ReceiverSilent
    <3>3. OnDisk' = OnDisk
      BY <3>1 DEF OnDisk
    <3>4. CASE active = "ACKNAK" /\ lastBlk = DataOf(rDone + 1, OnDisk + 1)
      <4>1. lastBlk.num = (OnDisk + 1) % NumMod
        BY <3>4 DEF DataOf, Blk
      <4>2. InFile(IF goodBlk1st THEN OnDisk + 1 ELSE OnDisk)'
        <5>1. CASE goodBlk1st'
          BY <1>1, <2>4, <3>1, <3>3, <4>1, <5>1 DEF InFile
        <5>2. CASE ~goodBlk1st'
          BY <1>1, <2>4, <3>1, <3>3, <4>1, <5>2 DEF InFile
        <5> QED
          BY <5>1, <5>2
      <4>3. Judged'
        BY <2>4, <2>5, <3>1, <3>2, <3>3, <3>4, <4>1, <4>2 DEF Judged
      <4> QED
        BY <3>1, <4>3 DEF GoesOn, Phase, RHistOK, DiskStep
    <3>5. CASE lastBlk.num = OnDisk % NumMod /\ ~(active = "ACKNAK" /\ lastBlk = DataOf(rDone + 1, OnDisk + 1))
      <4>1. InFile(IF goodBlk1st THEN OnDisk + 1 ELSE OnDisk)'
        BY <1>1, <2>4, <3>1, <3>3, <3>5 DEF InFile
      <4>2. Judged'
        BY <2>4, <2>5, <3>1, <3>2, <3>3, <3>5, <4>1 DEF Judged
      <4> QED
        BY <3>1, <4>2 DEF GoesOn, Phase, RHistOK, DiskStep
    <3>6. lastBlk = StatOf(rDone + 1) /\ OnDisk = 0 => lastBlk.num = OnDisk % NumMod
      BY FirstNumber DEF StatOf, Blk
    <3>7. lastBlk = DataOf(rDone + 1, OnDisk) => lastBlk.num = OnDisk % NumMod
      BY DEF DataOf, Blk
    <3> QED
      BY <2>5, <3>4, <3>5, <3>6, <3>7
  <2>6. CASE toRcv \in Arriving(lastBlk) /\
             \/ active = "ACKNAKSTAT" /\ OnDisk = 0 /\ lastBlk = StatOf(rDone + 1)
             \/ active = "ACKNAK" /\ lastBlk = DataOf(rDone + 1, OnDisk + 1)
             \/ active = "ACKNAK" /\ OnDisk > 0 /\ lastBlk = DataOf(rDone + 1, OnDisk)
    <3>1. IsBlk(lastBlk)
      BY <2>6 DEF IsBlk, StatOf, DataOf, Blk
    <3> QED
      BY <1>4, <2>2, <2>3, <2>5, <2>6, <3>1, ReceiverReads
  <2>7. CASE /\ toRcv \in Arriving(Byte(EOT)) /\ active \in {"EOT1", "EOTEOT"}
             /\ EndOf(lastBlk, rDone + 1) /\ lastBlk = DataOf(rDone + 1, OnDisk)
    <3>1. ~IsBlk(Byte(EOT)) /\ Byte(EOT).type = EOT
      BY DEF IsBlk, Byte, EOT, SOH
    <3>2. toRcv' = <<>> /\ (R!SER(GLITCH) \/ R!SER(EOT))
      BY <1>4, <2>7, <3>1, ReceiverReads
    <3>3. CASE /\ rActive' = "EOT" /\ rTimer' = "SOH" /\ R!send(<<NAK>>)
               /\ UNCHANGED <<rHist, rFileD, rFileName, bytesRemaining, numLastGoodBlk, anotherFile,
                              rcvBlk, rDone, disk>>
      <4>1. Coming' = <<NAK>> /\ <<NAK>> \in NoneOr({NAK})
        BY <2>1, <3>3, Replies, ReceiverAnswers DEF NoneOr
      <4>2. InFile(OnDisk)' /\ OnDisk' = OnDisk
        BY <1>1, <2>4, <3>3 DEF InFile, OnDisk
      <4>3. rcvBlk = lastBlk
        BY <2>7 DEF DataDue
      <4>4. EndDue'
        BY <2>4, <2>7, <3>2, <3>3, <4>1, <4>2, <4>3 DEF EndDue, EndOf, Answered, Exchange
      <4> QED
        BY <3>3, <4>4 DEF GoesOn, Phase, RHistOK, DiskStep
    <3> QED
      BY <1>1, <2>1, <2>3, <3>2, <3>3, REnds, DataShort
  <2> QED
    BY <2>1, <2>6, <2>7 DEF DataDue, Answered, Exchange
<1> QED
  BY <1>2, <1>3, <1>4 DEF ReceiverSteps

LEMMA ReceiverAtAnswer ==
  ASSUME IInv, LineTypeOK, Judged, RHistOK, DiskOK, ReceiverSteps
  PROVE  GoesOn
<1>1. /\ rActive = "CondTransientData" /\ toRcv = <<>> /\ Coming = <<>> /\ rFileName = rDone + 1
      /\ rDone < NumFiles /\ rDone + 1 \in Files /\ rDone + 1 \in 0..NumFiles /\ OnDisk \in Nat
  <2>1. rDone < NumFiles /\ rDone + 1 \in Files /\ rDone + 1 \in 0..NumFiles
    BY FilesAssumption DEF Judged, InFile, DiskOK, Files
  <2>2. OnDisk \in Nat
    BY <2>1 DEF DiskOK, OnDisk
  <2> QED
    BY <2>1, <2>2 DEF Judged, InFile
<1>2. CASE ReceiverKB_C
  BY <1>1, <1>2, RKeyboard, GoesOnGone DEF ReceiverKB_C
<1>3. ~ReceiverSER
  BY <1>1 DEF ReceiverSER
<1>4. CASE ReceiverTM
  <2>1. R!TM /\ toRcv' = <<>>
    BY <1>1, <1>4 DEF ReceiverTM
  <2>2. CASE RStops
    BY <1>1, <2>2, GoesOnGone
  <2>3. CASE ~RStops
    <3>1. /\ rActive' = "FirstByteData" /\ rTimer' = "SOH"
          /\ IF ~goodBlk THEN R!send(<<NAK>>)
             ELSE IF anotherFile THEN R!send(<<ACK, C>>) ELSE R!send(<<ACK>>)
          /\ IF goodBlk1st /\ ~(bytesRemaining <= 0)
             THEN /\ bytesRemaining' = bytesRemaining - ChunkSz
                  /\ disk' = [disk EXCEPT ![rFileName] = Append(@, rcvBlk)]
             ELSE UNCHANGED <<bytesRemaining, disk>>
          /\ UNCHANGED <<rHist, rFileD, rFileName, numLastGoodBlk, anotherFile, rcvBlk, rDone>>
      BY <1>1, <2>1, <2>3, RAnswers
    <3>2. Coming' = IF ~goodBlk THEN <<NAK>> ELSE IF anotherFile THEN <<ACK, C>> ELSE <<ACK>>
      <4>1. R!send(IF ~goodBlk THEN <<NAK>> ELSE IF anotherFile THEN <<ACK, C>> ELSE <<ACK>>)
        BY <3>1, Zenon
      <4>2. (IF ~goodBlk THEN <<NAK>> ELSE IF anotherFile THEN <<ACK, C>> ELSE <<ACK>>) \in Seq(ControlBytes)
        BY Replies, Zenon
      <4> QED
        BY <1>1, <4>1, <4>2, ReceiverAnswers
    <3>3. UNCHANGED <<active, fileName, lastBlk>>
      BY SenderRests
    <3>4. CASE goodBlk1st
      <4>1. /\ active = "ACKNAK" /\ lastBlk = DataOf(rDone + 1, OnDisk + 1) /\ rcvBlk = lastBlk
            /\ goodBlk /\ InFile(OnDisk + 1) /\ fileName = rDone + 1
        BY <3>4 DEF Judged, InFile
      <4>2. ~anotherFile
        BY <1>1, <4>1 DEF InFile
      <4>3. OnDisk + 1 <= Chunks[rDone + 1] /\ Chunks[rDone + 1] \in Nat
        <5>1. lastBlk.chunk = OnDisk + 1
          BY <4>1 DEF DataOf, Blk
        <5> QED
          BY <1>1, <4>1, <5>1, OutBlock, FilesAssumption DEF Files
      <4>4. OnDisk < Chunks[rDone + 1]
        BY <1>1, <4>3
      <4>5. /\ bytesRemaining > 0 /\ bytesRemaining \in Int
            /\ bytesRemaining - ChunkSz = FileSize(rDone + 1) - ((OnDisk + 1) * ChunkSz)
        BY <1>1, <4>1, <4>4, StillExpected DEF InFile
      <4>6. Stored /\ bytesRemaining' = FileSize(rDone + 1) - ((OnDisk + 1) * ChunkSz)
        BY <1>1, <3>1, <3>4, <4>1, <4>4, <4>5 DEF Stored
      <4>7. OnDisk' = OnDisk + 1
        BY <4>6, StoredLength
      <4>8. InFile(OnDisk)'
        BY <1>1, <3>1, <3>3, <4>1, <4>2, <4>3, <4>6, <4>7 DEF InFile
      <4>9. Coming' = <<ACK>> /\ <<ACK>> \in NoneOr({NAK, ACK})
        BY <3>2, <4>1, <4>2 DEF NoneOr
      <4>10. OnDisk' > 0 /\ rDone' = rDone /\ lastBlk' = DataOf(rDone' + 1, OnDisk')
        BY <1>1, <3>1, <3>3, <4>1, <4>7
      <4>11. DataDue'
        BY <2>1, <3>1, <3>3, <4>1, <4>8, <4>9, <4>10 DEF DataDue, Answered, Exchange
      <4> QED
        BY <3>1, <4>6, <4>11 DEF GoesOn, Phase, RHistOK, DiskStep
    <3>5. CASE ~goodBlk1st
      <4>1. /\ InFile(OnDisk) /\ UNCHANGED <<bytesRemaining, disk>> /\ rcvBlk = lastBlk
        BY <3>1, <3>5 DEF Judged
      <4>2. OnDisk' = OnDisk /\ InFile(OnDisk)'
        BY <3>1, <3>3, <4>1 DEF OnDisk, InFile
      <4>3. /\ Coming' \in {<<NAK>>, <<ACK, C>>, <<ACK>>}
            /\ ~goodBlk => Coming' = <<NAK>>
            /\ OnDisk > 0 => Coming' # <<ACK, C>>
        <5>1. OnDisk > 0 => ~anotherFile
          BY <4>1 DEF InFile
        <5>2. CASE ~goodBlk
          BY <3>2, <5>2
        <5>3. CASE goodBlk /\ anotherFile
          <6>1. Coming' = <<ACK, C>>
            BY <3>2, <5>3
          <6> QED
            BY <5>1, <5>3, <6>1
        <5>4. CASE goodBlk /\ ~anotherFile
          BY <3>2, <5>4
        <5> QED
          BY <5>2, <5>3, <5>4
      <4>4. /\ <<NAK>> \in NoneOr({NAK}) /\ <<NAK>> \in NoneOr({NAK, ACK}) /\ <<ACK>> \in NoneOr({NAK, ACK})
            /\ <<NAK>> \in AckOrMore /\ <<ACK>> \in AckOrMore /\ <<ACK, C>> \in AckOrMore
        BY DEF AckOrMore, NoneOr
      <4>5. \/ /\ active' = "ACKNAKSTAT" /\ OnDisk' = 0 /\ lastBlk' = StatOf(rDone' + 1)
               /\ Coming' \in AckOrMore
            \/ /\ active' = "ACKNAK" /\ lastBlk' = DataOf(rDone' + 1, OnDisk' + 1)
               /\ Coming' \in NoneOr({NAK})
            \/ /\ active' = "ACKNAK" /\ OnDisk' > 0 /\ lastBlk' = DataOf(rDone' + 1, OnDisk')
               /\ Coming' \in NoneOr({NAK, ACK})
        BY <3>1, <3>3, <3>5, <4>2, <4>3, <4>4 DEF Judged
      <4>6. rcvBlk' = lastBlk'
        BY <3>1, <3>3, <4>1
      <4>7. DataDue'
        BY <2>1, <3>1, <4>2, <4>5, <4>6 DEF DataDue, Answered, Exchange
      <4> QED
        BY <3>1, <4>1, <4>7 DEF GoesOn, Phase, RHistOK, DiskStep
    <3> QED
      BY <3>4, <3>5
  <2> QED
    BY <2>2, <2>3
<1> QED
  BY <1>2, <1>3, <1>4 DEF ReceiverSteps

LEMMA ReceiverAtEnd ==
  ASSUME IInv, LineTypeOK, EndDue, RHistOK, DiskOK, ClaimsOK, ReceiverSteps
  PROVE  GoesOn
<1>1. /\ rActive \in RWaiting /\ rActive = "EOT" /\ rTimer = "SOH" /\ rFileD = Descriptor /\ Descriptor # Closed
      /\ rDone \in Nat /\ NumFiles \in Nat /\ rDone < NumFiles /\ rDone + 1 \in Files /\ OnDisk \in Nat
  <2>1. rDone \in Nat /\ NumFiles \in Nat /\ rDone < NumFiles /\ rDone + 1 \in Files /\ rDone + 1 \in 0..NumFiles
    BY FilesAssumption DEF EndDue, InFile, DiskOK, Files
  <2>2. OnDisk \in Nat
    BY <2>1 DEF DiskOK, OnDisk
  <2> QED
    BY <2>1, <2>2 DEF EndDue, RWaiting, InFile, Descriptor, Closed
<1>2. UNCHANGED <<active, fileName, lastBlk, done>>
  BY SenderRests
<1>3. CASE ReceiverTM
  <2>1. R!TM /\ Coming = <<>> /\ toRcv' = toRcv /\ toRcv = <<>>
    BY <1>1, <1>3, NothingComing DEF ReceiverTM, Quiet
  <2>2. CASE RStops
    BY <2>1, <2>2, GoesOnGone
  <2>3. CASE ~RStops
    <3>1. /\ rTimer' = "SOH" /\ R!send(<<NAK>>)
          /\ UNCHANGED <<rActive, rHist, rFileD, rFileName, bytesRemaining, numLastGoodBlk,
                         anotherFile, rcvBlk, goodBlk, goodBlk1st, rDone, disk>>
      BY <1>1, <2>1, <2>3, RTimeout
    <3>2. Coming' = <<NAK>> /\ <<NAK>> \in NoneOr({NAK})
      BY <2>1, <3>1, Replies, ReceiverAnswers DEF NoneOr
    <3>3. InFile(OnDisk)' /\ OnDisk' = OnDisk
      BY <1>2, <3>1 DEF EndDue, InFile, OnDisk
    <3>4. EndDue'
      BY <1>2, <2>1, <3>1, <3>2, <3>3 DEF EndDue, EndOf, Answered, Exchange
    <3> QED
      BY <3>1, <3>4 DEF GoesOn, Phase, RHistOK, DiskStep
  <2> QED
    BY <2>2, <2>3
<1>4. CASE ReceiverKB_C
  <2>1. RSame /\ toRcv' = toRcv
    BY <1>1, <1>4, RKeyboard DEF ReceiverKB_C
  <2> QED
    BY <2>1, GoesOnSame
<1>5. CASE ReceiverSER
  <2>1. active = "EOTEOT" /\ toRcv \in Arriving(Byte(EOT)) /\ Coming = <<>>
    BY <1>5 DEF EndDue, Answered, Exchange, ReceiverSER
  <2>2. ~IsBlk(Byte(EOT)) /\ Byte(EOT).type = EOT
    BY DEF IsBlk, Byte, EOT, SOH
  <2>3. toRcv' = <<>> /\ (R!SER(GLITCH) \/ R!SER(EOT))
    BY <1>5, <2>1, <2>2, ReceiverReads, Zenon
  <2>4. ASSUME RStops \/ RSame PROVE GoesOn
    BY <2>1, <2>3, <2>4, GoesOnGone, GoesOnSame
  <2>5. CASE R!SER(GLITCH)
    BY <1>1, <2>4, <2>5, RNoise
  <2>6. CASE /\ rActive' = "FirstByteStat" /\ rTimer' = "SOH" /\ R!send(<<ACK, C>>)
             /\ rFileD' = Closed /\ numLastGoodBlk' = NumMod - 1 /\ rDone' = rDone + 1
             /\ UNCHANGED <<rHist, rcvBlk, disk>>
    <3>1. Coming' = <<ACK, C>> /\ <<ACK, C>> \in AckAndC
      BY <2>1, <2>6, Replies, ReceiverAnswers DEF AckAndC
    <3>2. EndOf(lastBlk, rDone + 1) /\ OnDisk = Chunks[rDone + 1] /\ rcvBlk = lastBlk
      BY DEF EndDue, EndOf, LastOfFile, DataOf, Blk
    <3>3. Counted
      BY <1>1, <2>6, <3>2 DEF Counted
    <3>4. EndOf(lastBlk', rDone') /\ EndOf(rcvBlk', rDone')
      BY <1>2, <2>6, <3>2
    <3>5. fileName' = rDone' /\ done' < rDone'
      <4>1. done \in Nat
        BY DEF IInv, TypeOK
      <4> QED
        BY <1>1, <1>2, <2>6, <4>1 DEF EndDue, InFile, ClaimsOK
    <3>6. rDone' < NumFiles => disk'[rDone' + 1] = <<>>
      BY <1>1, <2>6 DEF DiskOK, Files
    <3>7. StatDue'
      BY <1>2, <2>1, <2>3, <2>6, <3>1, <3>4, <3>5, <3>6 DEF StatDue, EndOf, Answered
    <3> QED
      BY <2>6, <3>3, <3>7 DEF GoesOn, Phase, RHistOK, DiskStep
  <2> QED
    BY <1>1, <2>3, <2>4, <2>5, <2>6, RCloses
<1> QED
  BY <1>3, <1>4, <1>5 DEF ReceiverSteps

LEMMA ReceiverAllThere ==
  ASSUME LineTypeOK, AllThere, RHistOK, ReceiverSteps
  PROVE  GoesOn
<1>1. rActive \in RWaiting /\ rActive = "AreWeDone" /\ rTimer = "SOH" /\ toRcv = <<>>
  BY DEF AllThere, RWaiting, Answered
<1>2. CASE ReceiverTM
  BY <1>1, <1>2, RTimeout, NothingComing, GoesOnGone DEF ReceiverTM, Quiet
<1>3. CASE ReceiverKB_C
  <2>1. RSame /\ toRcv' = toRcv
    BY <1>1, <1>3, RKeyboard DEF ReceiverKB_C
  <2> QED
    BY <2>1, GoesOnSame
<1> QED
  BY <1>1, <1>2, <1>3 DEF ReceiverSteps, ReceiverSER

(* Once the sender has stopped, noise and CANs are all that reaches the    *)
(* receiver; a block it judged good before is still written.               *)
LEMMA AfterSender ==
  ASSUME SenderGone, RHistOK, ReceiverSteps, DiskStep, RHistOK', toRcv' \in Seq({Noise(CAN), Noise(GLITCH)}),
         \/ rActive' \notin {"CondTransientData"}
         \/ UNCHANGED <<rActive, goodBlk1st, rDone, rFileName, rcvBlk, disk>>
  PROVE  GoesOn
<1>1. ~running'
  BY SenderRests DEF SenderGone, running, Final
<1>2. CASE rActive' = "Final"
  BY <1>1, <1>2 DEF GoesOn, Phase, ReceiverGone, R!running, R!Final
<1>3. CASE rActive' # "Final" /\ rActive' # "CondTransientData"
  BY <1>1, <1>3 DEF GoesOn, Phase, SenderGone, R!running, R!Final
<1>4. CASE rActive' # "Final" /\ UNCHANGED <<rActive, goodBlk1st, rDone, rFileName, rcvBlk, disk>>
  <2>1. OnDisk' = OnDisk
    BY <1>4 DEF OnDisk
  <2> QED
    BY <1>1, <1>4, <2>1 DEF GoesOn, Phase, SenderGone, R!running, R!Final
<1> QED
  BY <1>2, <1>3, <1>4

LEMMA RHistSame ==
  ASSUME RHistOK, rHist' = rHist
  PROVE  RHistOK'
BY DEF RHistOK

LEMMA RByteGone ==
  ASSUME RHistOK, NEW c \in {CAN, GLITCH}, R!SER(c)
  PROVE  /\ RHistOK' /\ UNCHANGED <<rDone, disk>>
         /\ \/ rActive' # "CondTransientData"
            \/ UNCHANGED <<rActive, goodBlk1st, rDone, rFileName, rcvBlk, disk>>
<1>1. c # EOT /\ c # R!EOT
  BY DEF CAN, GLITCH, EOT, R!EOT
<1>2. \/ R!FirstCan(c) \/ R!CAN_Resume(c) \/ R!CAN_Cancelled(c) \/ R!Ignored(c) \/ R!CancelAtByte(c)
  BY <1>1, Zenon DEF R!SER, R!FirstByteData_EOT, R!EOT_Closed, R!EOT_CloseError, R!FirstByteStat_EOT,
     R!FirstByteStat_ExcessiveEOTs
<1>3. CASE R!FirstCan(c)
  <2>1. rActive \in RWaiting /\ R!GoTo("NON_CAN", "CAN") /\ UNCHANGED <<rDone, disk>>
    BY <1>3 DEF R!FirstCan, R!NON_CAN, R!DataStates, RWaiting, R!contents, R!result
  <2> QED
    BY <2>1, RGoToCan
<1>4. CASE R!CAN_Resume(c)
  <2>1. rActive = "CAN" /\ R!GoTo("CAN", "NON_CAN") /\ UNCHANGED <<rDone, disk>>
    BY <1>4 DEF R!CAN_Resume, R!Resume, R!contents, R!result
  <2> QED
    BY <2>1, RGoBack, RHistSame
<1>5. CASE R!CAN_Cancelled(c) \/ R!CancelAtByte(c)
  <2>1. rActive' = "Final" /\ UNCHANGED <<rHist, rDone, disk>>
    BY <1>5 DEF R!CAN_Cancelled, R!CancelAtByte, R!Finish, R!Final, R!contents
  <2> QED
    BY <2>1, RHistSame
<1>6. CASE R!Ignored(c)
  <2>1. UNCHANGED <<rActive, rHist, goodBlk1st, rDone, rFileName, rcvBlk, disk>>
    BY <1>6 DEF R!Ignored, R!Stays, R!chart, R!judgement, R!opened, R!contents, R!result
  <2> QED
    BY <2>1, RHistSame
<1> QED
  BY <1>2, <1>3, <1>4, <1>5, <1>6

LEMMA ReceiverAlone ==
  ASSUME LineTypeOK, SenderGone, RHistOK, DiskOK, ReceiverSteps
  PROVE  GoesOn
<1> DEFINE Waste == {Noise(CAN), Noise(GLITCH)}
<1>1. toRcv \in Seq(Waste)
  BY DEF SenderGone
<1>2. CASE ReceiverSER
  <2>1. toRcv # <<>> /\ Head(toRcv) \in Waste
    BY <1>1, <1>2 DEF ReceiverSER
  <2>2. \A x \in Waste : ~IsBlk(x.msg) /\ ~Whole(x)
    BY DEF Noise, Item, Byte, IsBlk, Whole, CAN, GLITCH, SOH
  <2>3. toRcv' \in Seq(Waste)
    <3> DEFINE s == Tail(toRcv)
    <3> HIDE DEF Waste
    <3>1. s \in Seq(Waste) /\ toRcv' \in Kept(s)
      BY <1>1, <1>2, <2>1, <2>2 DEF ReceiverSER
    <3> HIDE DEF s
    <3>2. toRcv' = s \/ \E n \in DOMAIN s : toRcv' \in CutAt(s, n)
      BY <3>1 DEF Kept
    <3>3. ASSUME NEW n \in DOMAIN s, toRcv' \in CutAt(s, n) PROVE toRcv' \in Seq(Waste)
      <4>1. s[n] \in Waste /\ SubSeq(s, n + 1, Len(s)) \in Seq(Waste)
        BY <3>1
      <4>2. toRcv' = <<>> \o SubSeq(s, n + 1, Len(s))
        BY <2>2, <3>3, <4>1 DEF CutAt
      <4> QED
        BY <4>1, <4>2
    <3> QED
      BY <3>1, <3>2, <3>3
  <2>4. PICK c \in {CAN, GLITCH} : Head(toRcv) = Noise(c)
    BY <2>1
  <2>5. R!SER(c)
    <3>1. Head(toRcv).msg = Byte(c) /\ Byte(c).type = c /\ ~IsBlk(Byte(c))
      BY <2>4 DEF Noise, Item, Byte, IsBlk, CAN, GLITCH, SOH
    <3> QED
      BY <1>2, <3>1 DEF ReceiverSER
  <2>6. /\ RHistOK' /\ UNCHANGED <<rDone, disk>>
        /\ \/ rActive' # "CondTransientData"
           \/ UNCHANGED <<rActive, goodBlk1st, rDone, rFileName, rcvBlk, disk>>
    BY <2>5, RByteGone
  <2>7. DiskStep
    BY <2>6 DEF DiskStep
  <2> QED
    BY <2>3, <2>6, <2>7, AfterSender
<1>3. CASE ReceiverKB_C
  <2>1. toRcv' = toRcv /\ R!KB_C
    BY <1>3 DEF ReceiverKB_C
  <2>2. \/ rActive' = "Final" /\ UNCHANGED <<rHist, rDone, disk>>
        \/ UNCHANGED <<rActive, rHist, goodBlk1st, rDone, rFileName, rcvBlk, disk>>
    BY <2>1, RKeyboard DEF RStops, RSame
  <2>3. DiskStep /\ RHistOK'
    BY <2>2, RHistSame DEF DiskStep
  <2> QED
    BY <1>1, <2>1, <2>2, <2>3, AfterSender
<1>4. CASE ReceiverTM
  <2>1. toRcv' = toRcv /\ R!TM
    BY <1>4 DEF ReceiverTM
  <2>2. CASE rActive = "CondTransientData"
    <3>1. RStops \/ /\ rActive' = "FirstByteData"
                    /\ IF goodBlk1st /\ ~(bytesRemaining <= 0)
                       THEN disk' = [disk EXCEPT ![rFileName] = Append(@, rcvBlk)]
                       ELSE UNCHANGED disk
                    /\ UNCHANGED <<rHist, rcvBlk, rDone>>
      BY <2>1, <2>2, RAnswers
    <3>2. UNCHANGED rHist /\ rActive' # "CondTransientData"
      BY <3>1 DEF RStops
    <3>3. DiskStep
      BY <2>2, <3>1 DEF DiskStep, SenderGone, Stored, RStops
    <3> QED
      BY <1>1, <2>1, <3>2, <3>3, RHistSame, AfterSender
  <2>3. CASE R!CAN_TM
    <3>1. rActive = "CAN" /\ R!GoTo("CAN", "NON_CAN") /\ UNCHANGED <<rDone, disk>>
      BY <2>3 DEF R!CAN_TM, R!Resume, R!contents, R!result
    <3>2. RHistOK' /\ rActive' # "CondTransientData" /\ DiskStep
      BY <3>1, RGoBack, RHistSame DEF DiskStep
    <3> QED
      BY <1>1, <2>1, <3>2, AfterSender
  <2>4. CASE R!Retry \/ R!AreWeDone_TM \/ R!TopLevel_TM
    <3>1. /\ UNCHANGED <<rHist, rDone, disk>>
          /\ rActive' # "CondTransientData"
      BY <2>4 DEF R!Retry, R!DataStates, R!Stays, R!chart, R!contents, R!result, R!AreWeDone_TM, R!TopLevel_TM, R!Finish, R!Final
    <3>2. RHistOK' /\ DiskStep
      BY <3>1, RHistSame DEF DiskStep
    <3> QED
      BY <1>1, <2>1, <3>1, <3>2, AfterSender
  <2> QED
    BY <2>1, <2>2, <2>3, <2>4 DEF R!TM, R!CondTransientData_Answer, R!CondTransientData_GivenUp
<1> QED
  BY <1>2, <1>3, <1>4 DEF ReceiverSteps

LEMMA ReceiverRuns ==
  ASSUME (\E c : R!SER(c)) \/ (\E q, m : R!SER_SOH(q, m))
  PROVE  R!running
<1> SUFFICES ASSUME rActive = "Final" PROVE FALSE
  BY DEF R!running, R!Final
<1>1. \A c : ~R!SER(c)
  BY DEF R!SER, R!FirstByteData_EOT, R!EOT_Closed, R!EOT_CloseError, R!FirstByteStat_EOT,
     R!FirstByteStat_ExcessiveEOTs, R!FirstCan, R!CAN_Resume, R!Resume, R!CAN_Cancelled, R!Ignored, R!CancelAtByte,
     R!NON_CAN, R!DataStates, R!running, R!Final
<1>2. \A q, m : ~R!SER_SOH(q, m)
  BY DEF R!SER_SOH, R!StatBlock, R!DataBlock, R!Stat_Rejected, R!Stat_NoMoreFiles, R!Stat_FileOpened,
     R!Stat_CreatError, R!Stat_SizeThrows, R!Stat_GivenUp, R!StatTaken, R!StatJudged, R!DataStates
<1> QED
  BY <1>1, <1>2

(* A receiver that has stopped takes no step.                              *)
LEMMA ReceiverIdle ==
  ASSUME ReceiverGone
  PROVE  ~ReceiverSteps
<1>1. rActive = "Final"
  BY DEF ReceiverGone, R!running, R!Final
<1>2. (\A c : ~R!SER(c)) /\ (\A q, m : ~R!SER_SOH(q, m))
  BY <1>1, ReceiverRuns DEF R!running, R!Final
<1>3. ~R!TM /\ ~R!KB_C
  BY <1>1 DEF R!TM, R!KB_C, R!CondTransientData_Answer, R!CondTransientData_GivenUp, R!CAN_TM, R!Resume, R!Retry,
     R!AreWeDone_TM, R!TopLevel_TM, R!CondTransientData_KB_C, R!TopLevel_KB_C, R!DataStates, R!running, R!Final
<1> QED
  BY <1>2, <1>3, Zenon DEF ReceiverSteps, ReceiverSER, ReceiverTM, ReceiverKB_C

LEMMA ReceiverGoesOn ==
  ASSUME IInv, LineTypeOK, InStep, ReceiverSteps
  PROVE  GoesOn
BY ReceiverAtStat, ReceiverAtData, ReceiverAtAnswer, ReceiverAtEnd, ReceiverAllThere, ReceiverAlone, ReceiverIdle, Zenon
   DEF InStep, Phase

-----------------------------------------------------------------------------
(***************************************************************************)
(* The sender's steps.                                                     *)
(***************************************************************************)
SenderEvents == SenderSER \/ SenderTM \/ SenderKB_C
SGoesOn == Phase' /\ ClaimsOK' /\ sendExtraAck' = FALSE

LEMMA ReceiverRests ==
  ASSUME SenderEvents
  PROVE  UNCHANGED <<rActive, rHist, rTimer, rFileD, rFileName, bytesRemaining, numLastGoodBlk,
                     anotherFile, rcvBlk, goodBlk, goodBlk1st, rDone, disk, fromRcv>>
BY DEF SenderEvents, SenderSER, SenderTM, SenderKB_C, receiverVars, line

LEMMA SenderIdle ==
  ASSUME ~running
  PROVE  ~SenderEvents
<1>1. active = "Final"
  BY DEF running, Final
<1>2. \A c : ~SER(c)
  BY <1>1 DEF SER, Block, Resend, EndOfFile, Cancel, ONE_FirstBlock, StatC_SendStat, ACKNAK_NextBlock, ACKNAK_Resend,
     ACKNAKSTAT_Resend, ONE_Resend, ONE_EmptyFile, ACKNAK_LastAcked, EOT1_Resend, EOT1_Acked, EOT1_Naked, EOTEOT_Resend,
     EOTEOT_Done, FirstCan, CAN_Resume, CAN_Cancelled, ExcessiveNAKs, CancelAtAnswer, StatC_OpenError,
     ACKNAKSTAT_Accepted, ACKNAKSTAT_EndOfSession, Ignored, NON_CAN, running, Final
<1>3. ~TM /\ ~KB_C
  BY <1>1 DEF TM, CAN_TM, TopLevel_TM, KB_C, StatC_KB_C, NON_CAN_KB_C, CAN_KB_C, NON_CAN, running, Final
<1> QED
  BY <1>2, <1>3, Zenon DEF SenderEvents, SenderSER, SenderTM, SenderKB_C

(* The sender reads an answer, and writes a message or nothing.            *)
LEMMA SenderSends ==
  ASSUME NothingMadeUp, sendExtraAck = FALSE, SenderSER, toRcv = <<>>, Tail(toSnd) = <<>>, fromRcv = <<>>,
         NEW m, out' = <<m>>, m.type \in {SOH, EOT}
  PROVE  toRcv' \in Arriving(m) /\ Coming' = <<>> /\ sendExtraAck' = FALSE
<1>1. MsgFromTerm2(Tail(toSnd)) /\ fromRcv' = fromRcv
  BY DEF SenderSER
<1>2. toRcv' \in Arriving(m) /\ sendExtraAck' = FALSE /\ (toSnd' = Tail(toSnd) \/ toSnd' = <<>>)
  BY <1>1, Written1
<1>3. <<>> \o <<>> = <<>>
  OBVIOUS
<1> QED
  BY <1>1, <1>2, <1>3 DEF Coming

LEMMA SenderQuiet ==
  ASSUME LineTypeOK, sendExtraAck = FALSE, SenderSER, out' = <<>>
  PROVE  toRcv' = toRcv /\ Coming' = Tail(toSnd) \o fromRcv /\ sendExtraAck' = FALSE
<1>1. MsgFromTerm2(Tail(toSnd)) /\ fromRcv' = fromRcv
  BY DEF SenderSER
<1> QED
  BY <1>1, Written0 DEF Coming

LEMMA ReadShrinks ==
  ASSUME LineTypeOK, sendExtraAck = FALSE, SenderSER, out' = <<>>
  PROVE  Shrinks
<1>1. toSnd # <<>> /\ Coming # <<>> /\ toRcv' = toRcv /\ Coming' = Tail(toSnd) \o fromRcv
  BY SenderQuiet, NothingComing DEF SenderSER
<1>2. <<>> \o <<>> = <<>>
  OBVIOUS
<1>3. ASSUME NEW S, Coming \in NoneOr(S) PROVE Coming' \in NoneOr(S)
  <2>1. Coming' = <<>>
    BY <1>1, <1>2, <1>3, ReadOne
  <2> QED
    BY <2>1 DEF NoneOr
<1>4. ASSUME Coming = <<ACK, C>> PROVE Coming' = <<C>>
  BY <1>1, <1>4, ReadTwo
<1>5. <<C>> \in AckAndC /\ <<C>> \in AckOrMore
  BY DEF AckAndC, AckOrMore, NoneOr
<1>6. Coming \in AckAndC => Coming' \in AckAndC
  BY <1>3, <1>4, <1>5 DEF AckAndC
<1>7. Coming \in AckOrMore => Coming' \in AckOrMore
  BY <1>3, <1>4, <1>5 DEF AckOrMore
<1> QED
  BY <1>1, <1>3, <1>6, <1>7 DEF Shrinks

LEMMA SenderIgnores ==
  ASSUME LineTypeOK, ClaimsOK, sendExtraAck = FALSE, SenderSER, SIgnores,
         StatDue \/ DataDue \/ Judged \/ EndDue \/ AllThere
  PROVE  SGoesOn
<1>1. Shrinks /\ sendExtraAck' = FALSE
  BY ReadShrinks, SenderQuiet DEF SIgnores
<1>2. UNCHANGED peers /\ UNCHANGED ending
  BY ReceiverRests DEF SenderEvents, SIgnores, SUnmoved, peers
<1>3. Phase'
  BY <1>1, <1>2, PhaseShrinks DEF Phase
<1>4. ClaimsOK'
  BY <1>2 DEF ClaimsOK, peers
<1> QED
  BY <1>1, <1>3, <1>4 DEF SGoesOn

(* The sender stops, while the receiver has nothing to be told but CANs.   *)
PendingOK ==
  rActive = "CondTransientData" /\ goodBlk1st =>
    /\ rDone < NumFiles /\ rFileName = rDone + 1
    /\ rcvBlk = DataOf(rDone + 1, OnDisk + 1) /\ OnDisk < Chunks[rDone + 1]

LEMMA SenderLeaves ==
  ASSUME NothingMadeUp, LineTypeOK, DiskOK, ClaimsOK, sendExtraAck = FALSE, SenderSER \/ SenderTM, SStops, toRcv = <<>>,
         R!running, PendingOK, ending' = "EndOfSession" => rDone = NumFiles
  PROVE  SGoesOn
<1>1. PICK unread : MsgFromTerm2(unread)
  BY DEF SenderSER, SenderTM
<1>2. toRcv' \in Seq({Noise(CAN), Noise(GLITCH)}) /\ sendExtraAck' = FALSE
  <2>1. CASE out' = <<>>
    <3>1. <<>> \in Seq({Noise(CAN), Noise(GLITCH)})
      OBVIOUS
    <3>2. toRcv' = <<>> /\ sendExtraAck' = FALSE
      BY <1>1, <2>1, Written0
    <3> QED
      BY <3>1, <3>2
  <2>2. CASE out' = Cans
    BY <1>1, <2>2, WrittenCans
  <2> QED
    BY <2>1, <2>2 DEF SStops
<1>3. UNCHANGED <<rActive, rFileName, goodBlk1st, rcvBlk, rDone, disk>> /\ OnDisk' = OnDisk
  BY ReceiverRests DEF SenderEvents, OnDisk
<1>4. SenderGone'
  BY <1>2, <1>3 DEF SenderGone, PendingOK, SStops, running, Final, R!running, R!Final
<1>5. ClaimsOK'
  BY <1>3 DEF ClaimsOK, SStops, DiskOK
<1> QED
  BY <1>2, <1>4, <1>5 DEF SGoesOn, Phase

LEMMA Sendable ==
  /\ \A g : StatOf(g).type = SOH
  /\ \A g, k : DataOf(g, k).type = SOH
  /\ \A g : StatOf(g) = DataOf(g, 0)
  /\ Byte(EOT).type = EOT
BY FirstNumber DEF StatOf, DataOf, Blk, Byte

LEMMA AnswerBytes == ACK # C /\ ACK # NAK /\ NAK # C
BY DEF ACK, NAK, C

LEMMA SenderAtStat ==
  ASSUME NothingMadeUp, IInv, LineTypeOK, StatDue, DiskOK, ClaimsOK, sendExtraAck = FALSE, SenderSER
  PROVE  SGoesOn
<1>1. /\ toSnd # <<>> /\ SER(Head(toSnd)) /\ Coming # <<>> /\ toRcv = <<>>
      /\ rActive = "FirstByteStat" /\ R!running /\ PendingOK
  BY NothingComing DEF SenderSER, StatDue, Answered, Exchange, PendingOK, R!running, R!Final
<1>2. UNCHANGED <<rActive, rTimer, rFileD, rFileName, bytesRemaining, numLastGoodBlk,
                  anotherFile, rcvBlk, goodBlk, goodBlk1st, rDone, disk, fromRcv>> /\ Due' = Due
  BY ReceiverRests DEF SenderEvents, Due
<1>3. ASSUME SStops, ending' # "EndOfSession" PROVE SGoesOn
  BY <1>1, <1>3, SenderLeaves
<1>4. ASSUME SIgnores PROVE SGoesOn
  BY <1>4, SenderIgnores
<1>5. CASE /\ active = "EOTEOT" /\ EndOf(lastBlk, rDone)
           /\ fileName = rDone /\ done < rDone /\ Coming \in AckAndC
  <2>1. Head(toSnd) \in {ACK, C} /\ Tail(toSnd) \o fromRcv \in NoneOr({C})
    <3>1. CASE Coming \in NoneOr({ACK, C})
      <4>1. Head(toSnd) \in {ACK, C} /\ Tail(toSnd) = <<>> /\ fromRcv = <<>>
        BY <1>1, <3>1, ReadOne
      <4>2. <<>> \o <<>> = <<>>
        OBVIOUS
      <4> QED
        BY <4>1, <4>2 DEF NoneOr
    <3>2. CASE Coming = <<ACK, C>>
      BY <1>1, <3>2, ReadTwo DEF NoneOr
    <3> QED
      BY <1>5, <3>1, <3>2 DEF AckAndC
  <2>2. CASE SStops
    BY <1>3, <1>5, <2>2 DEF SStops
  <2>3. CASE /\ active' = "StatC" /\ out' = <<>> /\ done' = done + 1
             /\ fileName' = IF fileName = NumFiles THEN 0 ELSE fileName + 1
             /\ UNCHANGED <<lastBlk, ending>>
    <3>1. toRcv' = toRcv /\ Coming' \in NoneOr({C}) /\ sendExtraAck' = FALSE
      BY <2>1, <2>3, SenderQuiet
    <3>2. rDone \in 0..NumFiles /\ NumFiles \in Nat /\ done \in Nat
      BY FilesAssumption DEF DiskOK, IInv, TypeOK
    <3>3. fileName' = Due /\ done' <= rDone
      BY <1>5, <2>3, <3>2 DEF Due
    <3>4. StatDue'
      BY <1>1, <1>2, <2>3, <3>1, <3>3 DEF StatDue, Answered, EndOf
    <3>5. ClaimsOK'
      BY <1>2, <2>3, <3>3 DEF ClaimsOK
    <3> QED
      BY <3>1, <3>4, <3>5 DEF SGoesOn, Phase
  <2> QED
    BY <1>1, <1>4, <1>5, <2>1, <2>2, <2>3, SAtEoteot, AnswerBytes
<1>6. CASE active = "StatC" /\ fileName = Due /\ Coming \in NoneOr({C})
  <2>1. Head(toSnd) = C /\ Tail(toSnd) = <<>> /\ fromRcv = <<>>
    BY <1>1, <1>6, ReadOne
  <2>2. CASE SStops
    BY <1>3, <1>6, <2>2 DEF SStops
  <2>3. CASE /\ active' = "ACKNAKSTAT" /\ lastBlk' = StatOf(fileName) /\ out' = <<StatOf(fileName)>>
             /\ UNCHANGED <<fileName, done, ending>>
    <3>1. toRcv' \in Arriving(StatOf(Due)) /\ Coming' = <<>> /\ sendExtraAck' = FALSE
      BY <1>1, <1>6, <2>1, <2>3, Sendable, SenderSends
    <3>2. StatDue'
      BY <1>1, <1>2, <1>6, <2>3, <3>1 DEF StatDue, Exchange, EndOf
    <3>3. ClaimsOK'
      BY <1>2, <2>3 DEF ClaimsOK
    <3> QED
      BY <3>1, <3>2, <3>3 DEF SGoesOn, Phase
  <2> QED
    BY <1>1, <1>4, <1>6, <2>1, <2>2, <2>3, SAtStatC
<1>7. CASE active = "ACKNAKSTAT" /\ fileName = Due /\ lastBlk = StatOf(Due) /\ Coming \in NoneOr({C, NAK})
  <2>1. Head(toSnd) \in {C, NAK} /\ Tail(toSnd) = <<>> /\ fromRcv = <<>>
    BY <1>1, <1>7, ReadOne
  <2>2. CASE active' = "ACKNAKSTAT" /\ SResends
    <3>1. toRcv' \in Arriving(StatOf(Due)) /\ Coming' = <<>> /\ sendExtraAck' = FALSE
      BY <1>1, <1>7, <2>1, <2>2, Sendable, SenderSends DEF SResends
    <3>2. StatDue'
      BY <1>1, <1>2, <1>7, <2>2, <3>1 DEF StatDue, Exchange, EndOf, SResends
    <3>3. ClaimsOK'
      BY <1>2, <2>2 DEF ClaimsOK, SResends
    <3> QED
      BY <3>1, <3>2, <3>3 DEF SGoesOn, Phase
  <2> QED
    BY <1>1, <1>3, <1>4, <1>7, <2>1, <2>2, SAtStat, AnswerBytes
<1>8. toRcv = <<>> => ~(\E m : toRcv \in Arriving(m))
  BY DEF Arriving
<1> QED
  BY <1>1, <1>5, <1>6, <1>7, <1>8 DEF StatDue, Answered, Exchange

LEMMA SenderAtData ==
  ASSUME NothingMadeUp, IInv, LineTypeOK, DataDue, DiskOK, ClaimsOK, sendExtraAck = FALSE, SenderSER
  PROVE  SGoesOn
<1>1. /\ toSnd # <<>> /\ SER(Head(toSnd)) /\ Coming # <<>> /\ toRcv = <<>>
      /\ rActive = "FirstByteData" /\ R!running /\ PendingOK
  BY NothingComing DEF SenderSER, DataDue, Answered, Exchange, PendingOK, R!running, R!Final
<1>2. UNCHANGED <<rActive, rTimer, rFileD, rFileName, bytesRemaining, numLastGoodBlk,
                  anotherFile, rcvBlk, goodBlk, goodBlk1st, rDone, disk, fromRcv>> /\ OnDisk' = OnDisk
  BY ReceiverRests DEF SenderEvents, OnDisk
<1>3. /\ InFile(OnDisk) /\ fileName = rDone + 1 /\ fileName # 0
      /\ fileName' = fileName => InFile(OnDisk)'
      /\ rDone \in Nat /\ rDone + 1 \in Files /\ OnDisk \in Nat
  <2>1. /\ InFile(OnDisk) /\ fileName = rDone + 1 /\ rDone \in Nat
        /\ rDone + 1 \in Files /\ rDone + 1 \in 0..NumFiles /\ fileName # 0
    BY FilesAssumption DEF DataDue, InFile, DiskOK, Files
  <2>2. OnDisk \in Nat
    BY <2>1 DEF DiskOK, OnDisk
  <2>3. fileName' = fileName => InFile(OnDisk)'
    BY <1>2, <2>1 DEF InFile
  <2> QED
    BY <2>1, <2>2, <2>3
<1>4. ASSUME SStops, active # "ACKNAKSTAT" \/ fileName # 0 PROVE SGoesOn
  <2>1. ending' # "EndOfSession"
    BY <1>3, <1>4 DEF SStops
  <2> QED
    BY <1>1, <1>4, <2>1, SenderLeaves
<1>5. ASSUME SIgnores PROVE SGoesOn
  BY <1>5, SenderIgnores
<1>6. ASSUME UNCHANGED <<fileName, done, ending>>, sendExtraAck' = FALSE,
             rcvBlk \in {DataOf(rDone + 1, OnDisk), lastBlk'},
             \/ /\ active' = "ACKNAKSTAT" /\ OnDisk = 0 /\ lastBlk' = StatOf(rDone + 1)
                /\ toRcv' \in Arriving(lastBlk') /\ Coming' = <<>>
             \/ /\ active' = "ONE" /\ OnDisk = 0 /\ lastBlk' = StatOf(rDone + 1)
                /\ toRcv' = <<>> /\ Coming' \in NoneOr({C, NAK})
             \/ /\ active' = "ACKNAK" /\ lastBlk' = DataOf(rDone + 1, OnDisk + 1)
                /\ toRcv' \in Arriving(lastBlk') /\ Coming' = <<>>
             \/ /\ active' = "ACKNAK" /\ OnDisk > 0 /\ lastBlk' = DataOf(rDone + 1, OnDisk)
                /\ toRcv' \in Arriving(lastBlk') /\ Coming' = <<>>
             \/ /\ active' \in {"EOT1", "EOTEOT"} /\ EndOf(lastBlk', rDone + 1)
                /\ lastBlk' = DataOf(rDone + 1, OnDisk)
                /\ toRcv' \in Arriving(Byte(EOT)) /\ Coming' = <<>>
      PROVE  SGoesOn
  <2>1. DataDue'
    BY <1>1, <1>2, <1>3, <1>6 DEF DataDue, Answered, Exchange
  <2>2. ClaimsOK'
    BY <1>2, <1>6 DEF ClaimsOK
  <2> QED
    BY <1>6, <2>1, <2>2 DEF SGoesOn, Phase
<1>7. ASSUME Tail(toSnd) = <<>>, fromRcv = <<>>, NEW m, out' = <<m>>, m.type \in {SOH, EOT}
      PROVE  toRcv' \in Arriving(m) /\ Coming' = <<>> /\ sendExtraAck' = FALSE
  BY <1>1, <1>7, SenderSends
<1>8. rcvBlk \in {DataOf(rDone + 1, OnDisk), lastBlk}
  BY DEF DataDue
<1>9. CASE active = "ACKNAKSTAT" /\ OnDisk = 0 /\ lastBlk = StatOf(rDone + 1) /\ Coming \in AckOrMore
  <2>1. Head(toSnd) \in {ACK, NAK, C} /\ (Head(toSnd) = ACK => Tail(toSnd) \o fromRcv \in NoneOr({C, NAK}))
        /\ (Head(toSnd) # ACK => Tail(toSnd) = <<>> /\ fromRcv = <<>>)
    <3>1. CASE Coming \in NoneOr({ACK, NAK, C})
      <4>1. Head(toSnd) \in {ACK, NAK, C} /\ Tail(toSnd) = <<>> /\ fromRcv = <<>>
        BY <1>1, <3>1, ReadOne
      <4>2. <<>> \o <<>> = <<>>
        OBVIOUS
      <4> QED
        BY <4>1, <4>2 DEF NoneOr
    <3>2. CASE Coming = <<ACK, C>>
      BY <1>1, <3>2, ReadTwo DEF NoneOr
    <3> QED
      BY <1>9, <3>1, <3>2 DEF AckOrMore
  <2>2. CASE Head(toSnd) = ACK /\ active' = "ONE" /\ out' = <<>> /\ UNCHANGED <<fileName, lastBlk, done, ending>>
    <3>1. toRcv' = <<>> /\ Coming' \in NoneOr({C, NAK}) /\ sendExtraAck' = FALSE
      BY <1>1, <2>1, <2>2, SenderQuiet
    <3> QED
      BY <1>6, <1>8, <1>9, <2>2, <3>1
  <2>3. CASE Head(toSnd) # ACK /\ active' = "ACKNAKSTAT" /\ SResends
    <3>1. toRcv' \in Arriving(lastBlk) /\ Coming' = <<>> /\ sendExtraAck' = FALSE
      BY <1>7, <1>9, <2>1, <2>3, Sendable DEF SResends
    <3> QED
      BY <1>6, <1>8, <1>9, <2>3, <3>1 DEF SResends
  <2> QED
    BY <1>1, <1>3, <1>4, <1>5, <1>9, <2>1, <2>2, <2>3, SAtStat
<1>10. CASE active = "ONE" /\ OnDisk = 0 /\ lastBlk = StatOf(rDone + 1) /\ Coming \in NoneOr({C, NAK})
  <2>1. Head(toSnd) \in {C, NAK} /\ Tail(toSnd) = <<>> /\ fromRcv = <<>>
    BY <1>1, <1>10, ReadOne
  <2>2. lastBlk = DataOf(rDone + 1, OnDisk) /\ lastBlk.chunk = 0 /\ rcvBlk = DataOf(rDone + 1, OnDisk)
    BY <1>8, <1>10, Sendable DEF StatOf, Blk
  <2>3. CASE active' = "ACKNAKSTAT" /\ SResends
    <3>1. toRcv' \in Arriving(lastBlk) /\ Coming' = <<>> /\ sendExtraAck' = FALSE
      BY <1>7, <1>10, <2>1, <2>3, Sendable DEF SResends
    <3> QED
      BY <1>6, <1>8, <1>10, <2>3, <3>1 DEF SResends
  <2>4. CASE /\ active' = "ACKNAK" /\ lastBlk' = DataOf(fileName, lastBlk.chunk + 1) /\ out' = <<lastBlk'>>
             /\ UNCHANGED <<fileName, done, ending>>
    <3>1. lastBlk' = DataOf(rDone + 1, OnDisk + 1)
      BY <1>3, <1>10, <2>2, <2>4
    <3>2. toRcv' \in Arriving(lastBlk') /\ Coming' = <<>> /\ sendExtraAck' = FALSE
      BY <1>7, <2>1, <2>4, <3>1, Sendable
    <3> QED
      BY <1>6, <2>2, <2>4, <3>1, <3>2
  <2>5. CASE active' = "EOT1" /\ EndOf(lastBlk, fileName) /\ SSendsEot
    <3>1. toRcv' \in Arriving(Byte(EOT)) /\ Coming' = <<>> /\ sendExtraAck' = FALSE
      BY <1>7, <2>1, <2>5, Sendable DEF SSendsEot
    <3> QED
      BY <1>3, <1>6, <2>2, <2>5, <3>1 DEF SSendsEot
  <2> QED
    BY <1>1, <1>4, <1>5, <1>10, <2>1, <2>3, <2>4, <2>5, SAtOne
<1>11. CASE active = "ACKNAK" /\ lastBlk = DataOf(rDone + 1, OnDisk + 1) /\ Coming \in NoneOr({NAK})
  <2>1. Head(toSnd) = NAK /\ Tail(toSnd) = <<>> /\ fromRcv = <<>>
    BY <1>1, <1>11, ReadOne
  <2>2. CASE active' = "ACKNAK" /\ SResends
    <3>1. toRcv' \in Arriving(lastBlk) /\ Coming' = <<>> /\ sendExtraAck' = FALSE
      BY <1>7, <1>11, <2>1, <2>2, Sendable DEF SResends
    <3> QED
      BY <1>6, <1>8, <1>11, <2>2, <3>1 DEF SResends
  <2> QED
    BY <1>1, <1>4, <1>5, <1>11, <2>1, <2>2, SAtAcknak, AnswerBytes
<1>12. CASE active = "ACKNAK" /\ OnDisk > 0 /\ lastBlk = DataOf(rDone + 1, OnDisk) /\ Coming \in NoneOr({NAK, ACK})
  <2>1. Head(toSnd) \in {NAK, ACK} /\ Tail(toSnd) = <<>> /\ fromRcv = <<>>
    BY <1>1, <1>12, ReadOne
  <2>2. lastBlk.chunk = OnDisk /\ rcvBlk = DataOf(rDone + 1, OnDisk)
    BY <1>8, <1>12 DEF DataOf, Blk
  <2>3. CASE active' = "ACKNAK" /\ SResends
    <3>1. toRcv' \in Arriving(lastBlk) /\ Coming' = <<>> /\ sendExtraAck' = FALSE
      BY <1>7, <1>12, <2>1, <2>3, Sendable DEF SResends
    <3> QED
      BY <1>6, <1>8, <1>12, <2>3, <3>1 DEF SResends
  <2>4. CASE /\ active' = "ACKNAK" /\ lastBlk' = DataOf(fileName, lastBlk.chunk + 1) /\ out' = <<lastBlk'>>
             /\ UNCHANGED <<fileName, done, ending>>
    <3>1. lastBlk' = DataOf(rDone + 1, OnDisk + 1)
      BY <1>3, <2>2, <2>4
    <3>2. toRcv' \in Arriving(lastBlk') /\ Coming' = <<>> /\ sendExtraAck' = FALSE
      BY <1>7, <2>1, <2>4, <3>1, Sendable
    <3> QED
      BY <1>6, <2>2, <2>4, <3>1, <3>2
  <2>5. CASE active' = "EOT1" /\ EndOf(lastBlk, fileName) /\ SSendsEot
    <3>1. toRcv' \in Arriving(Byte(EOT)) /\ Coming' = <<>> /\ sendExtraAck' = FALSE
      BY <1>7, <2>1, <2>5, Sendable DEF SSendsEot
    <3> QED
      BY <1>3, <1>6, <1>12, <2>2, <2>5, <3>1 DEF SSendsEot
  <2> QED
    BY <1>1, <1>4, <1>5, <1>12, <2>1, <2>3, <2>4, <2>5, SAtAcknak
<1>13. CASE /\ active \in {"EOT1", "EOTEOT"} /\ EndOf(lastBlk, rDone + 1)
            /\ lastBlk = DataOf(rDone + 1, OnDisk) /\ Coming \in NoneOr({NAK})
  <2>1. Head(toSnd) = NAK /\ Tail(toSnd) = <<>> /\ fromRcv = <<>>
    BY <1>1, <1>13, ReadOne
  <2>2. CASE active' = "EOTEOT" /\ SSendsEot
    <3>1. toRcv' \in Arriving(Byte(EOT)) /\ Coming' = <<>> /\ sendExtraAck' = FALSE
      BY <1>7, <2>1, <2>2, Sendable DEF SSendsEot
    <3> QED
      BY <1>6, <1>8, <1>13, <2>2, <3>1 DEF SSendsEot
  <2> QED
    BY <1>1, <1>4, <1>5, <1>13, <2>1, <2>2, SAtEot1, SAtEoteot, AnswerBytes
<1> QED
  BY <1>1, <1>9, <1>10, <1>11, <1>12, <1>13 DEF DataDue, Answered, Exchange

LEMMA SenderAtEnd ==
  ASSUME NothingMadeUp, IInv, LineTypeOK, EndDue, DiskOK, ClaimsOK, sendExtraAck = FALSE, SenderSER
  PROVE  SGoesOn
<1>1. /\ toSnd # <<>> /\ SER(Head(toSnd)) /\ Coming # <<>> /\ toRcv = <<>>
      /\ rActive = "EOT" /\ R!running /\ PendingOK /\ active \in {"EOT1", "EOTEOT"}
      /\ Coming \in NoneOr({NAK})
  BY NothingComing DEF SenderSER, EndDue, Answered, Exchange, PendingOK, R!running, R!Final
<1>2. UNCHANGED <<rActive, rTimer, rFileD, rFileName, bytesRemaining, numLastGoodBlk,
                  anotherFile, rcvBlk, goodBlk, goodBlk1st, rDone, disk, fromRcv>> /\ OnDisk' = OnDisk
  BY ReceiverRests DEF SenderEvents, OnDisk
<1>3. Head(toSnd) = NAK /\ Tail(toSnd) = <<>> /\ fromRcv = <<>>
  BY <1>1, ReadOne
<1>4. CASE SStops
  <2>1. ending' # "EndOfSession"
    BY <1>1, <1>4 DEF SStops
  <2> QED
    BY <1>1, <1>4, <2>1, SenderLeaves
<1>5. CASE active' = "EOTEOT" /\ SSendsEot
  <2>1. toRcv' \in Arriving(Byte(EOT)) /\ Coming' = <<>> /\ sendExtraAck' = FALSE
    BY <1>1, <1>3, <1>5, Sendable, SenderSends DEF SSendsEot
  <2>2. InFile(OnDisk)'
    BY <1>2, <1>5 DEF EndDue, InFile, SSendsEot
  <2>3. EndDue'
    BY <1>2, <1>5, <2>1, <2>2 DEF EndDue, EndOf, Exchange, SSendsEot
  <2>4. ClaimsOK'
    BY <1>2, <1>5 DEF ClaimsOK, SSendsEot
  <2> QED
    BY <2>1, <2>3, <2>4 DEF SGoesOn, Phase
<1> QED
  BY <1>1, <1>3, <1>4, <1>5, SAtEot1, SAtEoteot, SenderIgnores, AnswerBytes

LEMMA SenderAllThere ==
  ASSUME NothingMadeUp, IInv, LineTypeOK, AllThere, DiskOK, ClaimsOK, sendExtraAck = FALSE, SenderSER
  PROVE  SGoesOn
<1>1. /\ toSnd # <<>> /\ SER(Head(toSnd)) /\ toRcv = <<>> /\ active = "ACKNAKSTAT" /\ fileName = 0
      /\ R!running /\ PendingOK /\ Coming \in NoneOr({ACK}) /\ rDone = NumFiles
  BY DEF SenderSER, AllThere, Answered, PendingOK, R!running, R!Final
<1>2. Head(toSnd) = ACK
  BY <1>1, ReadOne
<1>3. SStops \/ SIgnores
  BY <1>1, <1>2, SAtStat
<1> QED
  BY <1>1, <1>3, SenderLeaves, SenderIgnores

(* A block judged good that is still to be written is the file's next one. *)
LEMMA JudgedPending ==
  ASSUME IInv, Judged, DiskOK
  PROVE  PendingOK
<1> SUFFICES ASSUME goodBlk1st PROVE PendingOK
  BY DEF PendingOK
<1>1. /\ active = "ACKNAK" /\ lastBlk = DataOf(rDone + 1, OnDisk + 1) /\ rcvBlk = lastBlk
      /\ rDone < NumFiles /\ rFileName = rDone + 1 /\ fileName = rDone + 1
  BY DEF Judged, InFile
<1>2. rDone + 1 \in Files /\ rDone + 1 \in 0..NumFiles /\ fileName # 0
  BY <1>1, FilesAssumption DEF DiskOK, Files
<1>3. OnDisk \in Nat /\ Chunks[rDone + 1] \in Nat
  BY <1>2, FilesAssumption DEF DiskOK, OnDisk
<1>4. OnDisk + 1 <= Chunks[rDone + 1]
  <2>1. lastBlk.chunk = OnDisk + 1
    BY <1>1 DEF DataOf, Blk
  <2> QED
    BY <1>1, <1>2, <2>1, OutBlock
<1> QED
  BY <1>1, <1>3, <1>4 DEF PendingOK

LEMMA SenderTimesOut ==
  ASSUME NothingMadeUp, IInv, LineTypeOK, DiskOK, ClaimsOK, sendExtraAck = FALSE, SenderTM,
         StatDue \/ DataDue \/ Judged \/ EndDue \/ AllThere
  PROVE  SGoesOn
<1>1. TM /\ toRcv = <<>>
  BY DEF SenderTM, Quiet
<1>2. R!running /\ PendingOK /\ active # "CAN"
  <2>1. R!running /\ active # "CAN"
    BY DEF StatDue, DataDue, Judged, EndDue, AllThere, R!running, R!Final
  <2>2. PendingOK
    BY JudgedPending DEF StatDue, DataDue, EndDue, AllThere, PendingOK
  <2> QED
    BY <2>1, <2>2
<1>3. TopLevel_TM
  BY <1>1, <1>2 DEF TM, CAN_TM
<1>4. SStops /\ ending' # "EndOfSession"
  BY <1>3 DEF TopLevel_TM, Finish, cans, Final, SStops
<1> QED
  BY <1>1, <1>2, <1>4, SenderLeaves

LEMMA SKeyboard ==
  ASSUME KB_C
  PROVE  \/ active = "StatC" /\ active' = "Final" /\ done' = 0 /\ ending' # "EndOfSession"
         \/ SUnmoved
<1>1. CASE StatC_KB_C
  BY <1>1 DEF StatC_KB_C, Final
<1>2. CASE NON_CAN_KB_C \/ CAN_KB_C
  BY <1>2 DEF NON_CAN_KB_C, CAN_KB_C, Stays, chart, files, blocks, result, SUnmoved
<1> QED
  BY <1>1, <1>2 DEF KB_C

LEMMA LineSame ==
  ASSUME UNCHANGED <<toRcv, toSnd, fromRcv>>
  PROVE  Shrinks
BY Zenon DEF Shrinks, Coming

LEMMA SenderCancelled ==
  ASSUME NothingMadeUp, IInv, LineTypeOK, DiskOK, ClaimsOK, sendExtraAck = FALSE, SenderKB_C,
         StatDue \/ DataDue \/ Judged \/ EndDue \/ AllThere
  PROVE  SGoesOn
<1>1. KB_C /\ UNCHANGED <<toRcv, toSnd, fromRcv, sendExtraAck>>
  BY DEF SenderKB_C, line
<1>2. UNCHANGED <<rActive, rTimer, rFileD, rFileName, bytesRemaining, numLastGoodBlk,
                  anotherFile, rcvBlk, goodBlk, goodBlk1st, rDone, disk, fromRcv>>
  BY ReceiverRests DEF SenderEvents
<1>3. CASE SUnmoved
  <2>1. UNCHANGED peers /\ UNCHANGED ending
    BY <1>2, <1>3 DEF peers, SUnmoved
  <2>2. Phase'
    BY <1>1, <2>1, LineSame, PhaseShrinks DEF Phase
  <2>3. ClaimsOK'
    BY <2>1 DEF ClaimsOK, peers
  <2> QED
    BY <1>1, <2>2, <2>3 DEF SGoesOn
<1>4. CASE active = "StatC" /\ active' = "Final" /\ done' = 0 /\ ending' # "EndOfSession"
  <2>1. rActive = "FirstByteStat" /\ toRcv = <<>>
    BY <1>4 DEF StatDue, DataDue, Judged, EndDue, AllThere, Answered, Exchange
  <2>2. <<>> \in Seq({Noise(CAN), Noise(GLITCH)})
    OBVIOUS
  <2>3. SenderGone'
    BY <1>1, <1>2, <1>4, <2>1, <2>2 DEF SenderGone, running, Final, R!running, R!Final
  <2>4. ClaimsOK'
    BY <1>2, <1>4 DEF ClaimsOK, DiskOK
  <2> QED
    BY <1>1, <2>3, <2>4 DEF SGoesOn, Phase
<1> QED
  BY <1>1, <1>3, <1>4, SKeyboard

(* The receiver has stopped: the sender reads nothing but its CANs.        *)
LEMMA SenderAlone ==
  ASSUME IInv, LineTypeOK, ReceiverGone, DiskOK, ClaimsOK, sendExtraAck = FALSE, SenderEvents
  PROVE  SGoesOn
<1>1. running /\ toSnd \in Seq({CAN}) /\ fromRcv \in Seq({CAN})
  BY SenderIdle DEF ReceiverGone
<1>2. UNCHANGED <<rActive, rDone, fromRcv>>
  BY ReceiverRests
<1>3. ASSUME NEW unread \in Seq({CAN}), MsgFromTerm2(unread) PROVE toSnd' \in Seq({CAN}) /\ sendExtraAck' = FALSE
  <2>1. <<>> \in Seq({CAN})
    OBVIOUS
  <2>2. sendExtraAck' = FALSE /\ toSnd' \in {unread, <<>>}
    BY <1>3, Zenon DEF MsgFromTerm2
  <2> QED
    BY <1>3, <2>1, <2>2
<1>4. CASE SenderSER
  <2>1. Head(toSnd) = CAN /\ Tail(toSnd) \in Seq({CAN})
    BY <1>1, <1>4 DEF SenderSER
  <2>2. SER(CAN) /\ toSnd' \in Seq({CAN}) /\ sendExtraAck' = FALSE
    BY <1>3, <1>4, <2>1 DEF SenderSER
  <2>3. FirstCan(CAN) \/ CAN_Cancelled(CAN) \/ Ignored(CAN)
    BY <2>2 DEF SER, Block, Resend, EndOfFile, Cancel, ONE_FirstBlock, StatC_SendStat, ACKNAK_NextBlock, ACKNAK_Resend,
       ACKNAKSTAT_Resend, ONE_Resend, ONE_EmptyFile, ACKNAK_LastAcked, EOT1_Resend, EOT1_Acked, EOT1_Naked, EOTEOT_Resend,
       EOTEOT_Done, CAN_Resume, ExcessiveNAKs, CancelAtAnswer, StatC_OpenError,
       ACKNAKSTAT_Accepted, ACKNAKSTAT_EndOfSession, ACK, NAK, C, CAN
  <2>4. done' = done /\ (ending' = ending \/ ending' = "RcvCancelled")
    BY <2>3 DEF FirstCan, CAN_Cancelled, Ignored, Finish, result
  <2>5. ClaimsOK' /\ ReceiverGone'
    BY <1>1, <1>2, <2>2, <2>4 DEF ClaimsOK, ReceiverGone, R!running
  <2> QED
    BY <2>2, <2>5 DEF SGoesOn, Phase
<1>5. CASE SenderTM
  <2>1. TM /\ toSnd' \in Seq({CAN}) /\ sendExtraAck' = FALSE
    BY <1>1, <1>3, <1>5 DEF SenderTM
  <2>2. done' = done /\ (ending' = ending \/ ending' \in {"KbCancelled", "Timeout"})
    BY <2>1 DEF TM, CAN_TM, TopLevel_TM, Finish, result
  <2>3. ClaimsOK' /\ ReceiverGone'
    BY <1>1, <1>2, <2>1, <2>2 DEF ClaimsOK, ReceiverGone, R!running
  <2> QED
    BY <2>1, <2>3 DEF SGoesOn, Phase
<1>6. CASE SenderKB_C
  <2>1. KB_C /\ toSnd' \in Seq({CAN}) /\ sendExtraAck' = FALSE
    BY <1>1, <1>6 DEF SenderKB_C, line
  <2>2. done' \in {done, 0} /\ (ending' = ending \/ ending' # "EndOfSession")
    BY <2>1, SKeyboard DEF SUnmoved
  <2>3. ClaimsOK' /\ ReceiverGone'
    BY <1>1, <1>2, <2>1, <2>2 DEF ClaimsOK, ReceiverGone, R!running, DiskOK
  <2> QED
    BY <2>1, <2>3 DEF SGoesOn, Phase
<1> QED
  BY <1>4, <1>5, <1>6 DEF SenderEvents

LEMMA SenderGoesOn ==
  ASSUME NothingMadeUp, IInv, LineTypeOK, InStep, SenderEvents
  PROVE  SGoesOn
<1>1. ASSUME SenderGone PROVE FALSE
  BY <1>1, SenderIdle DEF SenderGone
<1>2. ~(Judged /\ SenderSER)
  BY NothingComing DEF Judged, SenderSER
<1> QED
  BY <1>1, <1>2, SenderAtStat, SenderAtData, SenderAtEnd, SenderAllThere, SenderTimesOut, SenderCancelled, SenderAlone,
     Zenon DEF InStep, Phase, SenderEvents

-----------------------------------------------------------------------------
(***************************************************************************)
(* The medium's own steps, and bytes nobody reads any more.                *)
(***************************************************************************)
MediumEvents == MsgFromTerm1 \/ ExtraAckAtLastByte \/ Unread \/ UNCHANGED sessionVars

LEMMA PeersRest ==
  ASSUME UNCHANGED <<senderVars, receiverVars>>
  PROVE  UNCHANGED <<peers, ending, rHist>>
BY DEF senderVars, receiverVars, vars, chart, files, blocks, result, peers

LEMMA MediumGoesOn ==
  ASSUME NothingMadeUp, LineTypeOK, InStep, MediumEvents
  PROVE  SGoesOn /\ UNCHANGED <<rHist, rDone, disk>>
<1>1. UNCHANGED <<senderVars, receiverVars>> /\ sendExtraAck' = FALSE
  BY Forwarded DEF InStep, MediumEvents, ExtraAckAtLastByte, Unread, sessionVars, line
<1>2. UNCHANGED peers /\ UNCHANGED <<rHist, rDone, disk, done, ending, rActive, active>>
  BY <1>1, PeersRest DEF peers
<1>3. ClaimsOK'
  BY <1>2 DEF InStep, ClaimsOK
<1>4. ASSUME Shrinks, StatDue \/ DataDue \/ Judged \/ EndDue \/ AllThere PROVE Phase'
  BY <1>2, <1>4, PhaseShrinks DEF Phase
<1>5. ASSUME SenderGone, UNCHANGED toRcv PROVE Phase'
  <2>1. OnDisk' = OnDisk
    BY <1>2 DEF OnDisk
  <2> QED
    BY <1>2, <1>5, <2>1 DEF Phase, SenderGone, running, R!running, peers
<1>6. ASSUME ReceiverGone, running => toSnd' \in Seq({CAN}) /\ fromRcv' \in Seq({CAN}) PROVE Phase'
  BY <1>2, <1>6 DEF Phase, ReceiverGone, running, R!running
<1>7. CASE MsgFromTerm1
  <2>1. /\ Coming # <<>> /\ UNCHANGED toRcv
        /\ \A S : Coming \in NoneOr(S) => Coming' \in NoneOr(S)
        /\ Coming \in AckAndC => Coming' \in AckAndC
        /\ Coming \in AckOrMore => Coming' \in AckOrMore
        /\ toSnd \in Seq({CAN}) /\ fromRcv \in Seq({CAN}) => toSnd' \in Seq({CAN}) /\ fromRcv' \in Seq({CAN})
    BY <1>7, Forwarded DEF InStep
  <2>2. Shrinks
    BY <2>1, Zenon DEF Shrinks
  <2>3. Phase'
    BY <1>4, <1>5, <1>6, <2>1, <2>2 DEF InStep, Phase, ReceiverGone
  <2> QED
    BY <1>1, <1>2, <1>3, <2>3 DEF SGoesOn
<1>8. CASE ExtraAckAtLastByte
  BY <1>8 DEF ExtraAckAtLastByte, InStep
<1>9. CASE Unread
  <2>1. \/ ~running /\ UNCHANGED toRcv
        \/ ~R!running /\ UNCHANGED <<toSnd, fromRcv>>
    BY <1>9 DEF Unread
  <2>2. SenderGone \/ ReceiverGone
    BY <2>1 DEF InStep, Phase, StatDue, DataDue, Judged, EndDue, AllThere, running, R!running, Final, R!Final
  <2>3. Phase'
    BY <1>5, <1>6, <2>1, <2>2 DEF SenderGone, ReceiverGone
  <2> QED
    BY <1>1, <1>2, <1>3, <2>3 DEF SGoesOn
<1>10. CASE UNCHANGED sessionVars
  <2>1. UNCHANGED <<toRcv, toSnd, fromRcv>>
    BY <1>10 DEF sessionVars, line
  <2>2. Phase'
    BY <1>4, <1>5, <1>6, <2>1, LineSame DEF InStep, Phase, ReceiverGone
  <2> QED
    BY <1>1, <1>2, <1>3, <2>2 DEF SGoesOn
<1> QED
  BY <1>7, <1>8, <1>9, <1>10 DEF MediumEvents

(***************************************************************************)
(* The invariant of a session behind such a medium.                        *)
(***************************************************************************)
LEMMA SessionGoesOn ==
  ASSUME NothingMadeUp, IInv, LineTypeOK, InStep, [SessionNext]_sessionVars
  PROVE  InStep' /\ DiskStep
<1>1. CASE ReceiverSteps
  <2>1. GoesOn /\ UNCHANGED <<done, ending, sendExtraAck>>
    BY <1>1, ReceiverGoesOn, SenderRests
  <2>2. DiskOK' /\ rDone <= rDone' /\ (rDone = NumFiles => rDone' = NumFiles)
    BY <2>1, DiskKept DEF GoesOn, InStep
  <2>3. done \in Nat /\ rDone \in Nat /\ rDone' \in Nat
    BY <2>2, FilesAssumption DEF IInv, TypeOK, InStep, DiskOK
  <2>4. ClaimsOK'
    BY <2>1, <2>2, <2>3 DEF InStep, ClaimsOK
  <2> QED
    BY <2>1, <2>2, <2>4 DEF GoesOn, InStep
<1>2. CASE SenderEvents \/ MediumEvents
  <2>1. SGoesOn /\ UNCHANGED <<rHist, rDone, disk>>
    BY <1>2, SenderGoesOn, ReceiverRests, MediumGoesOn
  <2>2. RHistOK' /\ DiskStep
    BY <2>1, RHistSame DEF InStep, DiskStep
  <2>3. DiskOK'
    BY <2>2, DiskKept DEF InStep
  <2> QED
    BY <2>1, <2>2, <2>3 DEF SGoesOn, InStep
<1> QED
  BY <1>1, <1>2 DEF SessionNext, ReceiverSteps, SenderEvents, MediumEvents

LEMMA RStartState == R!SM!Enter(R!SM!NoHistory, "TopLevel") = "FirstByteStat"
BY DEF R!SM!Enter, R!SM!Descend, R!SM!NoHistory, R!NON_CAN, R!DataStates, R!Super, R!NoState

LEMMA SessionStarts ==
  ASSUME SessionInit
  PROVE  InStep
<1>1. /\ active = "StatC" /\ done = 0 /\ ending = "none" /\ fileNameIndex = IF NumFiles > 0 THEN 1 ELSE 0
      /\ fileName = fileNameIndex
  BY StartState DEF SessionInit, Init
<1>2. /\ rActive = "FirstByteStat" /\ rHist = R!SM!NoHistory /\ rTimer = "SOH" /\ rFileD = Closed
      /\ numLastGoodBlk = NumMod - 1 /\ rcvBlk = NoBlk /\ rDone = 0
      /\ disk = [f \in 0..NumFiles |-> <<>>]
  BY RStartState DEF SessionInit, R!Init, R!Closed, Closed, R!NoBlk, R!Blk, R!SOH, NoBlk, Blk, SOH
<1>3. toRcv = <<>> /\ toSnd = <<>> /\ fromRcv = <<C>> /\ sendExtraAck = FALSE
  BY DEF SessionInit
<1>4. Coming = <<C>>
  <2>1. <<>> \o <<C>> = <<C>>
    OBVIOUS
  <2> QED
    BY <1>3, <2>1 DEF Coming
<1>5. NumFiles \in Nat /\ fileName = Due
  BY <1>1, <1>2, FilesAssumption DEF Due
<1>6. Answered(NoneOr({C}))
  BY <1>3, <1>4 DEF Answered, NoneOr
<1>7. StatDue
  BY <1>1, <1>2, <1>5, <1>6 DEF StatDue
<1>8. RHistOK
  BY <1>2 DEF RHistOK, R!SM!NoHistory, R!NON_CAN, R!Super, R!NoState
<1>9. DiskOK
  <2>1. <<>> \in Seq(Messages)
    OBVIOUS
  <2> QED
    BY <1>2, <1>5, <2>1 DEF DiskOK, Files
<1>10. ClaimsOK
  BY <1>1, <1>2 DEF ClaimsOK
<1> QED
  BY <1>3, <1>7, <1>8, <1>9, <1>10 DEF InStep, Phase

\* However many blocks are damaged behind their SOH, EOTs garbled and answers
\* lost (Medium.cpp), the two peers stay in step: wherever the receiver is, the
\* sender is at the same file and at that block or the one next to it.
THEOREM PeersInStep == NothingMadeUp /\ Session => []InStep
<1>1. NothingMadeUp => NothingMadeUp'
  BY DEF NothingMadeUp
<1>2. NothingMadeUp /\ IInv /\ LineTypeOK /\ InStep /\ [SessionNext]_sessionVars => InStep'
  BY SessionGoesOn
<1> QED
  BY <1>1, <1>2, SessionStarts, LineInvariant, PTL DEF Session

\* "Done, " and "EndOfSession" of the sender are true of the receiver's disk.
THEOREM ClaimsTrue == NothingMadeUp /\ Session => []SenderClaimsTrue
<1>1. IInv /\ InStep => SenderClaimsTrue
  <2> SUFFICES ASSUME IInv, InStep PROVE SenderClaimsTrue
    OBVIOUS
  <2>1. done \in Nat /\ rDone \in Nat /\ rDone <= NumFiles /\ done <= rDone
    BY FilesAssumption DEF IInv, TypeOK, InStep, DiskOK, ClaimsOK
  <2>2. \A f \in 1..done : f \in Files /\ f <= rDone
    BY <2>1, FilesAssumption DEF Files
  <2>3. \A f \in Files : rDone = NumFiles => f <= rDone
    BY <2>1, FilesAssumption DEF Files
  <2> QED
    BY <2>2, <2>3 DEF InStep, DiskOK, ClaimsOK, SenderClaimsTrue
<1> QED
  BY <1>1, PeersInStep, LineInvariant, PTL

(***************************************************************************)
(* The refinement: what the receiver's disk holds, as FileTransfer sees it. *)
(***************************************************************************)
ChunksIn(s) == [i \in DOMAIN s |-> [file |-> s[i].file, chunk |-> s[i].chunk]]
Received == [f \in Files |-> ChunksIn(disk[f])]

LEMMA ChunksAppended ==
  ASSUME NEW s \in Seq(Messages), NEW b \in Messages
  PROVE  ChunksIn(Append(s, b)) = Append(ChunksIn(s), FT!ChunkOf(b.file, b.chunk)) /\ Len(ChunksIn(s)) = Len(s)
<1> DEFINE Pair == [file : Nat, chunk : Nat]
<1>1. \A m \in Messages : [file |-> m.file, chunk |-> m.chunk] \in Pair
  BY DEF Messages
<1>2. ASSUME NEW t \in Seq(Messages)
      PROVE  /\ ChunksIn(t) \in Seq(Pair) /\ Len(ChunksIn(t)) = Len(t)
             /\ \A i \in 1..Len(t) : ChunksIn(t)[i] = [file |-> t[i].file, chunk |-> t[i].chunk]
  <2>1. Len(t) \in Nat /\ DOMAIN t = 1..Len(t) /\ \A i \in 1..Len(t) : t[i] \in Messages
    OBVIOUS
  <2>2. ChunksIn(t) = [i \in 1..Len(t) |-> [file |-> t[i].file, chunk |-> t[i].chunk]]
    BY <2>1 DEF ChunksIn
  <2>3. \A i \in 1..Len(t) : [file |-> t[i].file, chunk |-> t[i].chunk] \in Pair
    BY <1>1, <2>1
  <2> HIDE DEF Pair
  <2> QED
    BY <2>1, <2>2, <2>3
<1>3. Append(s, b) \in Seq(Messages) /\ Len(Append(s, b)) = Len(s) + 1 /\ Len(s) \in Nat
      /\ Append(s, b)[Len(s) + 1] = b /\ \A i \in 1..Len(s) : Append(s, b)[i] = s[i]
  OBVIOUS
<1>4. FT!ChunkOf(b.file, b.chunk) = [file |-> b.file, chunk |-> b.chunk] /\ FT!ChunkOf(b.file, b.chunk) \in Pair
  BY <1>1 DEF FT!ChunkOf
<1> HIDE DEF Pair
<1> DEFINE c == ChunksIn(s)
           e == FT!ChunkOf(b.file, b.chunk)
           n == Len(s)
           x == ChunksIn(Append(s, b))
<1>5. /\ c \in Seq(Pair) /\ e \in Pair /\ n \in Nat /\ Len(c) = n
      /\ x \in Seq(Pair) /\ Len(x) = n + 1
  BY <1>2, <1>3, <1>4
<1>6. x[n + 1] = e
  <2>1. n + 1 \in 1..Len(Append(s, b))
    BY <1>3
  <2>2. x[n + 1] = [file |-> Append(s, b)[n + 1].file, chunk |-> Append(s, b)[n + 1].chunk]
    BY <1>2, <1>3, <2>1
  <2> QED
    BY <1>3, <1>4, <2>2
<1>7. ASSUME NEW i \in 1..n PROVE x[i] = c[i]
  <2>1. i \in 1..Len(Append(s, b)) /\ i \in 1..Len(s)
    BY <1>3
  <2>2. x[i] = [file |-> Append(s, b)[i].file, chunk |-> Append(s, b)[i].chunk]
    BY <1>2, <1>3, <2>1
  <2>3. c[i] = [file |-> s[i].file, chunk |-> s[i].chunk]
    BY <1>2, <2>1
  <2>4. Append(s, b)[i] = s[i]
    BY <1>3, <2>1
  <2> QED
    BY <2>2, <2>3, <2>4
<1> HIDE DEF c, e, n, x
<1>8. x = Append(c, e)
  <2>1. /\ Append(c, e) \in Seq(Pair) /\ Len(Append(c, e)) = n + 1
        /\ Append(c, e)[n + 1] = e /\ \A i \in 1..n : Append(c, e)[i] = c[i]
    BY <1>5
  <2>2. \A i \in 1..(n + 1) : x[i] = Append(c, e)[i]
    BY <1>5, <1>6, <1>7, <2>1
  <2> QED
    BY <1>5, <2>1, <2>2
<1> QED
  BY <1>5, <1>8 DEF c, e, n, x

LEMMA PromiseStarts ==
  ASSUME SessionInit
  PROVE  FT!Init
<1>1. rDone = 0 /\ disk = [f \in 0..NumFiles |-> <<>>]
  BY DEF SessionInit, R!Init
<1>2. \A f \in FT!Files : disk[f] = <<>>
  BY <1>1, FilesAssumption DEF FT!Files
<1>3. ChunksIn(<<>>) = <<>>
  BY DEF ChunksIn
<1>4. \A f \in FT!Files : ChunksIn(disk[f]) = <<>>
  BY <1>2, <1>3
<1> QED
  BY <1>1, <1>4 DEF FT!Init, FT!Files, Files, ChunksIn

(* A chunk written is FileTransfer's Chunk, a file counted its Complete.   *)
LEMMA PromiseGoesOn ==
  ASSUME DiskOK, DiskStep
  PROVE  [FT!Next]_<<Received, rDone>>
<1>1. rDone \in Nat /\ NumFiles \in Nat /\ FT!Files = Files
  BY FilesAssumption DEF DiskOK, FT!Files, Files
<1>2. CASE UNCHANGED <<rDone, disk>>
  BY <1>2 DEF Received
<1>3. CASE Stored
  <2> DEFINE g == rDone + 1
  <2>1. g \in Files /\ g \in 0..NumFiles /\ disk[g] \in Seq(Messages) /\ OnDisk \in Nat
    BY <1>1, <1>3, StoredLength DEF Stored, DiskOK, Files
  <2>2. rcvBlk \in Messages /\ rcvBlk.file = g /\ rcvBlk.chunk = OnDisk + 1
    <3>1. (OnDisk + 1) % NumMod \in 0..(NumMod - 1)
      BY <2>1, NumModAssumption
    <3> QED
      BY <1>3, <2>1, <3>1, BlkIsMessage DEF Stored, DataOf, Blk
  <2>3. /\ ChunksIn(Append(disk[g], rcvBlk)) = Append(ChunksIn(disk[g]), FT!ChunkOf(g, OnDisk + 1))
        /\ Len(ChunksIn(disk[g])) = OnDisk
    BY <2>1, <2>2, ChunksAppended DEF OnDisk
  <2>4. /\ Received[g] = ChunksIn(disk[g])
        /\ Received'[g] = Append(Received[g], FT!ChunkOf(g, OnDisk + 1))
    BY <1>3, <2>1, <2>3 DEF Received, Stored, DiskOK
  <2>5. \A f \in Files : f # g => Received'[f] = Received[f]
    BY <1>3, StoredLength DEF Received
  <2>6. Received' = [Received EXCEPT ![g] = Append(@, FT!ChunkOf(g, Len(Received[g]) + 1))]
    BY <2>1, <2>3, <2>4, <2>5 DEF Received
  <2>7. Len(Received[g]) + 1 <= Chunks[g]
    BY <1>3, <1>1, <2>1, <2>3, <2>4, FilesAssumption DEF Stored
  <2> QED
    BY <1>3, <2>6, <2>7 DEF FT!Next, FT!Chunk, Stored, Received, ChunksIn
<1>4. CASE Counted
  <2>1. rDone + 1 \in Files
    BY <1>1, <1>4 DEF Counted, Files
  <2>2. disk[rDone + 1] \in Seq(Messages)
    BY <1>1, <2>1 DEF DiskOK, Files
  <2>3. Len(Received[rDone + 1]) = OnDisk
    BY <2>1, <2>2 DEF Received, ChunksIn, OnDisk
  <2>4. UNCHANGED Received
    BY <1>4 DEF Counted, Received
  <2> QED
    BY <1>4, <2>3, <2>4 DEF FT!Next, FT!Complete, Counted, Received, ChunksIn
<1> QED
  BY <1>2, <1>3, <1>4 DEF DiskStep

\* A session keeps the promise of FileTransfer, for any number of files and
\* chunks, of damaged blocks and of lost bytes: what the receiver writes are
\* the chunks of the file, each once and in order, and it counts a file as
\* received only when all of them are there.  (When one answer becomes a NAK
\* on the line, or block 24 loses its SOH, the code breaks it.)
THEOREM PromiseKept == NothingMadeUp /\ Session => Promise
<1>1. NothingMadeUp => NothingMadeUp'
  BY DEF NothingMadeUp
<1>2. NothingMadeUp /\ IInv /\ LineTypeOK /\ InStep /\ [SessionNext]_sessionVars
        => [FT!Next]_<<Received, rDone>>
  BY SessionGoesOn, PromiseGoesOn DEF InStep
<1>3. [FT!Next]_<<Received, rDone>>
        => [FT!Next]_<<[f \in Files |-> [i \in DOMAIN disk[f] |->
                          [file |-> disk[f][i].file, chunk |-> disk[f][i].chunk]]], rDone>>
  BY DEF Received, ChunksIn
<1> QED
  BY <1>1, <1>2, <1>3, PromiseStarts, PeersInStep, LineInvariant, PTL DEF Session, Promise, FT!Spec

-----------------------------------------------------------------------------
(***************************************************************************)
(* What ReceiverY assumes of its environment.                              *)
(***************************************************************************)
AsAssumed(m) ==
  IF IsBlk(m) THEN m \in R!SentBlocks /\ R!Arrives(m) ELSE R!ByteArrives(m.type)

LEMMA NoiseArrives ==
  AsAssumed(Byte(GLITCH)) /\ AsAssumed(Byte(CAN))
BY DEF AsAssumed, IsBlk, Byte, GLITCH, CAN, SOH, R!ByteArrives, R!EOT

LEMMA FirstArriving ==
  ASSUME NEW m, toRcv \in Arriving(m), AsAssumed(m)
  PROVE  AsAssumed(Head(toRcv).msg)
<1>1. Head(toRcv).msg \in {m, Byte(GLITCH)}
  BY DEF Arriving, Item, Noise
<1> QED
  BY <1>1, NoiseArrives

LEMMA DataIsSent ==
  ASSUME NEW g \in Files, NEW k \in 0..Chunks[g]
  PROVE  DataOf(g, k) \in R!SentBlocks
BY DEF R!SentBlocks, R!Blk, Blk, R!SOH, SOH, R!Files, Files, DataOf

LEMMA StatIsSent ==
  ASSUME DiskOK
  PROVE  StatOf(Due) \in R!SentBlocks
<1>1. rDone \in 0..NumFiles /\ NumFiles \in Nat
  BY FilesAssumption DEF DiskOK
<1>2. CASE Due = 0
  BY <1>2 DEF R!SentBlocks, R!Blk, Blk, R!SOH, SOH, StatOf
<1>3. CASE Due # 0
  <2>1. Due \in Files /\ Chunks[Due] \in Nat
    BY <1>1, <1>3, FilesAssumption DEF Due, Files
  <2>2. 0 \in 0..Chunks[Due]
    BY <2>1
  <2> QED
    BY <2>1, <2>2, DataIsSent, Sendable
<1> QED
  BY <1>2, <1>3

LEMMA EndFollowed ==
  ASSUME DiskOK, EndOf(rcvBlk, rDone)
  PROVE  R!Follows(rcvBlk, StatOf(Due))
BY FilesAssumption DEF DiskOK, EndOf, LastOfFile, R!Follows, R!LastOfFile, StatOf, Blk, Due, Files, R!Files

LEMMA StatArrives ==
  ASSUME DiskOK, rcvBlk = StatOf(Due) \/ (rcvBlk = NoBlk /\ rDone = 0) \/ EndOf(rcvBlk, rDone)
  PROVE  AsAssumed(StatOf(Due))
<1>1. rDone \in 0..NumFiles /\ NumFiles \in Nat
  BY FilesAssumption DEF DiskOK
<1>2. IsBlk(StatOf(Due)) /\ StatOf(Due).chunk = 0 /\ StatOf(Due).file = Due
  BY DEF IsBlk, StatOf, Blk
<1>3. (Due > 0 => rDone < Due) /\ StatOf(Due) \in R!SentBlocks
  BY <1>1, StatIsSent DEF Due
<1>4. CASE rcvBlk = StatOf(Due)
  BY <1>2, <1>3, <1>4 DEF AsAssumed, R!Arrives
<1>5. CASE rcvBlk = NoBlk /\ rDone = 0
  <2>1. R!Follows(rcvBlk, StatOf(Due)) /\ rcvBlk.file = rDone
    BY <1>1, <1>5 DEF R!Follows, R!NoBlk, R!Blk, R!SOH, NoBlk, Blk, SOH, StatOf, Due
  <2> QED
    BY <1>2, <1>3, <2>1 DEF AsAssumed, R!Arrives, R!MayFollow
<1>6. CASE EndOf(rcvBlk, rDone)
  BY <1>2, <1>3, <1>6, EndFollowed DEF AsAssumed, R!Arrives, R!MayFollow, EndOf
<1> QED
  BY <1>4, <1>5, <1>6

LEMMA DataArrives ==
  ASSUME DiskOK, rActive = "FirstByteData", rDone < NumFiles, lastBlk \in R!SentBlocks, IsBlk(lastBlk),
         lastBlk.file = rDone + 1,
         \/ rcvBlk = lastBlk
         \/ rcvBlk = DataOf(rDone + 1, OnDisk) /\ lastBlk.chunk = OnDisk + 1
  PROVE  AsAssumed(lastBlk)
<1>1. rDone \in Nat /\ rDone < rDone + 1 /\ rDone + 1 > 0
  BY DEF DiskOK
<1>2. CASE rcvBlk = lastBlk
  BY <1>1, <1>2 DEF AsAssumed, R!Arrives, R!JustClosed
<1>3. CASE rcvBlk = DataOf(rDone + 1, OnDisk) /\ lastBlk.chunk = OnDisk + 1
  <2>1. rDone + 1 \in 0..NumFiles /\ OnDisk \in Nat
    BY <1>1, FilesAssumption DEF DiskOK, OnDisk
  <2>2. R!Follows(rcvBlk, lastBlk)
    BY <1>1, <1>3, <2>1 DEF R!Follows, DataOf, Blk
  <2> QED
    BY <1>3, <2>1, <2>2 DEF AsAssumed, R!Arrives, R!MayFollow
<1> QED
  BY <1>2, <1>3

LEMMA ArrivesAsAssumed ==
  ASSUME IInv, LineTypeOK, InStep, toRcv # <<>>, R!running
  PROVE  AsAssumed(Head(toRcv).msg)
<1>1. DiskOK /\ rDone \in 0..NumFiles /\ NumFiles \in Nat
  BY FilesAssumption DEF InStep, DiskOK
<1>2. \A W : ~Answered(W)
  BY DEF Answered
<1>3. ASSUME NEW m, NEW W, Exchange(m, W), AsAssumed(m)
      PROVE  AsAssumed(Head(toRcv).msg)
  BY <1>2, <1>3, FirstArriving DEF Exchange
<1>4. CASE StatDue
  <2>1. Exchange(StatOf(Due), NoneOr({C, NAK}))
    BY <1>2, <1>4, Zenon DEF StatDue
  <2>2. AsAssumed(StatOf(Due))
    BY <1>1, <1>4, StatArrives DEF StatDue
  <2> QED
    BY <1>3, <2>1, <2>2
<1>5. CASE DataDue
  <2>1. InFile(OnDisk) /\ rActive = "FirstByteData" /\ rcvBlk \in {DataOf(rDone + 1, OnDisk), lastBlk}
    BY <1>5 DEF DataDue
  <2>2. rDone < NumFiles /\ rDone \in Nat /\ rDone + 1 \in 0..NumFiles /\ OnDisk \in Nat
    BY <1>1, <2>1 DEF InFile, DiskOK, OnDisk
  <2>3. active \in {"ACKNAKSTAT", "ONE", "ACKNAK"} => lastBlk \in R!SentBlocks
    <3> SUFFICES ASSUME active \in {"ACKNAKSTAT", "ONE", "ACKNAK"} PROVE lastBlk \in R!SentBlocks
      OBVIOUS
    <3>1. fileName \in Files /\ lastBlk.chunk \in Nat /\ lastBlk.chunk <= Chunks[fileName]
          /\ lastBlk = DataOf(fileName, lastBlk.chunk)
      BY <2>1, <2>2, OutBlock DEF InFile
    <3>2. lastBlk.chunk \in 0..Chunks[fileName]
      BY <3>1, FilesAssumption DEF Files
    <3> QED
      BY <3>1, <3>2, DataIsSent
  <2>4. CASE active = "ACKNAKSTAT" /\ OnDisk = 0 /\ lastBlk = StatOf(rDone + 1) /\ Exchange(lastBlk, AckOrMore)
    <3>1. IsBlk(lastBlk) /\ lastBlk.file = rDone + 1 /\ DataOf(rDone + 1, OnDisk) = lastBlk
      BY <2>4, FirstNumber DEF StatOf, DataOf, Blk, IsBlk
    <3> QED
      BY <1>1, <1>3, <2>1, <2>2, <2>3, <2>4, <3>1, DataArrives
  <2>5. CASE active = "ACKNAK" /\ lastBlk = DataOf(rDone + 1, OnDisk + 1) /\ Exchange(lastBlk, NoneOr({NAK}))
    <3>1. IsBlk(lastBlk) /\ lastBlk.file = rDone + 1 /\ lastBlk.chunk = OnDisk + 1
      BY <2>5 DEF DataOf, Blk, IsBlk
    <3> QED
      BY <1>1, <1>3, <2>1, <2>2, <2>3, <2>5, <3>1, DataArrives
  <2>6. CASE active = "ACKNAK" /\ lastBlk = DataOf(rDone + 1, OnDisk) /\ Exchange(lastBlk, NoneOr({NAK, ACK}))
    <3>1. IsBlk(lastBlk) /\ lastBlk.file = rDone + 1 /\ rcvBlk = lastBlk
      BY <2>1, <2>6 DEF DataOf, Blk, IsBlk
    <3> QED
      BY <1>1, <1>3, <2>1, <2>2, <2>3, <2>6, <3>1, DataArrives
  <2>7. CASE Exchange(Byte(EOT), NoneOr({NAK}))
    <3>1. AsAssumed(Byte(EOT))
      BY <2>1 DEF AsAssumed, R!ByteArrives, IsBlk, Byte, EOT, SOH
    <3> QED
      BY <1>3, <2>7, <3>1
  <2> QED
    BY <1>2, <1>5, <2>4, <2>5, <2>6, <2>7, Zenon DEF DataDue
<1>6. CASE EndDue
  <2>1. Exchange(Byte(EOT), NoneOr({NAK})) /\ LastOfFile(rcvBlk)
    BY <1>2, <1>6, Zenon DEF EndDue, EndOf
  <2>2. AsAssumed(Byte(EOT))
    BY <2>1 DEF AsAssumed, R!ByteArrives, IsBlk, Byte, EOT, SOH, LastOfFile, R!LastOfFile, Files, R!Files
  <2> QED
    BY <1>3, <2>1, <2>2
<1>7. CASE SenderGone
  <2>1. toRcv \in Seq({Noise(CAN), Noise(GLITCH)})
    BY <1>7 DEF SenderGone
  <2>2. Head(toRcv) \in {Noise(CAN), Noise(GLITCH)}
    BY <2>1
  <2> QED
    BY <2>2, NoiseArrives DEF Noise, Item
<1> QED
  BY <1>2, <1>4, <1>5, <1>6, <1>7, Zenon DEF InStep, Phase, Judged, AllThere, ReceiverGone

\* Whatever reaches the receiver in a session is what the model of ReceiverY
\* in an open environment assumes may reach it: of the blocks this sender
\* makes the one it has taken already or the next, and no EOT but where the
\* chart expects one.
THEOREM EnvironmentHolds == NothingMadeUp /\ Session => EnvironmentKept
<1> DEFINE Assumed == ReceiverSER /\ R!running =>
                        LET m == Head(toRcv).msg
                        IN IF IsBlk(m) THEN R!Arrives(m) ELSE R!ByteArrives(m.type)
<1>1. IInv /\ LineTypeOK /\ InStep => Assumed
  BY ArrivesAsAssumed DEF ReceiverSER, AsAssumed
<1>2. IInv /\ LineTypeOK /\ InStep => [Assumed]_sessionVars
  BY <1>1
<1> HIDE DEF Assumed
<1>3. NothingMadeUp /\ Session => [][Assumed]_sessionVars
  BY <1>2, PeersInStep, LineInvariant, PTL
<1> QED
  BY <1>3, PTL DEF Assumed, EnvironmentKept

LEMMA ReceiverIsReceiver ==
  ASSUME IInv, LineTypeOK, InStep, [SessionNext]_sessionVars
  PROVE  [R!Next]_(R!vars)
<1>1. CASE ReceiverSER
  <2> DEFINE m == Head(toRcv).msg
             q == IF Head(toRcv).quality = "rest" THEN "short" ELSE Head(toRcv).quality
  <2>1. toRcv # <<>> /\ toRcv \in Seq(Items)
    BY <1>1 DEF ReceiverSER, LineTypeOK, Items
  <2>2. m \in Messages /\ q \in R!Qualities /\ "bad" \in R!Qualities
    <3>1. Head(toRcv) \in Items
      BY <2>1
    <3> QED
      BY <3>1 DEF Items, Qualities, R!Qualities
  <2>3. IF IsBlk(m) THEN R!SER_SOH(q, m) \/ R!SER_SOH("bad", m) \/ R!SER(SOH) ELSE R!SER(m.type)
    BY <1>1 DEF ReceiverSER
  <2>4. CASE ~R!running
    BY <1>1, <2>3, <2>4, ReceiverRuns
  <2>5. CASE R!running
    <3>1. AsAssumed(m)
      BY <2>1, <2>5, ArrivesAsAssumed
    <3> HIDE DEF m, q
    <3>2. CASE IsBlk(m)
      <4>1. m \in R!SentBlocks /\ R!Arrives(m) /\ R!ByteArrives(SOH) /\ SOH \in R!ControlBytes \cup {R!SOH}
        BY <3>1, <3>2 DEF AsAssumed, R!ByteArrives, SOH, R!EOT, R!SOH
      <4> QED
        BY <2>2, <2>3, <3>2, <4>1 DEF R!Next
    <3>3. CASE ~IsBlk(m)
      <4>1. R!ByteArrives(m.type) /\ m.type \in R!ControlBytes \cup {R!SOH}
        BY <2>2, <3>1, <3>3 DEF AsAssumed, Messages, R!ControlBytes, ControlBytes, R!SOH, SOH,
           R!EOT, EOT, R!ACK, ACK, R!NAK, NAK, R!CAN, CAN, R!C, C, R!GLITCH, GLITCH
      <4> QED
        BY <2>3, <3>3, <4>1 DEF R!Next
    <3> QED
      BY <3>2, <3>3
  <2> QED
    BY <2>4, <2>5
<1>2. CASE ReceiverTM \/ ReceiverKB_C
  BY <1>2 DEF ReceiverTM, ReceiverKB_C, R!Next
<1>3. CASE SenderEvents \/ MediumEvents
  <2>1. UNCHANGED receiverVars
    BY <1>3 DEF SenderEvents, MediumEvents, SenderSER, SenderTM, SenderKB_C, MsgFromTerm1,
       ExtraAckAtLastByte, Unread, sessionVars
  <2> QED
    BY <2>1 DEF receiverVars, R!vars, R!chart, R!timers, R!judgement, R!opened, R!contents,
       R!result, R!ghosts
<1> QED
  BY <1>1, <1>2, <1>3 DEF SessionNext, SenderEvents, MediumEvents

\* The receiver in a session behaves as ReceiverY in its open environment:
\* what is proved of the one, DiskHoldsPrefix and SizeExact among it, holds
\* of the other.
THEOREM ReceiverInSession == NothingMadeUp /\ Session => R!Spec
<1>1. SessionInit => R!Init
  BY DEF SessionInit
<1>2. IInv /\ LineTypeOK /\ InStep /\ [SessionNext]_sessionVars => [R!Next]_(R!vars)
  BY ReceiverIsReceiver
<1> QED
  BY <1>1, <1>2, PeersInStep, LineInvariant, PTL DEF Session, R!Spec
=============================================================================
