----------------------------- MODULE MyIOProofs -----------------------------
(***************************************************************************)
(* What MyIO's runs check of the socket pairs, for any threads, any bounds *)
(* and both kinds of wait.                                                 *)
(*                                                                         *)
(* CountersExact and NobodyForgotten are inductive together, once it is    *)
(* known that a waiting thread's descriptor is open, that a descriptor's   *)
(* pair says whether the other end is, and that a descriptor has one       *)
(* waiting reader at most.                                                 *)
(***************************************************************************)
EXTENDS MyIO, TLAPS

\* pair tells whether the other descriptor has been closed.
PairTells ==
  \A des \in Descriptors :
    /\ des \in desInfoMap => pair[des] = IF Peer(des) \in desInfoMap THEN Peer(des) ELSE PairClosed
    /\ des \notin desInfoMap => pair[des] < 0

\* A descriptor is closed only when no call on it waits.
WaitersOpen == \A t \in Threads : call[t].op # "none" => End[t] \in desInfoMap

OneReader ==
  \A s, t \in Threads :
    call[s].op = "read" /\ call[t].op = "read" /\ End[s] = End[t] => s = t

IInv == TypeOK /\ PairTells /\ WaitersOpen /\ OneReader /\ CountersExact /\ NobodyForgotten

-----------------------------------------------------------------------------
(* Waking threads changes whether they are awake, and nothing else.        *)

LEMMA WakeFacts ==
  ASSUME NEW c \in [Threads -> Calls], NEW S \in SUBSET Threads,
         \A t \in S : c[t].op \in {"read", "drain"}
  PROVE  /\ Wake(S, c) \in [Threads -> Calls]
         /\ \A t \in Threads :
              /\ Wake(S, c)[t].op = c[t].op
              /\ Wake(S, c)[t].n = c[t].n
              /\ Wake(S, c)[t].min = c[t].min
              /\ Wake(S, c)[t].awake <=> (c[t].awake \/ t \in S)
<1> DEFINE w(t) == IF t \in S THEN [c[t] EXCEPT !.awake = TRUE] ELSE c[t]
<1>1. ASSUME NEW t \in Threads
      PROVE  /\ w(t) \in Calls /\ w(t).op = c[t].op /\ w(t).n = c[t].n /\ w(t).min = c[t].min
             /\ w(t).awake <=> (c[t].awake \/ t \in S)
  <2>1. c[t] \in Calls
    OBVIOUS
  <2>2. CASE t \notin S
    BY <2>1, <2>2
  <2>3. CASE t \in S /\ c[t].op = "read"
    <3>1. c[t] \in [op : {"read"}, n : 1..MaxBytes, min : 0..MaxBytes, awake : BOOLEAN]
      BY <2>1, <2>3 DEF Calls, NoCall
    <3> QED
      BY <3>1, <2>3 DEF Calls
  <2>4. CASE t \in S /\ c[t].op = "drain"
    <3>1. c[t] \in [op : {"drain"}, n : {0}, min : {0}, awake : BOOLEAN]
      BY <2>1, <2>4 DEF Calls, NoCall
    <3> QED
      BY <3>1, <2>4 DEF Calls
  <2> QED
    BY <2>2, <2>3, <2>4
<1>2. Wake(S, c) = [t \in Threads |-> w(t)]
  BY DEF Wake
<1> HIDE DEF w
<1> QED
  BY <1>1, <1>2

LEMMA NotifyReadFacts ==
  ASSUME NEW c \in [Threads -> Calls], \A t \in Threads : c[t].op = call[t].op, NEW des
  PROVE  /\ NotifyRead(des, c) \in [Threads -> Calls]
         /\ \A t \in Threads :
              /\ NotifyRead(des, c)[t].op = c[t].op
              /\ NotifyRead(des, c)[t].n = c[t].n
              /\ NotifyRead(des, c)[t].min = c[t].min
              /\ NotifyRead(des, c)[t].awake <=> (c[t].awake \/ (c[t].op = "read" /\ End[t] = des))
<1> DEFINE S == {t \in Threads : AtCvRead(des, t)}
<1>1. S \in SUBSET Threads /\ \A t \in S : c[t].op \in {"read", "drain"}
  BY DEF AtCvRead
<1>2. \A t \in Threads : t \in S <=> c[t].op = "read" /\ End[t] = des
  BY DEF AtCvRead
<1>3. NotifyRead(des, c) = Wake(S, c)
  BY DEF NotifyRead
<1> HIDE DEF S
<1> QED
  BY <1>1, <1>2, <1>3, WakeFacts

LEMMA NotifyDrainFacts ==
  ASSUME NEW c \in [Threads -> Calls], \A t \in Threads : c[t].op = call[t].op, NEW des
  PROVE  /\ NotifyDrain(des, c) \in [Threads -> Calls]
         /\ \A t \in Threads :
              /\ NotifyDrain(des, c)[t].op = c[t].op
              /\ NotifyDrain(des, c)[t].n = c[t].n
              /\ NotifyDrain(des, c)[t].min = c[t].min
              /\ NotifyDrain(des, c)[t].awake <=> (c[t].awake \/ (c[t].op = "drain" /\ End[t] = Peer(des)))
<1> DEFINE S == {t \in Threads : AtCvDrain(des, t)}
<1>1. S \in SUBSET Threads /\ \A t \in S : c[t].op \in {"read", "drain"}
  BY DEF AtCvDrain
<1>2. \A t \in Threads : t \in S <=> c[t].op = "drain" /\ End[t] = Peer(des)
  BY DEF AtCvDrain
<1>3. NotifyDrain(des, c) = Wake(S, c)
  BY DEF NotifyDrain
<1> HIDE DEF S
<1> QED
  BY <1>1, <1>2, <1>3, WakeFacts

-----------------------------------------------------------------------------
(* What the calls' records hold.                                           *)

LEMMA CallFacts ==
  ASSUME NEW k \in Calls
  PROVE  /\ k.op \in {"none", "read", "drain"}
         /\ k.op = "none" => k = NoCall
         /\ k.op = "read" => k.n \in Nat \ {0} /\ k.min \in Nat
BY SizesAssumption DEF Calls, NoCall

LEMMA NewCallFacts ==
  /\ NoCall \in Calls /\ NoCall.op = "none"
  /\ DrainCall \in Calls /\ DrainCall.op = "drain" /\ DrainCall.awake = FALSE
  /\ \A n \in 1..MaxBytes, min \in 0..MaxBytes, awake \in BOOLEAN :
       /\ ReadCall(n, min, awake) \in Calls
       /\ ReadCall(n, min, awake).op = "read" /\ ReadCall(n, min, awake).n = n
       /\ ReadCall(n, min, awake).min = min
       /\ ReadCall(n, min, awake).awake = awake
BY DEF NoCall, DrainCall, ReadCall, Calls

LEMMA PeerFacts ==
  \A des \in Descriptors :
    Peer(des) \in Descriptors /\ Peer(Peer(des)) = des /\ Peer(des) # des /\ Peer(des) >= 0
BY DEF Descriptors, Peer

-----------------------------------------------------------------------------

LEMMA InitIInv == Init => IInv
<1> SUFFICES ASSUME Init PROVE IInv
  OBVIOUS
<1> USE DEF Init
<1>1. TypeOK
  BY NewCallFacts DEF TypeOK, Descriptors, Peer
<1>2. PairTells /\ WaitersOpen /\ OneReader
  BY NewCallFacts, PeerFacts DEF PairTells, WaitersOpen, OneReader
<1>3. CountersExact
  BY NewCallFacts DEF CountersExact, AtCvRead, Buffered, Descriptors
<1>4. NobodyForgotten
  BY NewCallFacts DEF NobodyForgotten
<1> QED
  BY <1>1, <1>2, <1>3, <1>4 DEF IInv

-----------------------------------------------------------------------------
(* Each call keeps the invariant.                                          *)

LEMMA EndFacts == \A t \in Threads : End[t] \in Descriptors /\ Peer(End[t]) \in Descriptors
BY ThreadsAssumption, PeerFacts DEF Descriptors

\* What a state that satisfies IInv says of a waiting thread.
LEMMA WaiterFacts ==
  ASSUME IInv, NEW t \in Threads
  PROVE  /\ call[t] \in Calls
         /\ call[t].op \in {"none", "read", "drain"}
         /\ call[t].op = "read" =>
              /\ End[t] \in desInfoMap
              /\ call[t].n \in Nat \ {0} /\ call[t].min \in Nat
              /\ maxTotalCanRead[End[t]] = call[t].n
<1>1. call[t] \in Calls
  BY DEF IInv, TypeOK
<1>2. call[t].op \in {"none", "read", "drain"}
      /\ (call[t].op = "read" => call[t].n \in Nat \ {0} /\ call[t].min \in Nat)
  BY <1>1, CallFacts
<1>3. ASSUME call[t].op = "read" PROVE End[t] \in desInfoMap /\ maxTotalCanRead[End[t]] = call[t].n
  <2>1. End[t] \in desInfoMap
    BY <1>3 DEF IInv, WaitersOpen
  <2>2. PICK s \in Threads : AtCvRead(End[t], s) /\ maxTotalCanRead[End[t]] = call[s].n
    BY <1>3, <2>1 DEF IInv, CountersExact, AtCvRead
  <2>3. s = t
    BY <1>3, <2>2 DEF IInv, OneReader, AtCvRead
  <2> QED
    BY <2>1, <2>2, <2>3
<1> QED
  BY <1>1, <1>2, <1>3

LEMMA WriteIInv ==
  ASSUME IInv, NEW t \in Threads, NEW nbyte \in 1..MaxBytes, Write(t, nbyte)
  PROVE  IInv'
<1> DEFINE to == Peer(End[t])
<1> USE DEF IInv, TypeOK
<1>1. to \in Descriptors /\ nbyte \in Nat
  BY EndFacts, SizesAssumption
<1>2. call' \in [Threads -> Calls]
      /\ \A s \in Threads :
           /\ call'[s].op = call[s].op /\ call'[s].n = call[s].n /\ call'[s].min = call[s].min
           /\ call'[s].awake <=> (call[s].awake \/ (call[s].op = "read" /\ End[s] = to))
  BY NotifyReadFacts DEF Write
<1>3. /\ desInfoMap' = desInfoMap /\ pair' = pair /\ maxTotalCanRead' = maxTotalCanRead /\ taken' = taken
      /\ totalWritten' = [totalWritten EXCEPT ![to] = @ + nbyte]
      /\ written' = [written EXCEPT ![to] = @ + nbyte]
  BY DEF Write
<1>4. TypeOK'
  BY <1>1, <1>2, <1>3
<1>5. (PairTells /\ WaitersOpen /\ OneReader)'
  BY <1>2, <1>3 DEF PairTells, WaitersOpen, OneReader
<1>6. CountersExact'
  BY <1>1, <1>2, <1>3 DEF CountersExact, AtCvRead, Buffered
<1>7. NobodyForgotten'
  <2> SUFFICES ASSUME NEW s \in Threads, ~ call'[s].awake
               PROVE  /\ call'[s].op = "drain" => ~ Drained(Peer(End[s]))'
                      /\ call'[s].op = "read" => ~ CanRead(End[s], call[s].min)'
    BY DEF NobodyForgotten
  <2> QED
    BY <1>1, <1>2, <1>3, EndFacts, PeerFacts DEF NobodyForgotten, Drained, CanRead
<1> QED
  BY <1>4, <1>5, <1>6, <1>7

\* A read takes no more than it asked for and no more than there is.
LEMMA BytesReadFacts ==
  ASSUME IInv, NEW des \in desInfoMap, NEW n \in Nat
  PROVE  /\ des \in Descriptors
         /\ BytesRead(des, n) \in Nat /\ BytesRead(des, n) <= n
         /\ BytesRead(des, n) <= totalWritten[des]
         /\ totalWritten[des] = Buffered(des)
BY DEF IInv, TypeOK, CountersExact, BytesRead, Buffered

LEMMA ReadNowIInv ==
  ASSUME IInv, NEW t \in Threads, NEW n \in 1..MaxBytes, NEW min \in 0..MaxBytes, ReadNow(t, n, min)
  PROVE  IInv'
<1> DEFINE des == End[t]
           bytesRead == BytesRead(des, n)
<1> USE DEF IInv, TypeOK
<1>1. des \in desInfoMap /\ des \in Descriptors /\ n \in Nat
  BY EndFacts, SizesAssumption DEF ReadNow, CallsRead, Idle
<1>2. bytesRead \in Nat /\ bytesRead <= totalWritten[des] /\ totalWritten[des] = Buffered(des)
  BY <1>1, BytesReadFacts
<1>3. /\ desInfoMap' = desInfoMap /\ pair' = pair /\ maxTotalCanRead' = maxTotalCanRead /\ written' = written
      /\ totalWritten' = [totalWritten EXCEPT ![des] = @ - bytesRead]
      /\ taken' = [taken EXCEPT ![des] = @ + bytesRead]
      /\ \A s \in Threads : ~ AtCvRead(des, s)
  BY DEF ReadNow, CallsRead
<1>4. /\ call' \in [Threads -> Calls]
      /\ \A s \in Threads :
           /\ call'[s].op = call[s].op /\ call'[s].n = call[s].n /\ call'[s].min = call[s].min
           /\ call[s].awake => call'[s].awake
           /\ call'[s].op = "drain" /\ End[s] = Peer(des) /\ totalWritten'[des] <= maxTotalCanRead[des]
                => call'[s].awake
  <2>1. CASE totalWritten[des] - bytesRead <= maxTotalCanRead[des]
    <3>1. call' = NotifyDrain(des, call)
      BY <2>1 DEF ReadNow, ReadReleases
    <3> HIDE DEF bytesRead
    <3> QED
      BY <3>1, NotifyDrainFacts
  <2>2. CASE ~ (totalWritten[des] - bytesRead <= maxTotalCanRead[des])
    <3>1. call' = call
      BY <2>2 DEF ReadNow, ReadReleases
    <3>2. totalWritten'[des] = totalWritten[des] - bytesRead
      BY <1>1, <1>3
    <3> HIDE DEF bytesRead
    <3> QED
      BY <2>2, <3>1, <3>2
  <2> QED
    BY <2>1, <2>2
<1> HIDE DEF bytesRead
<1>5. TypeOK'
  BY <1>1, <1>2, <1>3, <1>4
<1>6. (PairTells /\ WaitersOpen /\ OneReader)'
  BY <1>3, <1>4 DEF PairTells, WaitersOpen, OneReader
<1>7. CountersExact'
  BY <1>1, <1>2, <1>3, <1>4 DEF CountersExact, AtCvRead, Buffered
<1>8. NobodyForgotten'
  <2> SUFFICES ASSUME NEW s \in Threads, ~ call'[s].awake
               PROVE  /\ call'[s].op = "drain" => ~ Drained(Peer(End[s]))'
                      /\ call'[s].op = "read" => ~ CanRead(End[s], call[s].min)'
    BY DEF NobodyForgotten
  <2>1. ASSUME call'[s].op = "drain" PROVE ~ Drained(Peer(End[s]))'
    <3>1. CASE Peer(End[s]) = des
      <4>1. End[s] = Peer(des)
        BY <3>1, EndFacts, PeerFacts
      <4>2. totalWritten'[des] > maxTotalCanRead[des]
        BY <1>1, <1>4, <1>5, <2>1, <4>1
      <4> QED
        BY <1>1, <1>3, <1>4, <1>5, <2>1, <3>1, <4>2 DEF NobodyForgotten, Drained
    <3>2. CASE Peer(End[s]) # des
      BY <1>3, <1>4, <2>1, <3>2, EndFacts DEF NobodyForgotten, Drained
    <3> QED
      BY <3>1, <3>2
  <2>2. ASSUME call'[s].op = "read" PROVE ~ CanRead(End[s], call[s].min)'
    <3>1. End[s] # des
      BY <1>3, <1>4, <2>2 DEF AtCvRead
    <3> QED
      BY <1>3, <1>4, <2>2, <3>1, EndFacts DEF NobodyForgotten, CanRead
  <2> QED
    BY <2>1, <2>2
<1> QED
  BY <1>5, <1>6, <1>7, <1>8

LEMMA ReadWaitsIInv ==
  ASSUME IInv, NEW t \in Threads, NEW n \in 1..MaxBytes, NEW min \in 0..MaxBytes, ReadWaits(t, n, min)
  PROVE  IInv'
<1> DEFINE des == End[t]
           woken == NotifyDrain(des, call)
           mine == ReadCall(n, min, CanRead(des, min))
<1> USE DEF IInv, TypeOK
<1>1. /\ des \in desInfoMap /\ des \in Descriptors /\ n \in Nat \ {0} /\ min \in Nat
      /\ call[t].op = "none"
  BY EndFacts, SizesAssumption DEF ReadWaits, CallsRead, Idle
<1>2. /\ desInfoMap' = desInfoMap /\ pair' = pair /\ totalWritten' = totalWritten
      /\ written' = written /\ taken' = taken
      /\ maxTotalCanRead' = [maxTotalCanRead EXCEPT ![des] = @ + n]
      /\ \A s \in Threads : ~ AtCvRead(des, s)
  BY DEF ReadWaits, CallsRead
<1>3. maxTotalCanRead[des] = 0
  BY <1>1, <1>2 DEF CountersExact
<1>4. /\ woken \in [Threads -> Calls]
      /\ \A s \in Threads :
           /\ woken[s].op = call[s].op /\ woken[s].n = call[s].n /\ woken[s].min = call[s].min
           /\ woken[s].awake <=> (call[s].awake \/ (call[s].op = "drain" /\ End[s] = Peer(des)))
  BY NotifyDrainFacts
<1>5. /\ mine \in Calls /\ mine.op = "read" /\ mine.n = n /\ mine.min = min
      /\ mine.awake <=> CanRead(des, min)
  <2>1. CanRead(des, min) \in BOOLEAN
    BY DEF CanRead
  <2> QED
    BY <2>1, NewCallFacts
<1>6. call' = [woken EXCEPT ![t] = mine]
  BY DEF ReadWaits
<1> HIDE DEF woken, mine
<1>7. TypeOK'
  BY <1>1, <1>2, <1>4, <1>5, <1>6
<1>8. (PairTells /\ WaitersOpen /\ OneReader)'
  BY <1>1, <1>2, <1>4, <1>5, <1>6 DEF PairTells, WaitersOpen, OneReader, AtCvRead
<1>9. CountersExact'
  BY <1>1, <1>2, <1>3, <1>4, <1>5, <1>6 DEF CountersExact, AtCvRead, Buffered
<1>10. NobodyForgotten'
  <2> SUFFICES ASSUME NEW s \in Threads, ~ call'[s].awake
               PROVE  /\ call'[s].op = "drain" => ~ Drained(Peer(End[s]))'
                      /\ call'[s].op = "read" => ~ CanRead(End[s], call[s].min)'
    BY DEF NobodyForgotten
  <2>1. CASE s = t
    BY <1>2, <1>4, <1>5, <1>6, <2>1 DEF CanRead
  <2>2. CASE s # t
    <3>1. call'[s] = woken[s]
      BY <1>6, <2>2, <1>4
    <3>2. ASSUME call'[s].op = "drain" PROVE ~ Drained(Peer(End[s]))'
      <4>1. Peer(End[s]) # des
        BY <1>4, <3>1, <3>2, EndFacts, PeerFacts
      <4> QED
        BY <1>2, <1>4, <3>1, <3>2, <4>1, EndFacts DEF NobodyForgotten, Drained
    <3>3. ASSUME call'[s].op = "read" PROVE ~ CanRead(End[s], call[s].min)'
      BY <1>2, <1>4, <3>1, <3>3 DEF NobodyForgotten, CanRead
    <3> QED
      BY <3>2, <3>3
  <2> QED
    BY <2>1, <2>2
<1> QED
  BY <1>7, <1>8, <1>9, <1>10

LEMMA ReadResumesIInv ==
  ASSUME IInv, NEW t \in Threads, ReadResumes(t)
  PROVE  IInv'
<1> DEFINE des == End[t]
           n == call[t].n
           bytesRead == BytesRead(des, n)
<1> USE DEF IInv, TypeOK
<1>1. /\ des \in desInfoMap /\ des \in Descriptors /\ n \in Nat \ {0}
      /\ call[t].op = "read" /\ maxTotalCanRead[des] = n
  BY EndFacts, WaiterFacts DEF ReadResumes
<1>2. bytesRead \in Nat /\ bytesRead <= n /\ bytesRead <= totalWritten[des] /\ totalWritten[des] = Buffered(des)
  BY <1>1, BytesReadFacts
<1>3. /\ desInfoMap' = desInfoMap /\ pair' = pair /\ written' = written
      /\ totalWritten' = [totalWritten EXCEPT ![des] = @ - bytesRead]
      /\ taken' = [taken EXCEPT ![des] = @ + bytesRead]
      /\ maxTotalCanRead' = [maxTotalCanRead EXCEPT ![des] = @ - n]
      /\ call' = [call EXCEPT ![t] = NoCall]
  BY DEF ReadResumes, AsksNoMore
<1> HIDE DEF bytesRead
<1>4. TypeOK'
  BY <1>1, <1>2, <1>3, NewCallFacts
<1>5. (PairTells /\ WaitersOpen /\ OneReader)'
  BY <1>3, NewCallFacts DEF PairTells, WaitersOpen, OneReader
<1>6. \A s \in Threads : call'[s].op = "read" => End[s] # des /\ call'[s] = call[s]
  BY <1>1, <1>3, NewCallFacts DEF OneReader
<1>7. CountersExact'
  <2> SUFFICES ASSUME NEW d \in desInfoMap
               PROVE  /\ totalWritten'[d] = Buffered(d)'
                      /\ \/ \E s \in Threads : AtCvRead(d, s)' /\ maxTotalCanRead'[d] = call'[s].n
                         \/ (\A s \in Threads : ~ AtCvRead(d, s)') /\ maxTotalCanRead'[d] = 0
    BY <1>3 DEF CountersExact
  <2>1. totalWritten'[d] = Buffered(d)'
    BY <1>1, <1>2, <1>3 DEF CountersExact, Buffered
  <2>2. CASE d = des
    BY <1>1, <1>3, <1>6, <2>1, <2>2 DEF AtCvRead
  <2>3. CASE d # des
    <3>1. maxTotalCanRead'[d] = maxTotalCanRead[d] /\ \A s \in Threads : End[s] = d => call'[s] = call[s]
      BY <1>1, <1>3, <2>3
    <3> QED
      BY <2>1, <3>1 DEF CountersExact, AtCvRead
  <2> QED
    BY <2>2, <2>3
<1>8. NobodyForgotten'
  <2> SUFFICES ASSUME NEW s \in Threads, ~ call'[s].awake
               PROVE  /\ call'[s].op = "drain" => ~ Drained(Peer(End[s]))'
                      /\ call'[s].op = "read" => ~ CanRead(End[s], call[s].min)'
    BY DEF NobodyForgotten
  <2>1. ASSUME call'[s].op = "drain" PROVE ~ Drained(Peer(End[s]))'
    <3>1. call'[s] = call[s]
      BY <1>3, <2>1, NewCallFacts
    <3>2. ~ Drained(Peer(End[s]))
      BY <2>1, <3>1 DEF NobodyForgotten
    <3>3. CASE Peer(End[s]) = des
      BY <1>1, <1>2, <1>3, <3>2, <3>3 DEF Drained
    <3>4. CASE Peer(End[s]) # des
      BY <1>1, <1>3, <3>2, <3>4, EndFacts DEF Drained
    <3> QED
      BY <3>3, <3>4
  <2>2. ASSUME call'[s].op = "read" PROVE ~ CanRead(End[s], call[s].min)'
    BY <1>3, <1>6, <2>2, EndFacts DEF NobodyForgotten, CanRead
  <2> QED
    BY <2>1, <2>2
<1> QED
  BY <1>4, <1>5, <1>7, <1>8

LEMMA ReadWaitsAgainIInv ==
  ASSUME IInv, NEW t \in Threads, ReadWaitsAgain(t)
  PROVE  IInv'
<1> USE DEF IInv, TypeOK
<1>1. call[t].op = "read" /\ ~ CanRead(End[t], call[t].min)
      /\ desInfoMap' = desInfoMap /\ pair' = pair /\ totalWritten' = totalWritten
      /\ maxTotalCanRead' = maxTotalCanRead /\ written' = written /\ taken' = taken
  BY DEF ReadWaitsAgain
<1>2. /\ call' \in [Threads -> Calls]
      /\ \A s \in Threads :
           /\ call'[s].op = call[s].op /\ call'[s].n = call[s].n /\ call'[s].min = call[s].min
           /\ s # t => call'[s] = call[s]
  <2>1. call[t] \in [op : {"read"}, n : 1..MaxBytes, min : 0..MaxBytes, awake : BOOLEAN]
    BY <1>1, WaiterFacts DEF Calls, NoCall
  <2>2. [call[t] EXCEPT !.awake = FALSE] \in Calls
    BY <2>1 DEF Calls
  <2>3. call' = [call EXCEPT ![t] = [call[t] EXCEPT !.awake = FALSE]]
    BY DEF ReadWaitsAgain
  <2> QED
    BY <2>1, <2>2, <2>3
<1>3. TypeOK'
  BY <1>1, <1>2
<1>4. (PairTells /\ WaitersOpen /\ OneReader)'
  BY <1>1, <1>2 DEF PairTells, WaitersOpen, OneReader
<1>5. CountersExact'
  BY <1>1, <1>2 DEF CountersExact, AtCvRead, Buffered
<1>6. NobodyForgotten'
  BY <1>1, <1>2 DEF NobodyForgotten, Drained, CanRead
<1> QED
  BY <1>3, <1>4, <1>5, <1>6

LEMMA DrainIInv ==
  ASSUME IInv, NEW t \in Threads, Drain(t)
  PROVE  IInv'
<1> USE DEF IInv, TypeOK
<1>1. /\ call[t].op = "none" /\ End[t] \in desInfoMap /\ ~ Drained(Peer(End[t]))
      /\ desInfoMap' = desInfoMap /\ pair' = pair /\ totalWritten' = totalWritten
      /\ maxTotalCanRead' = maxTotalCanRead /\ written' = written /\ taken' = taken
      /\ call' = [call EXCEPT ![t] = DrainCall]
  BY DEF Drain, Idle
<1>2. TypeOK'
  BY <1>1, NewCallFacts
<1>3. (PairTells /\ WaitersOpen /\ OneReader)'
  BY <1>1, NewCallFacts DEF PairTells, WaitersOpen, OneReader
<1>4. CountersExact'
  BY <1>1, NewCallFacts DEF CountersExact, AtCvRead, Buffered
<1>5. NobodyForgotten'
  BY <1>1, NewCallFacts DEF NobodyForgotten, Drained, CanRead
<1> QED
  BY <1>2, <1>3, <1>4, <1>5

LEMMA DrainReturnsIInv ==
  ASSUME IInv, NEW t \in Threads, DrainReturns(t)
  PROVE  IInv'
<1> USE DEF IInv, TypeOK
<1>1. /\ call[t].op = "drain"
      /\ desInfoMap' = desInfoMap /\ pair' = pair /\ totalWritten' = totalWritten
      /\ maxTotalCanRead' = maxTotalCanRead /\ written' = written /\ taken' = taken
      /\ call' = [call EXCEPT ![t] = NoCall]
  BY DEF DrainReturns
<1>2. TypeOK'
  BY <1>1, NewCallFacts
<1>3. (PairTells /\ WaitersOpen /\ OneReader)'
  BY <1>1, NewCallFacts DEF PairTells, WaitersOpen, OneReader
<1>4. CountersExact'
  BY <1>1, NewCallFacts DEF CountersExact, AtCvRead, Buffered
<1>5. NobodyForgotten'
  BY <1>1, NewCallFacts DEF NobodyForgotten, Drained, CanRead
<1> QED
  BY <1>2, <1>3, <1>4, <1>5

LEMMA CloseIInv ==
  ASSUME IInv, NEW t \in Threads, Close(t)
  PROVE  IInv'
<1> DEFINE des == End[t]
           other == Peer(des)
           released == CloseReleases(des, call)
<1> USE DEF IInv, TypeOK
<1>1. /\ des \in desInfoMap /\ des \in Descriptors /\ other \in Descriptors /\ other # des
      /\ \A d \in Descriptors : d = des \/ d = other
      /\ \A s \in Threads : End[s] = des => call[s].op = "none"
      /\ desInfoMap' = desInfoMap \ {des} /\ totalWritten' = totalWritten
      /\ maxTotalCanRead' = maxTotalCanRead /\ written' = written /\ taken' = taken
  BY EndFacts, PeerFacts DEF Close, Idle, Descriptors, Peer
<1>2. \/ /\ pair[des] # PairClosed /\ other \in desInfoMap
         /\ pair' = [pair EXCEPT ![des] = Closed, ![other] = PairClosed]
         /\ call' = IF maxTotalCanRead[other] > 0 THEN NotifyRead(other, released) ELSE released
      \/ pair[des] = PairClosed /\ other \notin desInfoMap /\ pair' = pair /\ call' = call
  BY <1>1, PeerFacts DEF Close, PairTells, PairClosed
<1>3. /\ released \in [Threads -> Calls]
      /\ \A s \in Threads :
           /\ released[s].op = call[s].op /\ released[s].n = call[s].n /\ released[s].min = call[s].min
           /\ call[s].awake => released[s].awake
           /\ call[s].op = "drain" /\ End[s] = other /\ totalWritten[des] > maxTotalCanRead[des]
                => released[s].awake
  <2>1. CASE totalWritten[des] > maxTotalCanRead[des]
    BY <2>1, NotifyDrainFacts DEF CloseReleases
  <2>2. CASE ~ (totalWritten[des] > maxTotalCanRead[des])
    BY <2>2 DEF CloseReleases
  <2> QED
    BY <2>1, <2>2
<1> HIDE DEF released
<1>4. /\ call' \in [Threads -> Calls]
      /\ \A s \in Threads :
           /\ call'[s].op = call[s].op /\ call'[s].n = call[s].n /\ call'[s].min = call[s].min
           /\ call[s].awake => call'[s].awake
           /\ pair' # pair /\ released[s].awake => call'[s].awake
           /\ pair' # pair /\ call[s].op = "read" /\ End[s] = other /\ maxTotalCanRead[other] > 0
                => call'[s].awake
  <2>1. CASE pair' = pair /\ call' = call
    BY <2>1
  <2>2. CASE call' = NotifyRead(other, released)
    BY <1>3, <2>2, NotifyReadFacts
  <2>3. CASE call' = released /\ ~ (maxTotalCanRead[other] > 0)
    BY <1>3, <2>3
  <2> QED
    BY <1>2, <2>1, <2>2, <2>3
<1>5. TypeOK'
  BY <1>1, <1>2, <1>4 DEF Closed, PairClosed
<1>6. PairTells'
  BY <1>1, <1>2, PeerFacts DEF PairTells, Closed, PairClosed
<1>7. (WaitersOpen /\ OneReader)'
  BY <1>1, <1>4 DEF WaitersOpen, OneReader
<1>8. CountersExact'
  BY <1>1, <1>4 DEF CountersExact, AtCvRead, Buffered
<1>9. NobodyForgotten'
  <2> SUFFICES ASSUME NEW s \in Threads, ~ call'[s].awake
               PROVE  /\ call'[s].op = "drain" => ~ Drained(Peer(End[s]))'
                      /\ call'[s].op = "read" => ~ CanRead(End[s], call[s].min)'
    BY DEF NobodyForgotten
  <2>1. CASE pair' = pair
    BY <1>1, <1>4, <2>1 DEF NobodyForgotten, Drained, CanRead
  <2>2. CASE pair' # pair
    <3>1. call[s].op # "none" => End[s] = other
      BY <1>1, EndFacts
    <3>2. call'[s].op # "drain"
      <4> SUFFICES ASSUME call'[s].op = "drain" PROVE FALSE
        OBVIOUS
      <4>1. Peer(End[s]) = des /\ ~ call[s].awake
        BY <1>1, <1>4, <3>1, PeerFacts
      <4>2. totalWritten[des] > maxTotalCanRead[des]
        BY <1>1, <1>4, <4>1 DEF NobodyForgotten, Drained
      <4> QED
        BY <1>3, <1>4, <2>2, <3>1, <4>2
    <3>3. call'[s].op # "read"
      <4> SUFFICES ASSUME call'[s].op = "read" PROVE FALSE
        OBVIOUS
      <4>1. maxTotalCanRead[other] > 0
        BY <1>4, <3>1, WaiterFacts
      <4> QED
        BY <1>4, <2>2, <3>1, <4>1
    <3> QED
      BY <3>2, <3>3
  <2> QED
    BY <2>1, <2>2
<1> QED
  BY <1>5, <1>6, <1>7, <1>8, <1>9

-----------------------------------------------------------------------------

LEMMA StepIInv == IInv /\ [Next]_vars => IInv'
<1> SUFFICES ASSUME IInv, [Next]_vars PROVE IInv'
  OBVIOUS
<1>1. ASSUME NEW t \in Threads, ThreadStep(t) PROVE IInv'
  <2>1. CASE Reads(t)
    BY <2>1, ReadNowIInv, ReadWaitsIInv DEF Reads
  <2>2. CASE ReadWaitsAgain(t)
    BY <2>2, ReadWaitsAgainIInv
  <2>3. CASE \E nbyte \in 1..MaxBytes : Write(t, nbyte)
    BY <2>3, WriteIInv
  <2>4. CASE Drain(t)
    BY <2>4, DrainIInv
  <2>5. CASE Returns(t)
    BY <2>5, ReadResumesIInv, DrainReturnsIInv DEF Returns
  <2>6. CASE Close(t)
    BY <2>6, CloseIInv
  <2> QED
    BY <1>1, <2>1, <2>2, <2>3, <2>4, <2>5, <2>6 DEF ThreadStep
<1>2. CASE UNCHANGED vars
  BY <1>2 DEF vars, IInv, TypeOK, PairTells, WaitersOpen, OneReader, CountersExact, NobodyForgotten,
              AtCvRead, Buffered, Drained, CanRead
<1> QED
  BY <1>1, <1>2 DEF Next

\* Every reachable state satisfies the inductive invariant.
THEOREM SocketInvariant == Spec => []IInv
<1>1. Init => IInv
  BY InitIInv
<1>2. IInv /\ [Next]_vars => IInv'
  BY StepIInv
<1> QED
  BY <1>1, <1>2, PTL DEF Spec

\* Every variable of myIO.cpp's objects keeps its type; the unsigned counters,
\* which every read and every time-out subtracts from, do not go below zero.
THEOREM TypeCorrect == Spec => []TypeOK
<1>1. IInv => TypeOK
  BY DEF IInv
<1> QED
  BY <1>1, SocketInvariant, PTL

\* totalWritten and maxTotalCanRead, by which draining and reading decide, are
\* what the kernel holds and what the waiting reader asked for.
THEOREM CountersCorrect == Spec => []CountersExact
<1>1. IInv => CountersExact
  BY DEF IInv
<1> QED
  BY <1>1, SocketInvariant, PTL

\* No wake-up is lost: no drainer and no reader sleeps on a condition that holds.
THEOREM NoLostWakeup == Spec => []NobodyForgotten
<1>1. IInv => NobodyForgotten
  BY DEF IInv
<1> QED
  BY <1>1, SocketInvariant, PTL

-----------------------------------------------------------------------------
(* Who wakes a drainer leaves a state in which it need not wait.           *)

WakesOnlyDrained ==
  \A t \in Threads :
    call[t].op = "drain" /\ ~ call[t].awake /\ call'[t].awake => Drained(Peer(End[t]))'

LEMMA ReadNowWakes ==
  ASSUME IInv, NEW t \in Threads, NEW n \in 1..MaxBytes, NEW min \in 0..MaxBytes, ReadNow(t, n, min)
  PROVE  WakesOnlyDrained
<1> DEFINE des == End[t]
           left == totalWritten[des] - BytesRead(des, n)
<1>1. des \in Descriptors /\ totalWritten \in [Descriptors -> Nat]
  BY EndFacts DEF IInv, TypeOK
<1>2. totalWritten'[des] = left /\ maxTotalCanRead' = maxTotalCanRead /\ call' = ReadReleases(des, left, call)
  BY <1>1 DEF ReadNow
<1>3. CASE left <= maxTotalCanRead[des]
  <2>1. \A s \in Threads :
          call'[s].awake => call[s].awake \/ (call[s].op = "drain" /\ End[s] = Peer(des))
    BY <1>2, <1>3, NotifyDrainFacts DEF ReadReleases, IInv, TypeOK
  <2>2. Drained(des)'
    BY <1>2, <1>3 DEF Drained
  <2>3. \A s \in Threads : End[s] = Peer(des) => Peer(End[s]) = des
    BY <1>1, PeerFacts
  <2> QED
    BY <2>1, <2>2, <2>3 DEF WakesOnlyDrained
<1>4. CASE ~ (left <= maxTotalCanRead[des])
  BY <1>2, <1>4 DEF ReadReleases, WakesOnlyDrained
<1> QED
  BY <1>3, <1>4

LEMMA ReadWaitsWakes ==
  ASSUME IInv, NEW t \in Threads, NEW n \in 1..MaxBytes, NEW min \in 0..MaxBytes, ReadWaits(t, n, min)
  PROVE  WakesOnlyDrained
<1> DEFINE des == End[t]
<1>1. /\ des \in desInfoMap /\ des \in Descriptors /\ n \in Nat /\ min \in Nat /\ min <= n
      /\ call[t].op = "none"
      /\ totalWritten' = totalWritten
      /\ maxTotalCanRead' = [maxTotalCanRead EXCEPT ![des] = @ + n]
      /\ \A s \in Threads : ~ AtCvRead(des, s)
      /\ ~ (maxTotalCanRead[des] = 0 /\ totalWritten[des] >= min)
      /\ totalWritten \in [Descriptors -> Nat] /\ maxTotalCanRead \in [Descriptors -> Nat]
  BY EndFacts, SizesAssumption DEF ReadWaits, CallsRead, Idle, IInv, TypeOK
<1>2. maxTotalCanRead[des] = 0 /\ totalWritten[des] < min
  BY <1>1 DEF IInv, CountersExact
<1>3. Drained(des)'
  BY <1>1, <1>2 DEF Drained
<1>4. \A s \in Threads \ {t} :
        call'[s].awake => call[s].awake \/ (call[s].op = "drain" /\ End[s] = Peer(des))
  <2>1. \A s \in Threads \ {t} : call'[s] = NotifyDrain(des, call)[s]
    BY NotifyDrainFacts DEF ReadWaits, IInv, TypeOK
  <2> QED
    BY <2>1, NotifyDrainFacts DEF IInv, TypeOK
<1>5. \A s \in Threads : End[s] = Peer(des) => Peer(End[s]) = des
  BY <1>1, PeerFacts
<1> QED
  BY <1>1, <1>3, <1>4, <1>5 DEF WakesOnlyDrained

LEMMA CloseWakes ==
  ASSUME IInv, NEW t \in Threads, Close(t)
  PROVE  WakesOnlyDrained
<1> DEFINE des == End[t]
           other == Peer(des)
           released == CloseReleases(des, call)
<1>1. des \in Descriptors /\ other \in Descriptors /\ other # des
      /\ pair \in [Descriptors -> {0, 1, Closed, PairClosed}] /\ call \in [Threads -> Calls]
  BY EndFacts, PeerFacts DEF IInv, TypeOK
<1>2. /\ released \in [Threads -> Calls]
      /\ \A s \in Threads :
           /\ released[s].op = call[s].op
           /\ released[s].awake => call[s].awake \/ (call[s].op = "drain" /\ End[s] = Peer(des))
  BY <1>1, NotifyDrainFacts DEF CloseReleases
<1>3. CASE pair[des] = PairClosed
  BY <1>3 DEF Close, WakesOnlyDrained
<1>4. CASE pair[des] # PairClosed
  <2>1. pair' = [pair EXCEPT ![des] = Closed, ![other] = PairClosed]
        /\ call' = IF maxTotalCanRead[other] > 0 THEN NotifyRead(other, released) ELSE released
    BY <1>4 DEF Close
  <2> HIDE DEF released
  <2>2. \A s \in Threads :
          call[s].op = "drain" /\ call'[s].awake => call[s].awake \/ End[s] = Peer(des)
    BY <1>2, <2>1, NotifyReadFacts
  <2>3. Drained(des)'
    BY <1>1, <2>1 DEF Drained, Closed
  <2>4. \A s \in Threads : End[s] = Peer(des) => Peer(End[s]) = des
    BY <1>1, PeerFacts
  <2> QED
    BY <2>2, <2>3, <2>4 DEF WakesOnlyDrained
<1> QED
  BY <1>3, <1>4

LEMMA StepWakes == IInv /\ [Next]_vars => [WakesOnlyDrained]_vars
<1> SUFFICES ASSUME IInv, NEW t \in Threads, ThreadStep(t) PROVE WakesOnlyDrained
  BY DEF Next
<1>1. CASE Reads(t)
  BY <1>1, ReadNowWakes, ReadWaitsWakes DEF Reads
<1>2. CASE ReadWaitsAgain(t)
  BY <1>2 DEF ReadWaitsAgain, WakesOnlyDrained, IInv, TypeOK
<1>3. CASE \E nbyte \in 1..MaxBytes : Write(t, nbyte)
  BY <1>3, NotifyReadFacts DEF Write, WakesOnlyDrained, IInv, TypeOK
<1>4. CASE Drain(t)
  BY <1>4, NewCallFacts DEF Drain, Idle, WakesOnlyDrained, IInv, TypeOK
<1>5. CASE Returns(t)
  BY <1>5, NewCallFacts DEF Returns, ReadResumes, DrainReturns, WakesOnlyDrained, IInv, TypeOK, NoCall
<1>6. CASE Close(t)
  BY <1>6, CloseWakes
<1> QED
  BY <1>1, <1>2, <1>3, <1>4, <1>5, <1>6 DEF ThreadStep

\* draining trusts its wake-up: each notify of cvDrain comes with a state in
\* which what was written is read, about to be read, or thrown away.
THEOREM NoEarlyWakeup == Spec => WokenOnlyWhenDrained
<1>1. IInv /\ [Next]_vars => [WakesOnlyDrained]_vars
  BY StepWakes
<1> QED
  BY <1>1, SocketInvariant, PTL DEF Spec, WokenOnlyWhenDrained, WakesOnlyDrained
=============================================================================
