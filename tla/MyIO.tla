-------------------------------- MODULE MyIO --------------------------------
(***************************************************************************)
(* The socket pairs of myIO.cpp: sockets on which a writer can wait until  *)
(* what it wrote has been taken (myTcdrain), although AF_LOCAL sockets     *)
(* have no such call.  One pair is modelled, with its two descriptors 0    *)
(* and 1; each has a socketInfoClass object that counts what was written   *)
(* to it and what its waiting reader could take.                           *)
(*                                                                         *)
(* Every operation takes the mutex of the object it works on while it      *)
(* holds mapMutex, and keeps that mutex until it returns or waits on a     *)
(* condition variable: an operation is one step up to its return or its    *)
(* wait, and one more from its wake-up to its return.                      *)
(*                                                                         *)
(* Callers keep to what the file asks of them: one thread reads a          *)
(* descriptor at a time, min is at most n, and myClose waits until every   *)
(* other call on the descriptor has returned.                              *)
(***************************************************************************)
EXTENDS Integers

CONSTANTS
  Threads,   \* the threads that call the library
  End,       \* End[t]: the descriptor thread t uses
  Readers,   \* the threads that read
  Drainers,  \* the threads that call myTcdrain
  MaxBytes,  \* bound: the most bytes of one read or write
  Budget,    \* bound: the most bytes ever written to one descriptor
  Timed      \* TRUE: a read waits with wait_for (ymodLib); FALSE: with wait (Part 3)

ASSUME ThreadsAssumption ==
  /\ End \in [Threads -> {0, 1}]
  /\ Readers \subseteq Threads
  /\ Drainers \subseteq Threads

ASSUME SizesAssumption == MaxBytes \in Nat \ {0} /\ Budget \in Nat /\ Timed \in BOOLEAN

VARIABLES
  desInfoMap,       \* the descriptors that are still in the map
  pair,             \* per descriptor: the paired one, or Closed or PairClosed
  totalWritten,     \* per descriptor: bytes written to it and not yet read
  maxTotalCanRead,  \* per descriptor: what its waiting reader asked for
  call,             \* per thread: the call it is waiting in
  written, taken    \* per descriptor: bytes its socket was given, and bytes read from it

vars == <<desInfoMap, pair, totalWritten, maxTotalCanRead, call, written, taken>>

Descriptors == {0, 1}
Peer(des) == 1 - des
Closed == -1
PairClosed == -2

\* What the kernel holds for the reader of des.
Buffered(des) == written[des] - taken[des]

NoCall == [op |-> "none", n |-> 0, min |-> 0, awake |-> FALSE]
ReadCall(n, min, awake) == [op |-> "read", n |-> n, min |-> min, awake |-> awake]
DrainCall == [op |-> "drain", n |-> 0, min |-> 0, awake |-> FALSE]

Calls ==
  {NoCall} \cup [op : {"read"}, n : 1..MaxBytes, min : 0..MaxBytes, awake : BOOLEAN]
           \cup [op : {"drain"}, n : {0}, min : {0}, awake : BOOLEAN]

Idle(t) == call[t].op = "none" /\ End[t] \in desInfoMap

\* The threads that wait on the condition variables of the object of des.
AtCvRead(des, t) == call[t].op = "read" /\ End[t] = des
AtCvDrain(des, t) == call[t].op = "drain" /\ End[t] = Peer(des)

\* notify_one of cvRead wakes the one reader there is, notify_all every drainer.
Wake(S, c) == [t \in Threads |-> IF t \in S THEN [c[t] EXCEPT !.awake = TRUE] ELSE c[t]]
NotifyRead(des, c) == Wake({t \in Threads : AtCvRead(des, t)}, c)
NotifyDrain(des, c) == Wake({t \in Threads : AtCvDrain(des, t)}, c)

\* What a drainer waits for, and what a reader waits for.
Drained(des) == pair[des] < 0 \/ totalWritten[des] <= maxTotalCanRead[des]
CanRead(des, min) == totalWritten[des] >= min \/ pair[des] < 0

\* A read of n bytes takes what the kernel has of them.
BytesRead_AsAsked(des, n) == n
BytesRead(des, n) == IF n < Buffered(des) THEN n ELSE Buffered(des)

\* A read that leaves no more than a waiting read could take releases the drainers.
ReadReleases_Never(des, left, c) == c
ReadReleases_Always(des, left, c) == NotifyDrain(des, c)
ReadReleases(des, left, c) == IF left <= maxTotalCanRead[des] THEN NotifyDrain(des, c) ELSE c

\* A reader that has waited no longer asks for its n bytes.
AsksNoMore_Kept(des, n) == maxTotalCanRead
AsksNoMore(des, n) == [maxTotalCanRead EXCEPT ![des] = @ - n]

\* The first close throws away what the pair's drainers wait for.
CloseReleases_None(des, c) == c
CloseReleases(des, c) ==
  IF totalWritten[des] > maxTotalCanRead[des] THEN NotifyDrain(des, c) ELSE c

Init ==
  /\ desInfoMap = Descriptors
  /\ pair = [des \in Descriptors |-> Peer(des)]
  /\ totalWritten = [des \in Descriptors |-> 0]
  /\ maxTotalCanRead = [des \in Descriptors |-> 0]
  /\ call = [t \in Threads |-> NoCall]
  /\ written = [des \in Descriptors |-> 0]
  /\ taken = [des \in Descriptors |-> 0]

\* myReadcond and myRead (min 1): reading.  With the pair closed it returns 0
\* at once, and nothing changes.
CallsRead(t, n, min) ==
  /\ t \in Readers /\ Idle(t) /\ min <= n
  /\ \A s \in Threads : ~ AtCvRead(End[t], s)
  /\ pair[End[t]] # PairClosed

\* Enough is there and no reader waits: take it, and release the drainers if
\* nothing is left.
ReadNow(t, n, min) ==
  LET des == End[t]
      bytesRead == BytesRead(des, n)
  IN /\ CallsRead(t, n, min)
     /\ maxTotalCanRead[des] = 0 /\ totalWritten[des] >= min /\ totalWritten[des] > 0
     /\ totalWritten' = [totalWritten EXCEPT ![des] = @ - bytesRead]
     /\ taken' = [taken EXCEPT ![des] = @ + bytesRead]
     /\ call' = ReadReleases(des, totalWritten[des] - bytesRead, call)
     /\ UNCHANGED <<desInfoMap, pair, maxTotalCanRead, written>>

\* Otherwise say how much could be taken, release the drainers and wait.
ReadWaits(t, n, min) ==
  LET des == End[t]
  IN /\ CallsRead(t, n, min)
     /\ ~ (maxTotalCanRead[des] = 0 /\ totalWritten[des] >= min)
     /\ maxTotalCanRead' = [maxTotalCanRead EXCEPT ![des] = @ + n]
     /\ call' = [NotifyDrain(des, call) EXCEPT ![t] = ReadCall(n, min, CanRead(des, min))]
     /\ UNCHANGED <<desInfoMap, pair, totalWritten, written, taken>>

\* The rest of a read that waited: it was woken and finds what it waits for, or
\* its time is over.  The notify_one at its end has no second reader to wake.
ReadResumes(t) ==
  LET des == End[t]
      bytesRead == BytesRead(des, call[t].n)
  IN /\ call[t].op = "read"
     /\ Timed \/ (call[t].awake /\ CanRead(des, call[t].min))
     /\ totalWritten' = [totalWritten EXCEPT ![des] = @ - bytesRead]
     /\ taken' = [taken EXCEPT ![des] = @ + bytesRead]
     /\ maxTotalCanRead' = AsksNoMore(des, call[t].n)
     /\ call' = [call EXCEPT ![t] = NoCall]
     /\ UNCHANGED <<desInfoMap, pair, written>>

\* A reader that was woken and finds too little waits again.
ReadWaitsAgain(t) ==
  /\ call[t].op = "read" /\ call[t].awake
  /\ ~ CanRead(End[t], call[t].min)
  /\ call' = [call EXCEPT ![t].awake = FALSE]
  /\ UNCHANGED <<desInfoMap, pair, totalWritten, maxTotalCanRead, written, taken>>

\* myWrite: writing, on the object of the paired descriptor.  With that one
\* closed the kernel's write fails and nothing changes.
Write(t, nbyte) ==
  LET to == Peer(End[t])
  IN /\ Idle(t) /\ pair[End[t]] # PairClosed
     /\ written[to] + nbyte <= Budget
     /\ totalWritten' = [totalWritten EXCEPT ![to] = @ + nbyte]
     /\ written' = [written EXCEPT ![to] = @ + nbyte]
     /\ call' = NotifyRead(to, call)
     /\ UNCHANGED <<desInfoMap, pair, maxTotalCanRead, taken>>

\* myTcdrain: draining, on the object of the paired descriptor.  It waits at
\* most once and does not look again when it is woken; a call that need not wait
\* changes nothing.
Drain(t) ==
  LET to == Peer(End[t])
  IN /\ t \in Drainers /\ Idle(t) /\ pair[End[t]] # PairClosed
     /\ ~ Drained(to)
     /\ call' = [call EXCEPT ![t] = DrainCall]
     /\ UNCHANGED <<desInfoMap, pair, totalWritten, maxTotalCanRead, written, taken>>

DrainReturns(t) ==
  /\ call[t].op = "drain" /\ call[t].awake
  /\ call' = [call EXCEPT ![t] = NoCall]
  /\ UNCHANGED <<desInfoMap, pair, totalWritten, maxTotalCanRead, written, taken>>

\* myClose: closing.  The first of the two to close throws away what it has not
\* read, so it wakes the drainers of the other end; and a reader there waits in vain.
Close(t) ==
  LET des == End[t]
      other == Peer(des)
      released == CloseReleases(des, call)
  IN /\ Idle(t)
     /\ \A s \in Threads : End[s] = des => call[s].op = "none"
     /\ desInfoMap' = desInfoMap \ {des}
     /\ IF pair[des] # PairClosed
        THEN /\ pair' = [pair EXCEPT ![des] = Closed, ![other] = PairClosed]
             /\ call' = IF maxTotalCanRead[other] > 0 THEN NotifyRead(other, released) ELSE released
        ELSE UNCHANGED <<pair, call>>
     /\ UNCHANGED <<totalWritten, maxTotalCanRead, written, taken>>

Returns(t) == ReadResumes(t) \/ DrainReturns(t)

Reads(t) == \E n \in 1..MaxBytes, min \in 0..MaxBytes : ReadNow(t, n, min) \/ ReadWaits(t, n, min)

ThreadStep(t) ==
  \/ Reads(t)
  \/ ReadWaitsAgain(t)
  \/ \E nbyte \in 1..MaxBytes : Write(t, nbyte)
  \/ Drain(t)
  \/ Returns(t)
  \/ Close(t)

\* Nothing to do is no deadlock here: the threads have closed the pair or wait
\* for input that never comes.
Next == \E t \in Threads : ThreadStep(t)

Spec == Init /\ [][Next]_vars

\* A woken thread runs, a wait ends when its time is over, and a reader that is
\* not in a call reads again.
Fairness == \A t \in Threads : WF_vars(Returns(t)) /\ WF_vars(Reads(t))

FairSpec == Spec /\ Fairness

-----------------------------------------------------------------------------

TypeOK ==
  /\ desInfoMap \subseteq Descriptors
  /\ pair \in [Descriptors -> {0, 1, Closed, PairClosed}]
  /\ totalWritten \in [Descriptors -> Nat]
  /\ maxTotalCanRead \in [Descriptors -> Nat]
  /\ call \in [Threads -> Calls]
  /\ written \in [Descriptors -> Nat]
  /\ taken \in [Descriptors -> Nat]

\* The two counters drain and read decide by are exact at every moment: as long
\* as a descriptor is open, totalWritten is what the kernel holds for it and
\* maxTotalCanRead is what its one waiting reader asked for.
CountersExact ==
  \A des \in desInfoMap :
    /\ totalWritten[des] = Buffered(des)
    /\ \/ \E t \in Threads : AtCvRead(des, t) /\ maxTotalCanRead[des] = call[t].n
       \/ (\A t \in Threads : ~ AtCvRead(des, t)) /\ maxTotalCanRead[des] = 0

\* Nobody sleeps on a condition that holds: a drainer nobody has woken has still
\* something to wait for (its wait is not in a loop, a lost wake-up would be for
\* ever), and a reader nobody has woken still has too little to read.
NobodyForgotten ==
  \A t \in Threads : ~ call[t].awake =>
    /\ call[t].op = "drain" => ~ Drained(Peer(End[t]))
    /\ call[t].op = "read" => ~ CanRead(End[t], call[t].min)

\* A drainer is woken only by a step after which all that was written is taken,
\* can be taken by the read that waits, or is thrown away by the close of the
\* pair: draining trusts its wake-up without looking at the counters again.
WokenOnlyWhenDrained ==
  [][\A t \in Threads :
       call[t].op = "drain" /\ ~ call[t].awake /\ call'[t].awake => Drained(Peer(End[t]))']_vars

\* Every wait ends when the readers keep reading and the waits have a time: no
\* drainer and no reader is left behind, also when the pair is closed under it.
CallsReturn == \A t \in Threads : call[t].op # "none" ~> call[t].op = "none"
=============================================================================
