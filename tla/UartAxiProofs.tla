---------------------------- MODULE UartAxiProofs ----------------------------
(***************************************************************************)
(* What UartAxi's run checks of the driver's queues and sleepers, for any  *)
(* users, queue size and numbers of bytes.                                 *)
(***************************************************************************)
EXTENDS UartAxi, TLAPS

\* The two locks: one process reads at a time, and one writes.
LocksHold ==
  \A p, q \in Users : (Reading(p) /\ Reading(q)) \/ (Writing(p) /\ Writing(q)) => p = q

-----------------------------------------------------------------------------
(* Queues.                                                                 *)

LEMMA AppendFacts ==
  ASSUME NEW s \in Seq(Nat), NEW n \in Nat
  PROVE  /\ Append(s, n) \in Seq(Nat) /\ Len(Append(s, n)) = Len(s) + 1
         /\ Append(s, n) # Empty
BY DEF Empty

LEMMA TailFacts ==
  ASSUME NEW s \in Seq(Nat), s # Empty
  PROVE  /\ Head(s) \in Nat /\ Tail(s) \in Seq(Nat) /\ Len(Tail(s)) = Len(s) - 1
         /\ Len(s) \in Nat \ {0}
BY DEF Empty

LEMMA RestFacts ==
  ASSUME NEW s \in Seq(Nat), NEW k \in Nat, k <= Len(s)
  PROVE  /\ kfifo_rest(s, k) \in Seq(Nat) /\ Len(kfifo_rest(s, k)) = Len(s) - k
BY DEF kfifo_rest

LEMMA ConcatFacts ==
  ASSUME NEW s \in Seq(Nat), NEW k \in Nat, NEW a \in Nat
  PROVE  /\ s \o [i \in 1..k |-> a + i] \in Seq(Nat)
         /\ Len(s \o [i \in 1..k |-> a + i]) = Len(s) + k
<1> DEFINE r == [i \in 1..k |-> a + i]
<1>1. r \in Seq(Nat) /\ Len(r) = k
  OBVIOUS
<1> HIDE DEF r
<1>2. s \o r \in Seq(Nat) /\ Len(s \o r) = Len(s) + k
  BY <1>1
<1> QED
  BY <1>2 DEF r

LEMMA EmptyFacts ==
  /\ Empty \in Seq(Nat) /\ Len(Empty) = 0
  /\ \A s \in Seq(Nat) : Len(s) \in Nat /\ (s = Empty <=> Len(s) = 0)
  /\ \A n \in Nat : <<n>> \in Seq(Nat) /\ Len(<<n>>) = 1 /\ <<n>> # Empty
BY DEF Empty

-----------------------------------------------------------------------------

\* TypeOK by the party that changes the variables.
QueuesOK ==
  /\ in_fifo \in Seq(Nat) /\ Len(in_fifo) <= FIFO_SIZE
  /\ out_fifo \in Seq(Nat) /\ Len(out_fifo) <= FIFO_SIZE
UsersOK == user \in [Users -> {"idle", "wants bytes", "has bytes", "wants room", "has room"}]
DriverOK ==
  /\ isr \in {"off", "identified", "draining"}
  /\ tasklet \in {"off", "loop", "send"} /\ data \in Nat /\ copies \in 0..MaxCopies
UartOK ==
  /\ rbr \in Seq(Nat) /\ Len(rbr) <= RxDepth
  /\ thr \in Seq(Nat) /\ Len(thr) <= 1
  /\ tsr \in Seq(Nat) /\ Len(tsr) <= 1
FlagsOK == scheduled \in BOOLEAN /\ rxIrq \in BOOLEAN /\ threIrq \in BOOLEAN
CountsOK ==
  /\ arrived \in Nat /\ received \in Nat /\ lastReceived \in Nat /\ lost \in Nat
  /\ accepted \in Nat /\ sent \in Nat
\* The bound on how often uart_send writes its byte (see Shifts).
CopiesLeft == tasklet = "send" /\ tx_ready => copies < MaxCopies

Parts == QueuesOK /\ UsersOK /\ DriverOK /\ UartOK /\ FlagsOK /\ CountsOK /\ CopiesLeft

LEMMA InitType == Init => Parts
<1> SUFFICES ASSUME Init PROVE Parts
  OBVIOUS
<1>1. QueuesOK
  BY EmptyFacts, SizesAssumption DEF Init, QueuesOK
<1>2. UsersOK
  BY DEF Init, UsersOK
<1>3. DriverOK
  BY SizesAssumption DEF Init, DriverOK
<1>4. UartOK
  BY EmptyFacts, SizesAssumption DEF Init, UartOK
<1>5. FlagsOK
  BY DEF Init, FlagsOK
<1>6. CountsOK
  BY DEF Init, CountsOK
<1>7. CopiesLeft
  BY DEF Init, CopiesLeft
<1> QED
  BY <1>1, <1>2, <1>3, <1>4, <1>5, <1>6, <1>7 DEF Parts

LEMMA HardwareType ==
  ASSUME Parts, Arrives \/ Hardware
  PROVE  Parts'
<1>1. (QueuesOK /\ UsersOK)' /\ isr' = isr /\ tasklet' = tasklet /\ data' = data /\ copies' = copies
  BY DEF Arrives, Hardware, RaisesRx, Shifts, Transmits, queues, sending, Parts, QueuesOK, UsersOK
<1>2. DriverOK'
  BY <1>1 DEF Parts, DriverOK
<1>3. FlagsOK'
  BY DEF Arrives, Hardware, RaisesRx, Shifts, Transmits, sending, receiver, transmitter, Parts, FlagsOK
<1>8. CopiesLeft'
  BY <1>1 DEF Arrives, Hardware, RaisesRx, Shifts, Transmits, transmitter, tx_ready, Parts, CopiesLeft
<1>4. CASE Arrives
  <2>1. CountsOK'
    BY <1>4 DEF Arrives, outCounts, Parts, CountsOK
  <2>2. UartOK'
    BY <1>4, <2>1, AppendFacts, SizesAssumption DEF Arrives, transmitter, Parts, UartOK, CountsOK
  <2> QED
    BY <1>1, <1>2, <1>3, <1>8, <2>1, <2>2 DEF Parts
<1>5. CASE RaisesRx
  <2>1. CountsOK' /\ UartOK'
    BY <1>5 DEF RaisesRx, transmitter, inCounts, outCounts, Parts, CountsOK, UartOK
  <2> QED
    BY <1>1, <1>2, <1>3, <1>8, <2>1 DEF Parts
<1>6. CASE Shifts
  <2>1. CountsOK'
    BY <1>6 DEF Shifts, inCounts, outCounts, Parts, CountsOK
  <2>2. UartOK'
    BY <1>6, EmptyFacts DEF Shifts, receiver, Parts, UartOK
  <2> QED
    BY <1>1, <1>2, <1>3, <1>8, <2>1, <2>2 DEF Parts
<1>7. CASE Transmits
  <2>1. sent' \in Nat
    BY <1>7, TailFacts DEF Transmits, Parts, UartOK
  <2>2. CountsOK'
    BY <1>7, <2>1 DEF Transmits, inCounts, Parts, CountsOK
  <2>3. UartOK'
    BY <1>7, EmptyFacts DEF Transmits, receiver, Parts, UartOK
  <2> QED
    BY <1>1, <1>2, <1>3, <1>8, <2>2, <2>3 DEF Parts
<1> QED
  BY <1>4, <1>5, <1>6, <1>7 DEF Hardware

LEMMA HandlerType ==
  ASSUME Parts, Handler
  PROVE  Parts'
<1>1. CASE Identifies \/ FindsBytes \/ FindsNone \/ Returns
  <2>1. (QueuesOK /\ UsersOK /\ UartOK /\ CountsOK)'
    BY <1>1 DEF Identifies, FindsBytes, FindsNone, Returns, queues, receiver, transmitter, inCounts, outCounts,
                Parts, QueuesOK, UsersOK, UartOK, CountsOK
  <2>2. DriverOK'
    BY <1>1 DEF Identifies, FindsBytes, FindsNone, Returns, sending, Parts, DriverOK
  <2>3. FlagsOK'
    BY <1>1 DEF Identifies, FindsBytes, FindsNone, Returns, sending, receiver, transmitter, Parts, FlagsOK
  <2>4. CopiesLeft'
    BY <1>1 DEF Identifies, FindsBytes, FindsNone, Returns, sending, transmitter, tx_ready, Parts, CopiesLeft
  <2> QED
    BY <2>1, <2>2, <2>3, <2>4 DEF Parts
<1>2. CASE uart_received
  <2>1. rbr' = Tail(rbr) /\ Head(rbr) \in Nat /\ Tail(rbr) \in Seq(Nat) /\ Len(Tail(rbr)) = Len(rbr) - 1
        /\ Len(rbr) \in Nat
    BY <1>2, TailFacts DEF uart_received, rx_ready, Parts, UartOK
  <2>2. QueuesOK'
    <3>1. out_fifo' = out_fifo /\ Len(in_fifo) \in Nat
      BY <1>2 DEF uart_received, Parts, QueuesOK
    <3>2. CASE kfifo_is_full(in_fifo)
      BY <1>2, <3>1, <3>2 DEF uart_received, Parts, QueuesOK
    <3>3. CASE ~ kfifo_is_full(in_fifo)
      <4>1. in_fifo' = Append(in_fifo, Head(rbr))
        BY <1>2, <3>3 DEF uart_received
      <4>2. in_fifo' \in Seq(Nat) /\ Len(in_fifo') = Len(in_fifo) + 1
        BY <2>1, <4>1, AppendFacts DEF Parts, QueuesOK
      <4> QED
        BY <3>1, <3>3, <4>2, SizesAssumption DEF kfifo_is_full, Parts, QueuesOK
    <3> QED
      BY <3>2, <3>3
  <2>3. UsersOK'
    BY <1>2 DEF uart_received, wake_up_readable, wake_up, Parts, UsersOK
  <2>4. DriverOK'
    BY <1>2 DEF uart_received, sending, Parts, DriverOK
  <2>5. UartOK'
    BY <1>2, <2>1, SizesAssumption DEF uart_received, transmitter, Parts, UartOK
  <2>6. FlagsOK'
    BY <1>2 DEF uart_received, sending, transmitter, Parts, FlagsOK
  <2>7. CountsOK'
    BY <1>2 DEF uart_received, outCounts, Parts, CountsOK
  <2>8. CopiesLeft'
    BY <1>2 DEF uart_received, sending, transmitter, tx_ready, Parts, CopiesLeft
  <2> QED
    BY <2>2, <2>3, <2>4, <2>5, <2>6, <2>7, <2>8 DEF Parts
<1> QED
  BY <1>1, <1>2 DEF Handler

LEMMA TaskletType ==
  ASSUME Parts, Tasklet
  PROVE  Parts'
<1>1. CASE Starts \/ HasSent
  <2>1. (QueuesOK /\ UsersOK /\ UartOK /\ CountsOK)'
    BY <1>1 DEF Starts, HasSent, queues, receiver, transmitter, inCounts, outCounts,
                Parts, QueuesOK, UsersOK, UartOK, CountsOK
  <2>2. DriverOK'
    BY <1>1 DEF Starts, HasSent, Parts, DriverOK
  <2>3. FlagsOK'
    BY <1>1 DEF Starts, HasSent, receiver, transmitter, Parts, FlagsOK
  <2>4. CopiesLeft'
    BY <1>1 DEF Starts, HasSent, Parts, CopiesLeft
  <2> QED
    BY <2>1, <2>2, <2>3, <2>4 DEF Parts
<1>2. CASE TakesByte
  <2>1. /\ data' = Head(out_fifo) /\ out_fifo' = kfifo_rest(out_fifo, 1) /\ in_fifo' = in_fifo
        /\ out_fifo # Empty
    BY <1>2 DEF TakesByte
  <2>2. data' \in Nat /\ Len(out_fifo) \in Nat \ {0}
    BY <2>1, TailFacts DEF Parts, QueuesOK
  <2>3. out_fifo' \in Seq(Nat) /\ Len(out_fifo') = Len(out_fifo) - 1
    BY <2>1, <2>2, RestFacts DEF Parts, QueuesOK
  <2>4. QueuesOK'
    BY <2>1, <2>2, <2>3, SizesAssumption DEF Parts, QueuesOK
  <2>5. (UsersOK /\ UartOK /\ CountsOK)'
    BY <1>2 DEF TakesByte, receiver, transmitter, inCounts, outCounts, Parts, UsersOK, UartOK, CountsOK
  <2>6. DriverOK'
    BY <1>2, <2>2, SizesAssumption DEF TakesByte, Parts, DriverOK
  <2>7. FlagsOK'
    BY <1>2 DEF TakesByte, receiver, transmitter, Parts, FlagsOK
  <2>8. CopiesLeft'
    BY <1>2, SizesAssumption DEF TakesByte, CopiesLeft
  <2> QED
    BY <2>4, <2>5, <2>6, <2>7, <2>8 DEF Parts
<1>3. CASE Ends
  <2>1. (QueuesOK /\ UartOK /\ CountsOK)'
    BY <1>3 DEF Ends, queues, receiver, transmitter, inCounts, outCounts, Parts, QueuesOK, UartOK, CountsOK
  <2>2. UsersOK'
    BY <1>3 DEF Ends, WakesWriter, wake_up_writeable, wake_up, Parts, UsersOK
  <2>3. DriverOK'
    BY <1>3 DEF Ends, Parts, DriverOK
  <2>4. FlagsOK'
    BY <1>3 DEF Ends, receiver, transmitter, Parts, FlagsOK
  <2>5. CopiesLeft'
    BY <1>3 DEF Ends, CopiesLeft
  <2> QED
    BY <2>1, <2>2, <2>3, <2>4, <2>5 DEF Parts
<1>4. CASE uart_send
  <2>1. (QueuesOK /\ UsersOK /\ CountsOK)'
    BY <1>4 DEF uart_send, queues, inCounts, outCounts, Parts, QueuesOK, UsersOK, CountsOK
  <2>2. UartOK'
    BY <1>4, EmptyFacts DEF uart_send, receiver, Parts, UartOK, DriverOK
  <2>3. DriverOK'
    BY <1>4, SizesAssumption DEF uart_send, Parts, DriverOK, CopiesLeft
  <2>4. FlagsOK'
    BY <1>4 DEF uart_send, receiver, Parts, FlagsOK
  <2>5. CopiesLeft'
    BY <1>4, EmptyFacts DEF uart_send, tx_ready, CopiesLeft, Parts, DriverOK
  <2> QED
    BY <2>1, <2>2, <2>3, <2>4, <2>5 DEF Parts
<1> QED
  BY <1>1, <1>2, <1>3, <1>4 DEF Tasklet

\* What a copy leaves: k bytes go, or k bytes come.
LEMMA CopiesOutFacts ==
  ASSUME Parts, NEW count \in 1..FIFO_SIZE, in_fifo # Empty, CopiesOut(count)
  PROVE  \E k \in Nat \ {0} :
           /\ k <= Len(in_fifo) /\ Len(in_fifo) \in Nat
           /\ in_fifo' = kfifo_rest(in_fifo, k) /\ lastReceived' = in_fifo[k] /\ in_fifo[k] \in Nat
           /\ received' = received + k
           /\ in_fifo' \in Seq(Nat) /\ Len(in_fifo') = Len(in_fifo) - k
<1> DEFINE k == IF count < Len(in_fifo) THEN count ELSE Len(in_fifo)
<1>1. Len(in_fifo) \in Nat \ {0}
  BY TailFacts DEF Parts, QueuesOK
<1>2. k \in Nat \ {0} /\ k <= Len(in_fifo)
  BY <1>1, SizesAssumption
<1>3. in_fifo' = kfifo_rest(in_fifo, k) /\ lastReceived' = in_fifo[k] /\ received' = received + k
  BY DEF CopiesOut
<1> HIDE DEF k
<1>4. in_fifo' \in Seq(Nat) /\ Len(in_fifo') = Len(in_fifo) - k
  BY <1>2, <1>3, RestFacts DEF Parts, QueuesOK
<1>5. in_fifo[k] \in Nat
  BY <1>1, <1>2 DEF Parts, QueuesOK
<1> QED
  BY <1>1, <1>2, <1>3, <1>4, <1>5

LEMMA CopiesInFacts ==
  ASSUME Parts, NEW count \in 1..FIFO_SIZE, CopiesIn(count)
  PROVE  \E k \in Nat :
           /\ k <= FIFO_SIZE - Len(out_fifo) /\ Len(out_fifo) \in Nat
           /\ out_fifo' = out_fifo \o [i \in 1..k |-> accepted + i]
           /\ accepted' = accepted + k
           /\ out_fifo' \in Seq(Nat) /\ Len(out_fifo') = Len(out_fifo) + k
           /\ (~ kfifo_is_full(out_fifo) => k # 0)
<1> DEFINE room == FIFO_SIZE - Len(out_fifo)
           k == IF count < room THEN count ELSE room
<1>1. Len(out_fifo) \in Nat /\ room \in Nat /\ (~ kfifo_is_full(out_fifo) => room # 0)
  BY EmptyFacts, SizesAssumption DEF Parts, QueuesOK, kfifo_is_full
<1>2. k \in Nat /\ k <= room /\ (room # 0 => k # 0)
  BY <1>1, SizesAssumption
<1>3. out_fifo' = out_fifo \o [i \in 1..k |-> accepted + i] /\ accepted' = accepted + k
  BY DEF CopiesIn
<1> HIDE DEF k
<1>4. out_fifo' \in Seq(Nat) /\ Len(out_fifo') = Len(out_fifo) + k
  BY <1>2, <1>3, ConcatFacts DEF Parts, QueuesOK, CountsOK
<1> QED
  BY <1>1, <1>2, <1>3, <1>4

LEMMA UserType ==
  ASSUME Parts, NEW p \in Users, UserStep(p)
  PROVE  Parts'
<1>1. UsersOK'
  BY DEF UserStep, uart_read, uart_write, Resumes, ReadResumes, WriteResumes, Interrupted, Parts, UsersOK
<1>2. CASE UNCHANGED <<queues, isr, sending, receiver, transmitter, inCounts, outCounts>>
  <2>1. (QueuesOK /\ UartOK /\ CountsOK)'
    BY <1>2 DEF queues, receiver, transmitter, inCounts, outCounts, Parts, QueuesOK, UartOK, CountsOK
  <2>2. (DriverOK /\ CopiesLeft)'
    BY <1>2 DEF sending, transmitter, tx_ready, Parts, DriverOK, CopiesLeft
  <2>3. FlagsOK'
    BY <1>2 DEF sending, receiver, transmitter, Parts, FlagsOK
  <2> QED
    BY <1>1, <2>1, <2>2, <2>3 DEF Parts
<1>3. ASSUME NEW count \in 1..FIFO_SIZE, in_fifo # Empty, CopiesOut(count) PROVE Parts'
  <2>1. PICK k \in Nat \ {0} :
          /\ k <= Len(in_fifo) /\ Len(in_fifo) \in Nat
          /\ in_fifo' \in Seq(Nat) /\ Len(in_fifo') = Len(in_fifo) - k
          /\ lastReceived' \in Nat /\ received' = received + k
    BY <1>3, CopiesOutFacts
  <2>2. QueuesOK'
    BY <1>3, <2>1, SizesAssumption DEF CopiesOut, Parts, QueuesOK
  <2>3. CountsOK'
    BY <1>3, <2>1 DEF CopiesOut, outCounts, Parts, CountsOK
  <2>4. (UartOK /\ DriverOK /\ CopiesLeft)'
    BY <1>3 DEF CopiesOut, sending, receiver, transmitter, tx_ready, Parts, UartOK, DriverOK, CopiesLeft
  <2>5. FlagsOK'
    BY <1>3 DEF CopiesOut, sending, receiver, transmitter, Parts, FlagsOK
  <2> QED
    BY <1>1, <2>2, <2>3, <2>4, <2>5 DEF Parts
<1>4. ASSUME NEW count \in 1..FIFO_SIZE, CopiesIn(count) PROVE Parts'
  <2>1. PICK k \in Nat :
          /\ k <= FIFO_SIZE - Len(out_fifo) /\ Len(out_fifo) \in Nat /\ accepted' = accepted + k
          /\ out_fifo' \in Seq(Nat) /\ Len(out_fifo') = Len(out_fifo) + k
    BY <1>4, CopiesInFacts
  <2>2. QueuesOK'
    BY <1>4, <2>1, SizesAssumption DEF CopiesIn, Parts, QueuesOK
  <2>3. CountsOK'
    BY <1>4, <2>1 DEF CopiesIn, inCounts, Parts, CountsOK
  <2>4. (UartOK /\ DriverOK /\ CopiesLeft)'
    BY <1>4 DEF CopiesIn, receiver, transmitter, tx_ready, Parts, UartOK, DriverOK, CopiesLeft
  <2>5. FlagsOK'
    BY <1>4 DEF CopiesIn, receiver, transmitter, Parts, FlagsOK
  <2> QED
    BY <1>1, <2>2, <2>3, <2>4, <2>5 DEF Parts
<1> QED
  BY <1>2, <1>3, <1>4 DEF UserStep, uart_read, uart_write, Resumes, ReadResumes, WriteResumes, Interrupted

LEMMA StepType == Parts /\ [Next]_vars => Parts'
<1> SUFFICES ASSUME Parts, [Next]_vars PROVE Parts'
  OBVIOUS
<1>1. CASE UNCHANGED vars
  BY <1>1 DEF vars, queues, sending, receiver, transmitter, inCounts, outCounts, tx_ready,
              Parts, QueuesOK, UsersOK, DriverOK, UartOK, FlagsOK, CountsOK, CopiesLeft
<1> QED
  BY <1>1, HardwareType, HandlerType, TaskletType, UserType DEF Next

-----------------------------------------------------------------------------
(* The sleepers.                                                           *)

Sleep == LocksHold /\ SleepersHaveReason

LEMMA InitSleep == Init => Sleep
BY DEF Init, Sleep, LocksHold, Reading, Writing, SleepersHaveReason

\* A step that leaves in_fifo and the users alone, takes at most from out_fifo,
\* and lets the tasklet go on.
LEMMA QuietSleep ==
  ASSUME Parts, Parts', Sleep,
         user' = user, in_fifo' = in_fifo,
         out_fifo' = out_fifo \/ Len(out_fifo') < Len(out_fifo),
         tasklet # "off" => tasklet' # "off",
         out_fifo' # out_fifo => tasklet' # "off"
  PROVE  Sleep'
<1>1. LocksHold'
  BY DEF Sleep, LocksHold, Reading, Writing
<1>2. kfifo_is_full(out_fifo)' => kfifo_is_full(out_fifo)
  BY EmptyFacts, SizesAssumption DEF kfifo_is_full, Parts, QueuesOK
<1>3. SleepersHaveReason'
  BY <1>2 DEF Sleep, SleepersHaveReason
<1> QED
  BY <1>1, <1>3 DEF Sleep

LEMMA ReceivedSleep ==
  ASSUME Parts, Sleep, uart_received
  PROVE  Sleep'
<1>1. in_fifo' # Empty
  <2>1. CASE kfifo_is_full(in_fifo)
    BY <2>1, EmptyFacts, SizesAssumption DEF uart_received, kfifo_is_full
  <2>2. CASE ~ kfifo_is_full(in_fifo)
    <3>1. Head(rbr) \in Nat
      BY TailFacts DEF uart_received, rx_ready, Parts, UartOK
    <3> QED
      BY <2>2, <3>1, AppendFacts DEF uart_received, Parts, QueuesOK
  <2> QED
    BY <2>1, <2>2
<1>2. \A p \in Users : user'[p] = IF user[p] = "wants bytes" THEN "has bytes" ELSE user[p]
  <2>1. user' = [p \in Users |-> IF user[p] = "wants bytes" THEN "has bytes" ELSE user[p]]
    BY DEF uart_received, wake_up_readable, wake_up
  <2> QED
    BY <2>1
<1>3. out_fifo' = out_fifo /\ tasklet' = tasklet
  BY DEF uart_received, sending
<1>4. LocksHold'
  BY <1>2 DEF Sleep, LocksHold, Reading, Writing
<1>5. SleepersHaveReason'
  BY <1>1, <1>2, <1>3 DEF Sleep, SleepersHaveReason, kfifo_is_full
<1> QED
  BY <1>4, <1>5 DEF Sleep

LEMMA EndsSleep ==
  ASSUME Parts, Sleep, Ends
  PROVE  Sleep'
<1>1. in_fifo' = in_fifo /\ out_fifo' = out_fifo /\ tasklet' = "off"
  BY DEF Ends, queues
<1>2. \A p \in Users :
        user'[p] = IF user[p] = "wants room" /\ ~ kfifo_is_full(out_fifo) THEN "has room" ELSE user[p]
  <2>1. CASE kfifo_is_full(out_fifo)
    BY <2>1 DEF Ends, WakesWriter
  <2>2. CASE ~ kfifo_is_full(out_fifo)
    <3>1. user' = [p \in Users |-> IF user[p] = "wants room" THEN "has room" ELSE user[p]]
      BY <2>2 DEF Ends, WakesWriter, wake_up_writeable, wake_up
    <3> QED
      BY <2>2, <3>1
  <2> QED
    BY <2>1, <2>2
<1>3. LocksHold'
  BY <1>2 DEF Sleep, LocksHold, Reading, Writing
<1>4. SleepersHaveReason'
  BY <1>1, <1>2 DEF Sleep, SleepersHaveReason, kfifo_is_full
<1> QED
  BY <1>3, <1>4 DEF Sleep

\* What a process that reads or writes does to the other sleepers.
LEMMA UserSleep ==
  ASSUME Parts, Parts', Sleep, NEW p \in Users, UserStep(p)
  PROVE  Sleep'
<1>1. UsersOK
  BY DEF Parts
<1>2. CASE uart_read(p) \/ ReadResumes(p)
  <2>1. out_fifo' = out_fifo /\ tasklet' = tasklet
    BY <1>2 DEF uart_read, ReadResumes, CopiesOut, queues, sending
  <2>2. \A q \in Users : ~ Reading(q) \/ q = p
    BY <1>2 DEF uart_read, ReadResumes, Reading, Sleep, LocksHold
  <2>3. \A q \in Users \ {p} : user'[q] = user[q]
    BY <1>1, <1>2 DEF uart_read, ReadResumes, UsersOK
  <2>4. user'[p] = "idle" \/ (user'[p] = "wants bytes" /\ in_fifo' = Empty)
    BY <1>1, <1>2 DEF uart_read, ReadResumes, UsersOK, queues
  <2>5. LocksHold'
    BY <2>2, <2>3, <2>4 DEF Sleep, LocksHold, Reading, Writing
  <2>6. SleepersHaveReason'
    BY <2>1, <2>2, <2>3, <2>4 DEF Sleep, SleepersHaveReason, Reading, kfifo_is_full
  <2> QED
    BY <2>5, <2>6 DEF Sleep
<1>3. CASE uart_write(p) \/ WriteResumes(p)
  <2>1. in_fifo' = in_fifo /\ tasklet' = tasklet
    BY <1>3 DEF uart_write, WriteResumes, CopiesIn, queues, sending
  <2>2. \A q \in Users : ~ Writing(q) \/ q = p
    BY <1>3 DEF uart_write, WriteResumes, Writing, Sleep, LocksHold
  <2>3. \A q \in Users \ {p} : user'[q] = user[q]
    BY <1>1, <1>3 DEF uart_write, WriteResumes, UsersOK
  <2>4. user'[p] = "idle" \/ (user'[p] = "wants room" /\ kfifo_is_full(out_fifo)')
    BY <1>1, <1>3 DEF uart_write, WriteResumes, UsersOK, queues, kfifo_is_full
  <2>5. LocksHold'
    BY <2>2, <2>3, <2>4 DEF Sleep, LocksHold, Reading, Writing
  <2>6. SleepersHaveReason'
    BY <2>1, <2>2, <2>3, <2>4 DEF Sleep, SleepersHaveReason, Writing
  <2> QED
    BY <2>5, <2>6 DEF Sleep
<1>4. CASE Interrupted(p)
  <2>1. in_fifo' = in_fifo /\ out_fifo' = out_fifo /\ tasklet' = tasklet
    BY <1>4 DEF Interrupted, queues, sending
  <2>2. user'[p] = "idle" /\ \A q \in Users \ {p} : user'[q] = user[q]
    BY <1>1, <1>4 DEF Interrupted, UsersOK
  <2>3. LocksHold'
    BY <2>2 DEF Sleep, LocksHold, Reading, Writing
  <2>4. SleepersHaveReason'
    BY <2>1, <2>2 DEF Sleep, SleepersHaveReason, kfifo_is_full
  <2> QED
    BY <2>3, <2>4 DEF Sleep
<1> QED
  BY <1>2, <1>3, <1>4 DEF UserStep, Resumes

LEMMA StepSleep == Parts /\ Parts' /\ Sleep /\ [Next]_vars => Sleep'
<1> SUFFICES ASSUME Parts, Parts', Sleep, [Next]_vars PROVE Sleep'
  OBVIOUS
<1>1. CASE Arrives \/ Hardware \/ UNCHANGED vars
  BY <1>1, QuietSleep DEF Arrives, Hardware, RaisesRx, Shifts, Transmits, vars, queues, sending
<1>2. CASE Identifies \/ FindsBytes \/ FindsNone \/ Returns
  BY <1>2, QuietSleep DEF Identifies, FindsBytes, FindsNone, Returns, queues, sending
<1>3. CASE Starts \/ HasSent \/ uart_send
  BY <1>3, QuietSleep DEF Starts, HasSent, uart_send, queues
<1>4. CASE TakesByte
  <2>1. out_fifo' = kfifo_rest(out_fifo, 1) /\ Len(out_fifo) \in Nat \ {0}
    BY <1>4, TailFacts DEF TakesByte, Parts, QueuesOK
  <2>2. 1 \in Nat /\ 1 <= Len(out_fifo) /\ out_fifo \in Seq(Nat)
    BY <2>1 DEF Parts, QueuesOK
  <2>3. Len(out_fifo') = Len(out_fifo) - 1
    BY <2>1, <2>2, RestFacts
  <2>4. Len(out_fifo') < Len(out_fifo)
    BY <2>1, <2>3
  <2> QED
    BY <1>4, <2>4, QuietSleep DEF TakesByte
<1>5. CASE \E p \in Users : UserStep(p)
  BY <1>5, UserSleep
<1> QED
  BY <1>1, <1>2, <1>3, <1>4, <1>5, ReceivedSleep, EndsSleep DEF Next, Handler, Tasklet

-----------------------------------------------------------------------------

\* What every step of the driver keeps.
IInv == Parts /\ Sleep

\* The inductive invariant: every value is of its type, each lock has one holder
\* at most, and whoever sleeps has a reason.
THEOREM DriverInvariant == Spec => []IInv
<1>1. Init => IInv
  BY InitType, InitSleep DEF IInv
<1>2. IInv /\ [Next]_vars => IInv'
  BY StepType, StepSleep DEF IInv
<1> QED
  BY <1>1, <1>2, PTL DEF Spec

\* Neither queue of the driver overflows, the UART's registers hold one byte each,
\* and uart_send's byte, handler and users are always somewhere in their calls.
THEOREM TypeCorrect == Spec => []TypeOK
<1>1. IInv => TypeOK
  BY DEF IInv, Parts, QueuesOK, UsersOK, DriverOK, UartOK, FlagsOK, CountsOK, TypeOK
<1> QED
  BY <1>1, DriverInvariant, PTL

\* Nobody sleeps in uart_read or uart_write for no reason, and who was woken finds
\* what it was woken for, in any order of handler, tasklet and users.
THEOREM SleepersCorrect == Spec => []SleepersHaveReason
<1>1. IInv => SleepersHaveReason
  BY DEF IInv, Sleep
<1> QED
  BY <1>1, DriverInvariant, PTL

-----------------------------------------------------------------------------
(***************************************************************************)
(* The order of bytes.  The driver keeps it in both directions; a property *)
(* about the whole path of a byte is proved from an invariant about its    *)
(* parts.                                                                  *)
(***************************************************************************)

(* The elements of a queue.                                                *)

LEMMA AppendElements ==
  ASSUME NEW s \in Seq(Nat), NEW n \in Nat
  PROVE  \A i \in 1..Len(s) + 1 : Append(s, n)[i] = IF i = Len(s) + 1 THEN n ELSE s[i]
OBVIOUS

LEMMA TailElements ==
  ASSUME NEW s \in Seq(Nat), s # Empty
  PROVE  Head(s) = s[1] /\ \A i \in 1..Len(s) - 1 : Tail(s)[i] = s[i + 1]
BY DEF Empty

LEMMA RestElements ==
  ASSUME NEW s \in Seq(Nat), NEW k \in Nat, k <= Len(s)
  PROVE  \A i \in 1..Len(s) - k : kfifo_rest(s, k)[i] = s[k + i]
BY DEF kfifo_rest

LEMMA ConcatElements ==
  ASSUME NEW s \in Seq(Nat), NEW t \in Seq(Nat)
  PROVE  /\ s \o t \in Seq(Nat) /\ Len(s \o t) = Len(s) + Len(t)
         /\ \A i \in 1..Len(s) : (s \o t)[i] = s[i]
         /\ \A i \in 1..Len(t) : (s \o t)[Len(s) + i] = t[i]
OBVIOUS

LEMMA CopiedElements ==
  ASSUME NEW k \in Nat, NEW a \in Nat
  PROVE  LET r == [i \in 1..k |-> a + i]
         IN r \in Seq(Nat) /\ Len(r) = k /\ \A i \in 1..k : r[i] = a + i
OBVIOUS

-----------------------------------------------------------------------------
(* Bytes from the line.                                                    *)

Rising(s) == \A i, j \in 1..Len(s) : i < j => s[i] < s[j]
Between(a, s, b) == \A i \in 1..Len(s) : a < s[i] /\ s[i] <= b

\* ReceivedInOrder by the places a byte is in.
ReceiverOrder ==
  /\ Rising(in_fifo) /\ Rising(rbr)
  /\ Between(lastReceived, in_fifo, arrived) /\ Between(lastReceived, rbr, arrived)
  /\ \A i \in 1..Len(in_fifo), j \in 1..Len(rbr) : in_fifo[i] < rbr[j]
  /\ lastReceived <= arrived
Balance == received + Len(in_fifo) + Len(rbr) + lost = arrived

LEMMA InitReceiver == Init => ReceiverOrder /\ Balance
<1> SUFFICES ASSUME Init PROVE ReceiverOrder /\ Balance
  OBVIOUS
<1>1. Len(in_fifo) = 0 /\ Len(rbr) = 0
  BY EmptyFacts DEF Init
<1> QED
  BY <1>1 DEF Init, ReceiverOrder, Balance, Rising, Between

LEMMA ArrivesReceiver ==
  ASSUME Parts, ReceiverOrder, Balance, Arrives
  PROVE  ReceiverOrder' /\ Balance'
<1>1. /\ arrived' = arrived + 1 /\ rbr' = Append(rbr, arrived + 1)
      /\ in_fifo' = in_fifo /\ lastReceived' = lastReceived /\ received' = received /\ lost' = lost
  BY DEF Arrives, queues
<1>2. /\ arrived \in Nat /\ lastReceived \in Nat /\ lost \in Nat /\ received \in Nat
      /\ Len(rbr) \in Nat /\ Len(in_fifo) \in Nat
      /\ \A i \in 1..Len(rbr) : rbr[i] \in Nat
      /\ \A i \in 1..Len(in_fifo) : in_fifo[i] \in Nat
  BY DEF Parts, CountsOK, UartOK, QueuesOK
<1>3. /\ Len(rbr') = Len(rbr) + 1
      /\ \A i \in 1..Len(rbr) + 1 : rbr'[i] = IF i = Len(rbr) + 1 THEN arrived + 1 ELSE rbr[i]
  BY <1>1, <1>2, AppendFacts, AppendElements DEF Parts, UartOK
<1>4. Rising(in_fifo)' /\ Between(lastReceived, in_fifo, arrived)' /\ (lastReceived <= arrived)'
  BY <1>1, <1>2 DEF ReceiverOrder, Rising, Between
<1>5. Rising(rbr)'
  <2>1. SUFFICES ASSUME NEW i \in 1..Len(rbr'), NEW j \in 1..Len(rbr'), i < j PROVE rbr'[i] < rbr'[j]
    BY DEF Rising
  <2>2. i \in 1..Len(rbr) /\ rbr'[i] = rbr[i]
    BY <1>2, <1>3, <2>1
  <2>3. CASE j = Len(rbr) + 1
    <3>1. rbr'[j] = arrived + 1 /\ rbr[i] <= arrived /\ rbr[i] \in Nat
      BY <1>2, <1>3, <2>2, <2>3 DEF ReceiverOrder, Between
    <3> QED
      BY <1>2, <2>2, <3>1
  <2>4. CASE j # Len(rbr) + 1
    <3>1. j \in 1..Len(rbr) /\ rbr'[j] = rbr[j]
      BY <1>2, <1>3, <2>4
    <3> QED
      BY <2>1, <2>2, <3>1 DEF ReceiverOrder, Rising
  <2> QED
    BY <2>3, <2>4
<1>6. Between(lastReceived, rbr, arrived)'
  BY <1>1, <1>2, <1>3 DEF ReceiverOrder, Between
<1>7. (\A i \in 1..Len(in_fifo), j \in 1..Len(rbr) : in_fifo[i] < rbr[j])'
  BY <1>1, <1>2, <1>3 DEF ReceiverOrder, Between
<1>8. Balance'
  BY <1>1, <1>2, <1>3 DEF Balance
<1> QED
  BY <1>4, <1>5, <1>6, <1>7, <1>8 DEF ReceiverOrder

LEMMA ReceivedReceiver ==
  ASSUME Parts, ReceiverOrder, Balance, uart_received
  PROVE  ReceiverOrder' /\ Balance'
<1>1. /\ rbr' = Tail(rbr) /\ rbr # Empty /\ arrived' = arrived
      /\ lastReceived' = lastReceived /\ received' = received
  BY DEF uart_received, rx_ready
<1>2. /\ arrived \in Nat /\ lastReceived \in Nat /\ lost \in Nat /\ received \in Nat
      /\ Len(rbr) \in Nat \ {0} /\ Len(in_fifo) \in Nat
      /\ \A i \in 1..Len(rbr) : rbr[i] \in Nat
      /\ \A i \in 1..Len(in_fifo) : in_fifo[i] \in Nat
  BY <1>1, TailFacts DEF Parts, CountsOK, UartOK, QueuesOK
<1>3. /\ Len(rbr') = Len(rbr) - 1 /\ \A i \in 1..Len(rbr) - 1 : rbr'[i] = rbr[i + 1]
      /\ Head(rbr) = rbr[1]
  BY <1>1, TailFacts, TailElements DEF Parts, UartOK
<1>4. Rising(rbr)'
  <2>1. SUFFICES ASSUME NEW i \in 1..Len(rbr'), NEW j \in 1..Len(rbr'), i < j PROVE rbr'[i] < rbr'[j]
    BY DEF Rising
  <2>2. /\ i + 1 \in 1..Len(rbr) /\ j + 1 \in 1..Len(rbr) /\ i + 1 < j + 1
        /\ rbr'[i] = rbr[i + 1] /\ rbr'[j] = rbr[j + 1]
    BY <1>2, <1>3, <2>1
  <2> QED
    BY <2>2 DEF ReceiverOrder, Rising
<1>5. Between(lastReceived, rbr, arrived)' /\ (lastReceived <= arrived)'
  BY <1>1, <1>2, <1>3 DEF ReceiverOrder, Between
<1>6. CASE kfifo_is_full(in_fifo)
  <2>1. in_fifo' = in_fifo /\ lost' = lost + 1
    BY <1>6 DEF uart_received
  <2>2. Rising(in_fifo)' /\ Between(lastReceived, in_fifo, arrived)'
    BY <1>1, <2>1 DEF ReceiverOrder, Rising, Between
  <2>3. ASSUME NEW i \in 1..Len(in_fifo'), NEW j \in 1..Len(rbr') PROVE in_fifo'[i] < rbr'[j]
    <3>1. j + 1 \in 1..Len(rbr) /\ rbr'[j] = rbr[j + 1]
      BY <1>2, <1>3
    <3> QED
      BY <2>1, <3>1 DEF ReceiverOrder
  <2>4. Balance'
    BY <1>1, <1>2, <1>3, <2>1 DEF Balance
  <2> QED
    BY <1>4, <1>5, <2>2, <2>3, <2>4 DEF ReceiverOrder
<1>7. CASE ~ kfifo_is_full(in_fifo)
  <2>1. in_fifo' = Append(in_fifo, rbr[1]) /\ lost' = lost
    BY <1>3, <1>7 DEF uart_received
  <2>2. rbr[1] \in Nat /\ in_fifo \in Seq(Nat)
    BY <1>2 DEF Parts, QueuesOK
  <2>3. /\ Len(in_fifo') = Len(in_fifo) + 1
        /\ \A i \in 1..Len(in_fifo) + 1 : in_fifo'[i] = IF i = Len(in_fifo) + 1 THEN rbr[1] ELSE in_fifo[i]
    BY <2>1, <2>2, AppendFacts, AppendElements
  <2>4. Rising(in_fifo)'
    <3>1. SUFFICES ASSUME NEW i \in 1..Len(in_fifo'), NEW j \in 1..Len(in_fifo'), i < j
                   PROVE  in_fifo'[i] < in_fifo'[j]
      BY DEF Rising
    <3>2. i \in 1..Len(in_fifo) /\ in_fifo'[i] = in_fifo[i]
      BY <1>2, <2>3, <3>1
    <3>3. CASE j = Len(in_fifo) + 1
      <4>1. in_fifo'[j] = rbr[1] /\ 1 \in 1..Len(rbr)
        BY <1>2, <2>3, <3>3
      <4> QED
        BY <3>2, <4>1 DEF ReceiverOrder
    <3>4. CASE j # Len(in_fifo) + 1
      <4>1. j \in 1..Len(in_fifo) /\ in_fifo'[j] = in_fifo[j]
        BY <1>2, <2>3, <3>4
      <4> QED
        BY <3>1, <3>2, <4>1 DEF ReceiverOrder, Rising
    <3> QED
      BY <3>3, <3>4
  <2>5. Between(lastReceived, in_fifo, arrived)'
    BY <1>1, <1>2, <2>3 DEF ReceiverOrder, Between
  <2>6. ASSUME NEW i \in 1..Len(in_fifo'), NEW j \in 1..Len(rbr') PROVE in_fifo'[i] < rbr'[j]
    <3>1. j + 1 \in 1..Len(rbr) /\ 1 \in 1..Len(rbr) /\ 1 < j + 1 /\ rbr'[j] = rbr[j + 1]
      BY <1>2, <1>3
    <3>2. CASE i = Len(in_fifo) + 1
      BY <2>3, <3>1, <3>2 DEF ReceiverOrder, Rising
    <3>3. CASE i # Len(in_fifo) + 1
      <4>1. i \in 1..Len(in_fifo) /\ in_fifo'[i] = in_fifo[i]
        BY <1>2, <2>3, <3>3
      <4> QED
        BY <3>1, <4>1 DEF ReceiverOrder
    <3> QED
      BY <3>2, <3>3
  <2>7. Balance'
    BY <1>1, <1>2, <1>3, <2>1, <2>3 DEF Balance
  <2> QED
    BY <1>4, <1>5, <2>4, <2>5, <2>6, <2>7 DEF ReceiverOrder
<1> QED
  BY <1>6, <1>7

LEMMA ReadReceiver ==
  ASSUME Parts, ReceiverOrder, Balance, NEW count \in 1..FIFO_SIZE, in_fifo # Empty, CopiesOut(count)
  PROVE  ReceiverOrder' /\ Balance'
<1>1. rbr' = rbr /\ arrived' = arrived /\ lost' = lost
  BY DEF CopiesOut, receiver
<1>2. /\ arrived \in Nat /\ lastReceived \in Nat /\ lost \in Nat /\ received \in Nat /\ Len(rbr) \in Nat
      /\ \A i \in 1..Len(rbr) : rbr[i] \in Nat
      /\ \A i \in 1..Len(in_fifo) : in_fifo[i] \in Nat
      /\ in_fifo \in Seq(Nat)
  BY DEF Parts, CountsOK, UartOK, QueuesOK
<1>3. PICK k \in Nat \ {0} :
        /\ k <= Len(in_fifo) /\ Len(in_fifo) \in Nat
        /\ in_fifo' = kfifo_rest(in_fifo, k) /\ lastReceived' = in_fifo[k]
        /\ received' = received + k /\ Len(in_fifo') = Len(in_fifo) - k
  BY CopiesOutFacts
<1>4. \A i \in 1..Len(in_fifo) - k : in_fifo'[i] = in_fifo[k + i]
  BY <1>2, <1>3, RestElements
<1>5. Rising(rbr)'
  BY <1>1 DEF ReceiverOrder, Rising
<1>6. \A i \in 1..Len(in_fifo') : k + i \in 1..Len(in_fifo) /\ in_fifo'[i] = in_fifo[k + i]
  BY <1>3, <1>4
<1>7. k \in 1..Len(in_fifo)
  BY <1>3
<1>8. Rising(in_fifo)'
  <2>1. SUFFICES ASSUME NEW i \in 1..Len(in_fifo'), NEW j \in 1..Len(in_fifo'), i < j
                 PROVE  in_fifo'[i] < in_fifo'[j]
    BY DEF Rising
  <2>2. k + i < k + j
    BY <1>3, <2>1
  <2> QED
    BY <1>6, <2>2 DEF ReceiverOrder, Rising
<1>9. Between(lastReceived, in_fifo, arrived)' /\ (lastReceived <= arrived)'
  <2>1. (lastReceived <= arrived)'
    BY <1>1, <1>3, <1>7 DEF ReceiverOrder, Between
  <2>2. ASSUME NEW i \in 1..Len(in_fifo') PROVE lastReceived' < in_fifo'[i] /\ in_fifo'[i] <= arrived'
    <3>1. k < k + i
      BY <1>3
    <3> QED
      BY <1>1, <1>3, <1>6, <1>7, <3>1 DEF ReceiverOrder, Rising, Between
  <2> QED
    BY <2>1, <2>2 DEF Between
<1>10. Between(lastReceived, rbr, arrived)'
  BY <1>1, <1>2, <1>3, <1>7 DEF ReceiverOrder, Between
<1>11. (\A i \in 1..Len(in_fifo), j \in 1..Len(rbr) : in_fifo[i] < rbr[j])'
  BY <1>1, <1>6 DEF ReceiverOrder
<1>12. Balance'
  BY <1>1, <1>2, <1>3 DEF Balance
<1> QED
  BY <1>5, <1>8, <1>9, <1>10, <1>11, <1>12 DEF ReceiverOrder

LEMMA StepReceiver == Parts /\ ReceiverOrder /\ Balance /\ [Next]_vars => ReceiverOrder' /\ Balance'
<1> SUFFICES ASSUME Parts, ReceiverOrder, Balance, [Next]_vars PROVE ReceiverOrder' /\ Balance'
  OBVIOUS
<1>1. CASE in_fifo' = in_fifo /\ rbr' = rbr /\ UNCHANGED inCounts
  BY <1>1 DEF inCounts, ReceiverOrder, Balance, Rising, Between
<1>2. CASE Hardware \/ UNCHANGED vars
  BY <1>1, <1>2 DEF Hardware, RaisesRx, Shifts, Transmits, vars, queues, receiver, inCounts
<1>3. CASE Identifies \/ FindsBytes \/ FindsNone \/ Returns
  BY <1>1, <1>3 DEF Identifies, FindsBytes, FindsNone, Returns, queues, receiver
<1>4. CASE Tasklet
  BY <1>1, <1>4 DEF Tasklet, Starts, TakesByte, uart_send, HasSent, Ends, queues, receiver
<1>5. ASSUME NEW p \in Users, UserStep(p) PROVE ReceiverOrder' /\ Balance'
  <2>1. CASE \E count \in 1..FIFO_SIZE : in_fifo # Empty /\ CopiesOut(count)
    BY <2>1, ReadReceiver
  <2>2. CASE ~ \E count \in 1..FIFO_SIZE : in_fifo # Empty /\ CopiesOut(count)
    BY <1>1, <1>5, <2>2 DEF UserStep, uart_read, uart_write, Resumes, ReadResumes, WriteResumes, Interrupted,
                            CopiesIn, queues, receiver
  <2> QED
    BY <2>1, <2>2
<1> QED
  BY <1>2, <1>3, <1>4, <1>5, ArrivesReceiver, ReceivedReceiver DEF Next, Handler

\* The whole path from what was read last to what arrived last.
LEMMA ReceiverPath == Parts /\ ReceiverOrder /\ Balance => ReceivedInOrder
<1> SUFFICES ASSUME Parts, ReceiverOrder, Balance PROVE ReceivedInOrder
  OBVIOUS
<1> DEFINE first == <<lastReceived>>
           front == first \o in_fifo
           path == front \o rbr
<1>1. /\ lastReceived \in Nat /\ arrived \in Nat /\ in_fifo \in Seq(Nat) /\ rbr \in Seq(Nat)
      /\ Len(in_fifo) \in Nat /\ Len(rbr) \in Nat
  BY DEF Parts, CountsOK, UartOK, QueuesOK
<1>2. first \in Seq(Nat) /\ Len(first) = 1 /\ first[1] = lastReceived
  BY <1>1
<1> HIDE DEF first
<1>3. /\ front \in Seq(Nat) /\ Len(front) = Len(in_fifo) + 1 /\ front[1] = lastReceived
      /\ \A i \in 1..Len(in_fifo) : front[i + 1] = in_fifo[i]
  <2>1. /\ front \in Seq(Nat) /\ Len(front) = Len(first) + Len(in_fifo)
        /\ \A i \in 1..Len(first) : front[i] = first[i]
        /\ \A i \in 1..Len(in_fifo) : front[Len(first) + i] = in_fifo[i]
    BY <1>1, <1>2, ConcatElements
  <2>2. 1 \in 1..Len(first) /\ \A i \in 1..Len(in_fifo) : i + 1 = Len(first) + i
    BY <1>2
  <2> QED
    BY <1>1, <1>2, <2>1, <2>2
<1> HIDE DEF front
<1>4. /\ Len(path) = Len(in_fifo) + 1 + Len(rbr) /\ path[1] = lastReceived
      /\ \A i \in 1..Len(in_fifo) : path[i + 1] = in_fifo[i]
      /\ \A i \in 1..Len(rbr) : path[Len(in_fifo) + 1 + i] = rbr[i]
  <2>1. /\ Len(path) = Len(front) + Len(rbr)
        /\ \A i \in 1..Len(front) : path[i] = front[i]
        /\ \A i \in 1..Len(rbr) : path[Len(front) + i] = rbr[i]
    BY <1>1, <1>3, ConcatElements
  <2>2. 1 \in 1..Len(front) /\ \A i \in 1..Len(in_fifo) : i + 1 \in 1..Len(front)
    BY <1>1, <1>3
  <2> QED
    BY <1>1, <1>3, <2>1, <2>2
<1> HIDE DEF path
<1>5. ASSUME NEW i \in 1..Len(path) - 1 PROVE path[i] < path[i + 1]
  <2>1. CASE i <= Len(in_fifo)
    <3>1. i \in 1..Len(in_fifo) /\ path[i + 1] = in_fifo[i]
      BY <1>1, <1>4, <2>1
    <3>2. CASE i = 1
      BY <1>4, <3>1, <3>2 DEF ReceiverOrder, Between
    <3>3. CASE i # 1
      <4>1. i - 1 \in 1..Len(in_fifo) /\ (i - 1) + 1 = i /\ i - 1 < i
        BY <1>1, <3>1, <3>3
      <4>2. path[i] = in_fifo[i - 1]
        BY <1>4, <4>1
      <4> QED
        BY <3>1, <4>1, <4>2 DEF ReceiverOrder, Rising
    <3> QED
      BY <3>2, <3>3
  <2>2. CASE i > Len(in_fifo)
    <3> DEFINE j == i - Len(in_fifo)
    <3>1. j \in 1..Len(rbr) /\ Len(in_fifo) + 1 + j = i + 1
      BY <1>1, <1>4, <2>2
    <3>2. path[i + 1] = rbr[j]
      BY <1>4, <3>1
    <3>3. CASE j # 1
      <4>1. j - 1 \in 1..Len(rbr) /\ Len(in_fifo) + 1 + (j - 1) = i /\ j - 1 < j
        BY <1>1, <3>1, <3>3
      <4>2. path[i] = rbr[j - 1]
        BY <1>4, <4>1
      <4> QED
        BY <3>1, <3>2, <4>1, <4>2 DEF ReceiverOrder, Rising
    <3>4. CASE j = 1 /\ Len(in_fifo) = 0
      BY <1>1, <1>4, <3>1, <3>2, <3>4 DEF ReceiverOrder, Between
    <3>5. CASE j = 1 /\ Len(in_fifo) # 0
      <4>1. Len(in_fifo) \in 1..Len(in_fifo) /\ i = Len(in_fifo) + 1
        BY <1>1, <3>5
      <4>2. path[i] = in_fifo[Len(in_fifo)]
        BY <1>4, <4>1
      <4> QED
        BY <3>1, <3>2, <4>1, <4>2 DEF ReceiverOrder
    <3> QED
      BY <3>3, <3>4, <3>5
  <2> QED
    BY <1>1, <2>1, <2>2
<1>6. path[Len(path)] <= arrived
  <2>1. CASE Len(rbr) # 0
    <3>1. Len(rbr) \in 1..Len(rbr)
      BY <1>1, <2>1
    <3> QED
      BY <1>4, <3>1 DEF ReceiverOrder, Between
  <2>2. CASE Len(rbr) = 0 /\ Len(in_fifo) # 0
    <3>1. Len(in_fifo) \in 1..Len(in_fifo) /\ Len(path) = Len(in_fifo) + 1
      BY <1>1, <1>4, <2>2
    <3> QED
      BY <1>4, <3>1 DEF ReceiverOrder, Between
  <2>3. CASE Len(rbr) = 0 /\ Len(in_fifo) = 0
    BY <1>4, <2>3 DEF ReceiverOrder
  <2> QED
    BY <2>1, <2>2, <2>3
<1> QED
  BY <1>5, <1>6 DEF path, front, first, ReceivedInOrder, Balance

-----------------------------------------------------------------------------
(* Bytes to the line.                                                      *)

\* The last byte at or beyond each place on the way: shift register, holding
\* register, tasklet.
Shifted == IF tsr = Empty THEN sent ELSE tsr[1]
Held == IF thr = Empty THEN Shifted ELSE thr[1]
Taken == IF tasklet = "send" THEN data ELSE Held

\* SentInOrder by the places a byte is in; and what uart_send has written is its byte.
SenderOrder ==
  /\ Shifted \in {sent, sent + 1} /\ Held \in {Shifted, Shifted + 1} /\ Taken \in {Held, Held + 1}
  /\ \A i \in 1..Len(out_fifo) : out_fifo[i] = Taken + i
  /\ Taken + Len(out_fifo) = accepted
  /\ tasklet = "send" /\ thr # Empty => thr[1] = data

LEMMA PlacesType ==
  ASSUME Parts
  PROVE  Shifted \in Nat /\ Held \in Nat /\ Taken \in Nat /\ sent \in Nat
<1>1. ASSUME NEW s \in Seq(Nat), s # Empty PROVE s[1] \in Nat
  BY <1>1 DEF Empty
<1> QED
  BY <1>1 DEF Parts, UartOK, DriverOK, CountsOK, Shifted, Held, Taken

LEMMA InitSender == Init => SenderOrder
<1> SUFFICES ASSUME Init PROVE SenderOrder
  OBVIOUS
<1>1. Len(out_fifo) = 0
  BY EmptyFacts DEF Init
<1> QED
  BY <1>1 DEF Init, SenderOrder, Shifted, Held, Taken

\* A step that leaves every place on the way and the queue as they are.
LEMMA QuietSender ==
  ASSUME SenderOrder, tsr' = tsr, thr' = thr, tasklet' = tasklet, data' = data, out_fifo' = out_fifo,
         UNCHANGED outCounts
  PROVE  SenderOrder'
BY DEF SenderOrder, outCounts, Shifted, Held, Taken

LEMMA UartSender ==
  ASSUME Parts, SenderOrder, Shifts \/ Transmits
  PROVE  SenderOrder'
<1>1. tasklet' = tasklet /\ data' = data /\ out_fifo' = out_fifo /\ accepted' = accepted
  BY DEF Shifts, Transmits, sending, queues, outCounts
<1>2. CASE Shifts
  <2>1. /\ thr # Empty /\ tsr = Empty /\ thr' = Empty /\ tsr' = thr /\ sent' = sent
    BY <1>2 DEF Shifts, outCounts
  <2>2. Shifted = sent /\ Held = thr[1] /\ Shifted' = Held /\ Held' = Held /\ Taken' = Taken
    BY <1>1, <2>1 DEF Shifted, Held, Taken
  <2> QED
    BY <1>1, <2>1, <2>2 DEF SenderOrder
<1>3. CASE Transmits
  <2>1. tsr # Empty /\ sent' = Head(tsr) /\ tsr' = Empty /\ thr' = thr
    BY <1>3 DEF Transmits
  <2>2. Head(tsr) = tsr[1]
    BY <2>1, TailElements DEF Parts, UartOK
  <2>3. Shifted' = sent' /\ sent' = Shifted /\ Held' = Held /\ Taken' = Taken
    BY <1>1, <2>1, <2>2 DEF Shifted, Held, Taken
  <2> QED
    BY <1>1, <2>1, <2>3 DEF SenderOrder
<1> QED
  BY <1>2, <1>3

LEMMA TaskletSender ==
  ASSUME Parts, SenderOrder, TakesByte \/ uart_send \/ HasSent
  PROVE  SenderOrder'
<1>1. tsr' = tsr /\ sent' = sent /\ accepted' = accepted /\ Shifted' = Shifted
  BY DEF TakesByte, uart_send, HasSent, transmitter, outCounts, Shifted
<1>2. CASE TakesByte
  <2>1. /\ tasklet = "loop" /\ tasklet' = "send" /\ thr = Empty /\ thr' = Empty
        /\ out_fifo # Empty /\ data' = Head(out_fifo) /\ out_fifo' = kfifo_rest(out_fifo, 1)
    BY <1>2 DEF TakesByte, transmitter, tx_ready
  <2>2. Head(out_fifo) = out_fifo[1] /\ out_fifo \in Seq(Nat) /\ Len(out_fifo) \in Nat \ {0}
    BY <2>1, TailFacts, TailElements DEF Parts, QueuesOK
  <2>3. 1 \in Nat /\ 1 <= Len(out_fifo) /\ 1 \in 1..Len(out_fifo)
    BY <2>2
  <2>4. /\ Len(out_fifo') = Len(out_fifo) - 1
        /\ \A i \in 1..Len(out_fifo) - 1 : out_fifo'[i] = out_fifo[1 + i]
    BY <2>1, <2>2, <2>3, RestFacts, RestElements
  <2>5. Taken = Held /\ Held' = Held /\ Taken' = data' /\ data' = Taken + 1
    BY <1>1, <2>1, <2>2, <2>3 DEF Held, Taken, SenderOrder
  <2>6. ASSUME NEW i \in 1..Len(out_fifo') PROVE out_fifo'[i] = Taken' + i
    <3>1. 1 + i \in 1..Len(out_fifo) /\ out_fifo'[i] = out_fifo[1 + i]
      BY <2>2, <2>4
    <3>2. out_fifo[1 + i] = Taken + (1 + i)
      BY <3>1 DEF SenderOrder
    <3> QED
      BY <2>5, <3>1, <3>2, PlacesType
  <2>7. Taken' + Len(out_fifo') = accepted'
    BY <1>1, <2>2, <2>4, <2>5, PlacesType DEF SenderOrder
  <2> QED
    BY <1>1, <2>1, <2>5, <2>6, <2>7 DEF SenderOrder
<1>3. CASE uart_send
  <2>1. /\ tasklet = "send" /\ tasklet' = "send" /\ thr = Empty /\ thr' = <<data>>
        /\ data' = data /\ out_fifo' = out_fifo
    BY <1>3 DEF uart_send, tx_ready, queues
  <2>2. thr'[1] = data /\ thr' # Empty
    BY <2>1 DEF Empty
  <2>3. Held = Shifted /\ Taken = data /\ Held' = data /\ Taken' = data
    BY <2>1, <2>2 DEF Held, Taken
  <2> QED
    BY <1>1, <2>1, <2>2, <2>3 DEF SenderOrder
<1>4. CASE HasSent
  <2>1. /\ tasklet = "send" /\ tasklet' = "loop" /\ thr # Empty /\ thr' = thr
        /\ data' = data /\ out_fifo' = out_fifo
    BY <1>4 DEF HasSent, tx_ready, queues, transmitter
  <2>2. Held' = Held /\ Taken' = Held' /\ Held = data /\ Taken = data
    BY <1>1, <2>1 DEF Held, Taken, SenderOrder
  <2> QED
    BY <1>1, <2>1, <2>2 DEF SenderOrder
<1> QED
  BY <1>2, <1>3, <1>4

LEMMA WriteSender ==
  ASSUME Parts, SenderOrder, NEW count \in 1..FIFO_SIZE, CopiesIn(count)
  PROVE  SenderOrder'
<1>1. /\ tsr' = tsr /\ thr' = thr /\ tasklet' = tasklet /\ data' = data /\ sent' = sent
      /\ Shifted' = Shifted /\ Held' = Held /\ Taken' = Taken
  BY DEF CopiesIn, transmitter, Shifted, Held, Taken
<1>2. PICK k \in Nat :
        /\ Len(out_fifo) \in Nat /\ out_fifo' = out_fifo \o [i \in 1..k |-> accepted + i]
        /\ accepted' = accepted + k /\ Len(out_fifo') = Len(out_fifo) + k
  BY CopiesInFacts
<1>3. out_fifo \in Seq(Nat) /\ accepted \in Nat
  BY DEF Parts, QueuesOK, CountsOK
<1> DEFINE r == [i \in 1..k |-> accepted + i]
<1>4. r \in Seq(Nat) /\ Len(r) = k /\ \A i \in 1..k : r[i] = accepted + i
  BY <1>3, CopiedElements
<1>5. out_fifo' = out_fifo \o r
  BY <1>2
<1> HIDE DEF r
<1>6. /\ \A i \in 1..Len(out_fifo) : out_fifo'[i] = out_fifo[i]
      /\ \A i \in 1..k : out_fifo'[Len(out_fifo) + i] = accepted + i
  BY <1>3, <1>4, <1>5, ConcatElements
<1>7. ASSUME NEW i \in 1..Len(out_fifo') PROVE out_fifo'[i] = Taken + i
  <2>1. CASE i <= Len(out_fifo)
    <3>1. i \in 1..Len(out_fifo)
      BY <1>2, <2>1
    <3> QED
      BY <1>6, <3>1 DEF SenderOrder
  <2>2. CASE i > Len(out_fifo)
    <3>1. i - Len(out_fifo) \in 1..k /\ Len(out_fifo) + (i - Len(out_fifo)) = i
      BY <1>2, <2>2
    <3>2. out_fifo'[i] = accepted + (i - Len(out_fifo))
      BY <1>6, <3>1
    <3> QED
      BY <1>2, <3>2, PlacesType DEF SenderOrder
  <2> QED
    BY <1>2, <2>1, <2>2
<1>8. Taken + Len(out_fifo') = accepted'
  <2>1. Taken + Len(out_fifo) = accepted /\ Taken \in Nat
    BY PlacesType DEF SenderOrder
  <2> QED
    BY <1>2, <2>1
<1> QED
  BY <1>1, <1>7, <1>8 DEF SenderOrder

LEMMA StepSender == Parts /\ SenderOrder /\ [Next]_vars => SenderOrder'
<1> SUFFICES ASSUME Parts, SenderOrder, [Next]_vars PROVE SenderOrder'
  OBVIOUS
<1>1. CASE Arrives \/ RaisesRx \/ UNCHANGED vars
  BY <1>1, QuietSender DEF Arrives, RaisesRx, vars, queues, sending, transmitter
<1>2. CASE Handler
  BY <1>2, QuietSender DEF Handler, Identifies, FindsBytes, FindsNone, uart_received, Returns,
                           queues, sending, transmitter
<1>3. CASE Starts \/ Ends
  <2>1. /\ tsr' = tsr /\ thr' = thr /\ data' = data /\ out_fifo' = out_fifo /\ UNCHANGED outCounts
        /\ tasklet # "send" /\ tasklet' # "send"
    BY <1>3 DEF Starts, Ends, queues, transmitter
  <2> QED
    BY <2>1 DEF SenderOrder, outCounts, Shifted, Held, Taken
<1>4. ASSUME NEW p \in Users, UserStep(p) PROVE SenderOrder'
  <2>1. CASE \E count \in 1..FIFO_SIZE : CopiesIn(count)
    BY <2>1, WriteSender
  <2>2. CASE ~ \E count \in 1..FIFO_SIZE : CopiesIn(count)
    BY <1>4, <2>2, QuietSender DEF UserStep, uart_read, uart_write, Resumes, ReadResumes, WriteResumes,
                                   Interrupted, CopiesOut, queues, sending, transmitter
  <2> QED
    BY <2>1, <2>2
<1> QED
  BY <1>1, <1>2, <1>3, <1>4, UartSender, TaskletSender DEF Next, Hardware, Tasklet

\* A path and its next place, which holds one byte or none.
Steps(s) == \A i \in 1..Len(s) - 1 : s[i + 1] \in {s[i], s[i] + 1}
EndsIn(s, b) == s \in Seq(Nat) /\ Len(s) # 0 /\ s[Len(s)] = b

LEMMA NextPlace ==
  ASSUME NEW s, NEW b \in Nat, Steps(s), EndsIn(s, b),
         NEW t \in Seq(Nat), Len(t) <= 1, NEW c \in {b, b + 1}, c = IF t = Empty THEN b ELSE t[1]
  PROVE  Steps(s \o t) /\ EndsIn(s \o t, c)
<1>1. s \in Seq(Nat) /\ Len(s) \in Nat \ {0} /\ s[Len(s)] = b
  BY DEF EndsIn
<1>2. CASE t = Empty
  <2>1. s \o t = s
    BY <1>1, <1>2 DEF Empty
  <2> QED
    BY <1>2, <2>1
<1>3. CASE t # Empty
  <2>1. Len(t) = 1 /\ 1 \in 1..Len(t) /\ c = t[1]
    <3>1. Len(t) \in Nat /\ Len(t) # 0 /\ Len(t) <= 1
      BY <1>3, EmptyFacts
    <3>2. \A n \in Nat : n # 0 /\ n <= 1 => n = 1
      OBVIOUS
    <3>3. Len(t) = 1
      BY ONLY <3>1, <3>2
    <3>4. c = t[1]
      BY <1>3
    <3> QED
      BY <3>3, <3>4
  <2>2. /\ s \o t \in Seq(Nat) /\ Len(s \o t) = Len(s) + 1 /\ (s \o t)[Len(s) + 1] = c
        /\ \A i \in 1..Len(s) : (s \o t)[i] = s[i]
    <3>1. /\ s \o t \in Seq(Nat) /\ Len(s \o t) = Len(s) + Len(t)
          /\ \A i \in 1..Len(s) : (s \o t)[i] = s[i]
          /\ \A i \in 1..Len(t) : (s \o t)[Len(s) + i] = t[i]
      BY <1>1, ConcatElements
    <3> QED
      BY <2>1, <3>1
  <2>3. ASSUME NEW i \in 1..Len(s) PROVE (s \o t)[i + 1] \in {(s \o t)[i], (s \o t)[i] + 1}
    <3>1. CASE i = Len(s)
      BY <1>1, <2>2, <3>1
    <3>2. CASE i # Len(s)
      <4>1. i \in 1..Len(s) - 1 /\ i + 1 \in 1..Len(s)
        BY <1>1, <3>2
      <4> QED
        BY <2>2, <4>1 DEF Steps
    <3> QED
      BY <3>1, <3>2
  <2> QED
    BY <1>1, <2>2, <2>3 DEF Steps, EndsIn
<1> QED
  BY <1>2, <1>3

LEMMA QueuedPlaces ==
  ASSUME NEW s, NEW b \in Nat, Steps(s), EndsIn(s, b),
         NEW t \in Seq(Nat), \A i \in 1..Len(t) : t[i] = b + i
  PROVE  Steps(s \o t) /\ EndsIn(s \o t, b + Len(t))
<1>1. s \in Seq(Nat) /\ Len(s) \in Nat \ {0} /\ s[Len(s)] = b /\ Len(t) \in Nat
  BY DEF EndsIn
<1>2. /\ s \o t \in Seq(Nat) /\ Len(s \o t) = Len(s) + Len(t)
      /\ \A i \in 1..Len(s) : (s \o t)[i] = s[i]
      /\ \A i \in 1..Len(t) : (s \o t)[Len(s) + i] = b + i
  BY <1>1, ConcatElements
<1>3. ASSUME NEW i \in 0..Len(t) PROVE (s \o t)[Len(s) + i] = b + i
  <2>1. CASE i = 0
    BY <1>1, <1>2, <2>1
  <2>2. CASE i # 0
    <3>1. i \in 1..Len(t)
      BY <2>2
    <3> QED
      BY <1>2, <3>1
  <2> QED
    BY <2>1, <2>2
<1>4. ASSUME NEW i \in 1..Len(s \o t) - 1 PROVE (s \o t)[i + 1] \in {(s \o t)[i], (s \o t)[i] + 1}
  <2>1. CASE i < Len(s)
    <3>1. i \in 1..Len(s) - 1 /\ i \in 1..Len(s) /\ i + 1 \in 1..Len(s)
      BY <1>1, <2>1
    <3> QED
      BY <1>2, <3>1 DEF Steps
  <2>2. CASE i >= Len(s)
    <3> DEFINE j == i - Len(s)
    <3>1. j \in 0..Len(t) /\ j + 1 \in 0..Len(t) /\ Len(s) + j = i /\ Len(s) + (j + 1) = i + 1
      BY <1>1, <1>2, <2>2
    <3>2. (s \o t)[i] = b + j /\ (s \o t)[i + 1] = b + (j + 1)
      BY <1>3, <3>1
    <3> QED
      BY <3>1, <3>2
  <2>3. i < Len(s) \/ i >= Len(s)
    <3>1. Len(s) \in Nat /\ Len(s \o t) \in Nat
      BY <1>1, <1>2
    <3>2. i \in Int
      BY <3>1
    <3> QED
      BY <3>1, <3>2
  <2> QED
    BY <2>1, <2>2, <2>3
<1>5. (s \o t)[Len(s \o t)] = b + Len(t) /\ Len(s \o t) # 0
  BY <1>1, <1>2, <1>3
<1> QED
  BY <1>2, <1>4, <1>5 DEF Steps, EndsIn

\* The whole path from what was sent last to what was written last.
LEMMA SenderPath == Parts /\ SenderOrder => SentInOrder
<1> SUFFICES ASSUME Parts, SenderOrder PROVE SentInOrder
  OBVIOUS
<1> DEFINE held == IF tasklet = "send" THEN <<data>> ELSE Empty
           first == <<sent>>
           upToShift == first \o tsr
           upToHold == upToShift \o thr
           upToTasklet == upToHold \o held
           path == upToTasklet \o out_fifo
<1>1. /\ Shifted \in Nat /\ Held \in Nat /\ Taken \in Nat /\ sent \in Nat /\ data \in Nat
      /\ tsr \in Seq(Nat) /\ Len(tsr) <= 1 /\ thr \in Seq(Nat) /\ Len(thr) <= 1 /\ out_fifo \in Seq(Nat)
  BY PlacesType DEF Parts, UartOK, DriverOK, QueuesOK
<1>2. held \in Seq(Nat) /\ Len(held) <= 1 /\ Taken = IF held = Empty THEN Held ELSE held[1]
  <2>1. CASE tasklet = "send"
    <3>1. held = <<data>> /\ held # Empty /\ held[1] = data
      BY <2>1 DEF Empty
    <3> QED
      BY <1>1, <2>1, <3>1 DEF Taken
  <2>2. CASE tasklet # "send"
    BY <2>2, EmptyFacts DEF Taken
  <2> QED
    BY <2>1, <2>2
<1>3. Steps(first) /\ EndsIn(first, sent)
  BY <1>1 DEF Steps, EndsIn
<1> HIDE DEF held, first
<1>4. Steps(upToShift) /\ EndsIn(upToShift, Shifted)
  BY <1>1, <1>3, NextPlace DEF Shifted, SenderOrder
<1> HIDE DEF upToShift
<1>5. Steps(upToHold) /\ EndsIn(upToHold, Held)
  BY <1>1, <1>4, NextPlace DEF Held, SenderOrder
<1> HIDE DEF upToHold
<1>6. Steps(upToTasklet) /\ EndsIn(upToTasklet, Taken)
  BY <1>1, <1>2, <1>5, NextPlace DEF SenderOrder
<1> HIDE DEF upToTasklet
<1>7. Steps(path) /\ EndsIn(path, accepted)
  BY <1>1, <1>6, QueuedPlaces DEF SenderOrder
<1>8. (\A i \in 1..Len(path) - 1 : path[i + 1] \in {path[i], path[i] + 1}) /\ path[Len(path)] = accepted
  BY <1>7 DEF Steps, EndsIn
<1> QED
  BY <1>8 DEF path, upToTasklet, upToHold, upToShift, held, first, SentInOrder

-----------------------------------------------------------------------------

OrderInv == Parts /\ ReceiverOrder /\ Balance /\ SenderOrder

\* The inductive invariant for the order of the bytes.
THEOREM OrderInvariant == Spec => []OrderInv
<1>1. Init => OrderInv
  BY InitType, InitReceiver, InitSender DEF OrderInv
<1>2. OrderInv /\ [Next]_vars => OrderInv'
  BY StepType, StepReceiver, StepSender DEF OrderInv
<1> QED
  BY <1>1, <1>2, PTL DEF Spec

\* Whatever the interrupt handler and the readers do at the same time, the users
\* get the bytes in the order they arrived, each once, and what is missing was
\* dropped at a full in_fifo.
THEOREM ReceiverCorrect == Spec => []ReceivedInOrder
<1>1. OrderInv => ReceivedInOrder
  BY ReceiverPath DEF OrderInv
<1> QED
  BY <1>1, OrderInvariant, PTL

\* Whatever the writers, the tasklet and the transmitter do at the same time, no
\* byte a user wrote is skipped or overtaken on its way to the line.
THEOREM SenderCorrect == Spec => []SentInOrder
<1>1. OrderInv => SentInOrder
  BY SenderPath DEF OrderInv
<1> QED
  BY <1>1, OrderInvariant, PTL
=============================================================================
