------------------------------- MODULE UartAxi -------------------------------
(***************************************************************************)
(* The Linux driver of uartAxi: bytes a user writes go through out_fifo    *)
(* and a tasklet to the transmitter, bytes the receiver takes go through   *)
(* the interrupt handler and in_fifo to a user who reads.  The interrupt   *)
(* handler, the tasklet, the users and the UART run side by side (the      *)
(* board has two cores); each access to a register or a queue that another *)
(* of them can come between is a step of its own.                          *)
(*                                                                         *)
(* A byte is its number: 1, 2, ... in the order the users write them and   *)
(* in the order they arrive from the line.                                 *)
(***************************************************************************)
EXTENDS Integers, Sequences

CONSTANTS
  Users,      \* the processes that have the device open
  FIFO_SIZE,  \* size of in_fifo and out_fifo
  RxDepth,    \* bound: bytes the receiver holds at most; the handler is quicker than that
  MaxIn,      \* bound: bytes that arrive
  MaxOut,     \* bound: bytes the users write
  MaxCopies   \* bound: how often one uart_send finds the transmitter free

ASSUME SizesAssumption ==
  /\ FIFO_SIZE \in Nat \ {0} /\ RxDepth \in Nat \ {0}
  /\ MaxIn \in Nat /\ MaxOut \in Nat /\ MaxCopies \in Nat \ {0}

VARIABLES
  in_fifo, out_fifo,
  user,          \* per process: where it is in uart_read or uart_write
  isr,           \* where the interrupt handler is
  scheduled,     \* the tasklet is to run (again)
  tasklet,       \* where the tasklet is
  data, copies,  \* the byte uart_send has, and how often it has written it
  rbr, rxIrq,    \* the receiver: bytes to be read, and its interrupt
  thr, tsr,      \* the transmitter: holding register and shift register
  threIrq,       \* its interrupt: the holding register has become empty
  arrived, received, lastReceived, lost,  \* bytes from the line, and what became of them
  accepted, sent                          \* last byte written by a user, last byte on the line

queues == <<in_fifo, out_fifo>>
sending == <<scheduled, tasklet, data, copies>>
receiver == <<rbr, rxIrq>>
transmitter == <<thr, tsr, threIrq>>
inCounts == <<arrived, received, lastReceived, lost>>
outCounts == <<accepted, sent>>
vars == <<queues, user, isr, sending, receiver, transmitter, inCounts, outCounts>>

Empty == <<>>
kfifo_is_full_OffByOne(fifo) == Len(fifo) > FIFO_SIZE
kfifo_is_full(fifo) == Len(fifo) = FIFO_SIZE

\* What kfifo_out leaves of a queue.
kfifo_rest_Peeked(fifo, copied) == fifo
kfifo_rest(fifo, copied) == SubSeq(fifo, copied + 1, Len(fifo))

\* The transmitter's and the receiver's bit of the line status register.
tx_ready == thr = Empty
rx_ready == rbr # Empty

\* wait_event_interruptible looks at its condition again when it is woken.
wake_up(asleep, awake, u) == [p \in Users |-> IF u[p] = asleep THEN awake ELSE u[p]]
wake_up_readable(u) == wake_up("wants bytes", "has bytes", u)
wake_up_writeable(u) == wake_up("wants room", "has room", u)

\* The process in uart_read holds read_lock, the one in uart_write write_lock.
Reading(p) == user[p] \in {"wants bytes", "has bytes"}
Writing(p) == user[p] \in {"wants room", "has room"}

Init ==
  /\ in_fifo = Empty /\ out_fifo = Empty
  /\ user = [p \in Users |-> "idle"]
  /\ isr = "off"
  /\ scheduled = FALSE /\ tasklet = "off" /\ data = 0 /\ copies = 0
  /\ rbr = Empty /\ rxIrq = FALSE
  /\ thr = Empty /\ tsr = Empty /\ threIrq \in BOOLEAN
  /\ arrived = 0 /\ received = 0 /\ lastReceived = 0 /\ lost = 0
  /\ accepted = 0 /\ sent = 0

-----------------------------------------------------------------------------
(* The UART, with its queues enabled and the receiver's trigger at 14.     *)

\* A byte arrives.
Arrives ==
  /\ arrived < MaxIn /\ Len(rbr) < RxDepth
  /\ arrived' = arrived + 1
  /\ rbr' = Append(rbr, arrived')
  /\ UNCHANGED <<queues, user, isr, sending, rxIrq, transmitter, received, lastReceived, lost, outCounts>>

\* Enough bytes have arrived, or none has for four characters' time.
RaisesRx ==
  /\ rx_ready /\ ~ rxIrq
  /\ rxIrq' = TRUE
  /\ UNCHANGED <<queues, user, isr, sending, rbr, transmitter, inCounts, outCounts>>

\* The byte of the holding register goes to the free shift register.
Shifts ==
  /\ thr # Empty /\ tsr = Empty
  /\ tasklet = "send" => copies < MaxCopies
  /\ thr' = Empty /\ tsr' = thr /\ threIrq' = TRUE
  /\ UNCHANGED <<queues, user, isr, sending, receiver, inCounts, outCounts>>

\* The last bit is on the line.
Transmits ==
  /\ tsr # Empty
  /\ sent' = Head(tsr) /\ tsr' = Empty
  /\ UNCHANGED <<queues, user, isr, sending, receiver, thr, threIrq, inCounts, accepted>>

-----------------------------------------------------------------------------
(* The interrupt handler.                                                  *)

\* uart_isr reads which interrupt it is; the receiver's comes first, and reading
\* that it is the transmitter's clears it.
Identifies ==
  /\ isr = "off" /\ (rxIrq \/ threIrq)
  /\ isr' = "identified"
  /\ threIrq' = (threIrq /\ rxIrq)
  /\ UNCHANGED <<queues, user, sending, receiver, thr, tsr, inCounts, outCounts>>

\* Whatever interrupt it was: with a byte to read the handler reads, otherwise
\* the tasklet is to run.
FindsBytes ==
  /\ isr = "identified" /\ rx_ready
  /\ isr' = "draining"
  /\ UNCHANGED <<queues, user, sending, receiver, transmitter, inCounts, outCounts>>

FindsNone_NoTasklet ==
  /\ isr = "identified" /\ ~ rx_ready
  /\ isr' = "off"
  /\ UNCHANGED <<queues, user, sending, receiver, transmitter, inCounts, outCounts>>

FindsNone ==
  /\ isr = "identified" /\ ~ rx_ready
  /\ isr' = "off" /\ scheduled' = TRUE
  /\ UNCHANGED <<queues, user, tasklet, data, copies, receiver, transmitter, inCounts, outCounts>>

\* uart_received: a byte that finds in_fifo full is gone.
uart_received ==
  /\ isr = "draining" /\ rx_ready
  /\ rbr' = Tail(rbr) /\ rxIrq' = FALSE
  /\ IF kfifo_is_full(in_fifo)
     THEN lost' = lost + 1 /\ UNCHANGED in_fifo
     ELSE in_fifo' = Append(in_fifo, Head(rbr)) /\ UNCHANGED lost
  /\ user' = wake_up_readable(user)
  /\ UNCHANGED <<out_fifo, isr, sending, transmitter, arrived, received, lastReceived, outCounts>>

Returns ==
  /\ isr = "draining" /\ ~ rx_ready
  /\ isr' = "off"
  /\ UNCHANGED <<queues, user, sending, receiver, transmitter, inCounts, outCounts>>

Handler == Identifies \/ FindsBytes \/ FindsNone \/ uart_received \/ Returns

-----------------------------------------------------------------------------
(* The tasklet.  No other code takes from out_fifo or writes to the        *)
(* transmitter, so what it has found true of them stays true.              *)

Starts ==
  /\ scheduled /\ tasklet = "off"
  /\ scheduled' = FALSE /\ tasklet' = "loop"
  /\ UNCHANGED <<queues, user, isr, data, copies, receiver, transmitter, inCounts, outCounts>>

TakesByte_Unready ==
  /\ tasklet = "loop" /\ out_fifo # Empty
  /\ data' = Head(out_fifo) /\ out_fifo' = kfifo_rest(out_fifo, 1)
  /\ tasklet' = "send" /\ copies' = 0
  /\ UNCHANGED <<in_fifo, user, isr, scheduled, receiver, transmitter, inCounts, outCounts>>

TakesByte ==
  /\ tasklet = "loop" /\ out_fifo # Empty /\ tx_ready
  /\ data' = Head(out_fifo) /\ out_fifo' = kfifo_rest(out_fifo, 1)
  /\ tasklet' = "send" /\ copies' = 0
  /\ UNCHANGED <<in_fifo, user, isr, scheduled, receiver, transmitter, inCounts, outCounts>>

\* uart_send writes the byte as long as the transmitter is free: again, if the
\* byte has gone to the shift register before it looks.
uart_send ==
  /\ tasklet = "send" /\ tx_ready
  /\ thr' = <<data>> /\ threIrq' = FALSE
  /\ copies' = copies + 1
  /\ UNCHANGED <<queues, user, isr, scheduled, tasklet, data, receiver, tsr, inCounts, outCounts>>

HasSent ==
  /\ tasklet = "send" /\ ~ tx_ready
  /\ tasklet' = "loop"
  /\ UNCHANGED <<queues, user, isr, scheduled, data, copies, receiver, transmitter, inCounts, outCounts>>

WakesWriter_Never(u) == u
WakesWriter(u) == IF kfifo_is_full(out_fifo) THEN u ELSE wake_up_writeable(u)

Ends ==
  /\ tasklet = "loop" /\ (out_fifo = Empty \/ ~ tx_ready)
  /\ tasklet' = "off"
  /\ user' = WakesWriter(user)
  /\ UNCHANGED <<queues, isr, scheduled, data, copies, receiver, transmitter, inCounts, outCounts>>

Tasklet == Starts \/ TakesByte \/ uart_send \/ HasSent \/ Ends

-----------------------------------------------------------------------------
(* The users.  A call with O_NONBLOCK that finds nothing to do returns     *)
(* -EAGAIN and changes nothing.                                            *)

\* kfifo_to_user of count bytes.
CopiesOut(count) ==
  LET copied == IF count < Len(in_fifo) THEN count ELSE Len(in_fifo)
  IN /\ in_fifo' = kfifo_rest(in_fifo, copied)
     /\ received' = received + copied
     /\ lastReceived' = in_fifo[copied]
     /\ UNCHANGED <<out_fifo, isr, sending, receiver, transmitter, arrived, lost, outCounts>>

\* kfifo_from_user of count bytes, and the tasklet is to run.
CopiesIn(count) ==
  LET room == FIFO_SIZE - Len(out_fifo)
      copied == IF count < room THEN count ELSE room
  IN /\ accepted + copied <= MaxOut
     /\ out_fifo' = out_fifo \o [i \in 1..copied |-> accepted + i]
     /\ accepted' = accepted + copied
     /\ scheduled' = TRUE
     /\ UNCHANGED <<in_fifo, isr, tasklet, data, copies, receiver, transmitter, inCounts, sent>>

uart_read(p) ==
  /\ user[p] = "idle" /\ \A q \in Users : ~ Reading(q)
  /\ \/ /\ in_fifo = Empty
        /\ user' = [user EXCEPT ![p] = "wants bytes"]
        /\ UNCHANGED <<queues, isr, sending, receiver, transmitter, inCounts, outCounts>>
     \/ /\ in_fifo # Empty
        /\ \E count \in 1..FIFO_SIZE : CopiesOut(count)
        /\ UNCHANGED user

ReadResumes(p) ==
  /\ user[p] = "has bytes" /\ in_fifo # Empty
  /\ \E count \in 1..FIFO_SIZE : CopiesOut(count)
  /\ user' = [user EXCEPT ![p] = "idle"]

uart_write(p) ==
  /\ user[p] = "idle" /\ \A q \in Users : ~ Writing(q)
  /\ \/ /\ kfifo_is_full(out_fifo)
        /\ user' = [user EXCEPT ![p] = "wants room"]
        /\ UNCHANGED <<queues, isr, sending, receiver, transmitter, inCounts, outCounts>>
     \/ /\ ~ kfifo_is_full(out_fifo)
        /\ \E count \in 1..FIFO_SIZE : CopiesIn(count)
        /\ UNCHANGED user

WriteResumes(p) ==
  /\ user[p] = "has room" /\ ~ kfifo_is_full(out_fifo)
  /\ \E count \in 1..FIFO_SIZE : CopiesIn(count)
  /\ user' = [user EXCEPT ![p] = "idle"]

\* A signal ends a wait whose condition does not hold with -EINTR.
Interrupted(p) ==
  /\ \/ user[p] = "wants bytes" /\ in_fifo = Empty
     \/ user[p] = "wants room" /\ kfifo_is_full(out_fifo)
  /\ user' = [user EXCEPT ![p] = "idle"]
  /\ UNCHANGED <<queues, isr, sending, receiver, transmitter, inCounts, outCounts>>

Resumes(p) == ReadResumes(p) \/ WriteResumes(p)

UserStep(p) == uart_read(p) \/ uart_write(p) \/ Resumes(p) \/ Interrupted(p)

Hardware == RaisesRx \/ Shifts \/ Transmits

Next == Arrives \/ Hardware \/ Handler \/ Tasklet \/ \E p \in Users : UserStep(p)

Spec == Init /\ [][Next]_vars

\* The UART, the handler, the tasklet and a woken process each get on; nobody
\* has to call, and nothing has to arrive.
Fairness ==
  /\ WF_vars(RaisesRx) /\ WF_vars(Shifts) /\ WF_vars(Transmits)
  /\ WF_vars(Handler) /\ WF_vars(Tasklet)
  /\ \A p \in Users : WF_vars(Resumes(p))

FairSpec == Spec /\ Fairness

-----------------------------------------------------------------------------

TypeOK ==
  /\ in_fifo \in Seq(Nat) /\ Len(in_fifo) <= FIFO_SIZE
  /\ out_fifo \in Seq(Nat) /\ Len(out_fifo) <= FIFO_SIZE
  /\ user \in [Users -> {"idle", "wants bytes", "has bytes", "wants room", "has room"}]
  /\ isr \in {"off", "identified", "draining"}
  /\ scheduled \in BOOLEAN /\ tasklet \in {"off", "loop", "send"}
  /\ data \in Nat /\ copies \in 0..MaxCopies
  /\ rbr \in Seq(Nat) /\ Len(rbr) <= RxDepth /\ rxIrq \in BOOLEAN
  /\ thr \in Seq(Nat) /\ Len(thr) <= 1
  /\ tsr \in Seq(Nat) /\ Len(tsr) <= 1
  /\ threIrq \in BOOLEAN
  /\ arrived \in Nat /\ received \in Nat /\ lastReceived \in Nat /\ lost \in Nat
  /\ accepted \in Nat /\ sent \in Nat

\* Every byte from the line is in one place: the users get the bytes in the order
\* they arrived and none of them twice, and one that is missing was dropped at a
\* full in_fifo, whatever the handler and the readers do at the same time.
ReceivedInOrder ==
  LET path == <<lastReceived>> \o in_fifo \o rbr
  IN /\ \A i \in 1..Len(path) - 1 : path[i] < path[i + 1]
     /\ path[Len(path)] <= arrived
     /\ received + Len(in_fifo) + Len(rbr) + lost = arrived

\* No byte a user wrote is skipped or overtaken on its way to the line, although
\* the tasklet, the transmitter and the writers run side by side: what is on the
\* way follows what was sent last without a gap, up to the last byte written.
\* (Twice is possible: uart_send may write a byte again.)
SentInOrder ==
  LET held == IF tasklet = "send" THEN <<data>> ELSE Empty
      path == <<sent>> \o tsr \o thr \o held \o out_fifo
  IN /\ \A i \in 1..Len(path) - 1 : path[i + 1] \in {path[i], path[i] + 1}
     /\ path[Len(path)] = accepted

\* A process that sleeps in uart_read has nothing to read, one that sleeps in
\* uart_write has no room or a run of the tasklet ahead that wakes it; and one
\* that was woken finds what it was woken for, so its call does not return 0.
SleepersHaveReason ==
  \A p \in Users :
    /\ user[p] = "wants bytes" => in_fifo = Empty
    /\ user[p] = "has bytes" => in_fifo # Empty
    /\ user[p] = "wants room" => kfifo_is_full(out_fifo) \/ tasklet # "off"
    /\ user[p] = "has room" => ~ kfifo_is_full(out_fifo)

\* What waits in out_fifo is sent.
QueueIsSent == out_fifo # Empty ~> out_fifo = Empty

\* A sleeping reader gets the byte that has arrived; and, as long as nothing
\* arrives, what waits in out_fifo is sent.
BytesMove ==
  /\ \A p \in Users : user[p] = "wants bytes" /\ rx_ready ~> user[p] # "wants bytes"
  /\ [](arrived = 0) => QueueIsSent
=============================================================================
