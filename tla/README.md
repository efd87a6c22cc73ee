# A specification of the Y-Modem-Protocol project

The repository implements YMODEM batch file transfer between two terminals over
a simulated line that harms what it carries. Its parts 1 to 6 are stages of one
program; the last stage is `Ensc351ymodLib` (the peers, their statecharts, the
I/O layer, the terminal) with `Ensc351Part6` (the medium, the KVM, `main`) on the
SmartState runtime in `Ensc351`. This directory specifies that stage in TLA+,
model-checks it with TLC and proves part of it with TLAPS.

Paths below are relative to the repository.

## 1. The system

| Component | State | Operations | Talks to |
|---|---|---|---|
| `SenderY` (`Ensc351ymodLib/SenderY.cpp`) driven by the chart `ySenderSS.cpp` | two block buffers, block number, bytes prefetched, file list and index, descriptor, error count, `KbCan`, `firstBlk`, result | SER (a byte), TM (timeout), KB_C (keyboard cancel); `sendBlkPrepNext`, `resendBlk`, `prepStatBlk`, `cans`, `closeTransferredFile` | the medium, through myIO |
| `ReceiverY` (`ReceiverY.cpp`) driven by `yReceiverSS.cpp` | block received, `goodBlk`, `goodBlk1st`, `syncLoss`, `numLastGoodBlk`, `bytesRemaining`, descriptor, `closeProb`, error count, `KbCan`, result | SER, TM, KB_C; `getRestBlk`, `writeChunk`, `openFileForTransfer`, `closeTransferredFile`, `purge`, `cans` | the medium |
| `PeerY` (`PeerY.cpp`) | `absoluteTimeout`, `holdTimeout` | `transferCommon`, the select() loop that posts the events; `tm`, `tmPush`, `tmPop` | both charts, the console |
| SmartState runtime (`Ensc351/ss_api.cpp`) | active states, history, event queue | `executeExit`, `executeEntry`, `postEvent` | both charts |
| `Medium` (`Ensc351Part6/src/Medium.cpp`) | byte counters and thresholds, `sendExtraAck`, `glitchCount` | `MsgFromTerm2`, `MsgFromTerm1` | both peers |
| `myIO.cpp` | per socket `totalWritten`, `maxTotalCanRead`, `pair`, two condition variables | `myWrite`, `myRead`, `myReadcond`, `myTcdrain`, `myClose` | all threads |
| `terminal.cpp`, `Kvm.cpp`, `Ensc351Part6.cpp` | selected terminal, `finished`, the sockets | route typed lines, start a transfer, forward text, end | peers, medium, console |
| `RageUtil_CircularBuffer.h` (Part 3) | read and write position | `write`, `read`, `reserve` | nothing: its use is commented out in every build |
| `uartAxi/Debug/main.c` | `in_fifo`, `out_fifo`, two wait queues, the tasklet | interrupt handler, tasklet, `uart_read`, `uart_write` | Linux, the UART |

Two peers, the medium, two terminals and the KVM are threads connected by socket
pairs. A session of one file is

    receiver            C          ACK C          ACK ...       NAK      ACK C        ACK
    sender     stat block   block 1      block 2 ...     EOT      EOT        empty stat block

with a resend for each NAK, a repeated C or NAK of the receiver for each timeout,
and a cancellation announced by CANs.

What is hard: answers and retries cross on the line; the sender reads the next
chunk into one buffer while the other one is out, under a block number that wraps
at a byte; a lone CAN must not count, so both charts leave their state for a while
and come back by history under the timeout they had; a keyboard cancel falls
between any two events; the medium makes up ACKs, and its glitch byte is a counter
that takes every value; errors are counted in leaves that reset, keep or increment
one counter differently; and the receiver accepts EOT on faith. Below the protocol, a drainer sleeps on a
condition that it tests once; the event loop reads the clock before it waits and
posts a timeout only on a quiet line; threads close sockets under each other; and the
driver's handler, tasklet and processes share queues without a lock. `PROJECT.json`
lists each hazard at its line.

What makes each component correct:

* sender: every block on the line is the one that is due; EOT only at a file's
  end; no descriptor left open; a truthful result; cancels take effect; errors bounded;
* receiver: what is on disk is a prefix of the file, without the padding; only a
  stored block is acknowledged; no descriptor left open; it stops when the line is silent;
* session: what either side reports is true, both peers stop, and the files arrive
  when the line harms less than the protocol is made for;
* sockets: the counters are exact, a waiter is woken when its condition holds, and only then;
* threads: a timeout that has passed is posted; nobody is cut off before somebody quits, and the end
  of one thread reaches the others;
* driver: bytes keep their order in both directions, what is queued is sent, no process sleeps without a reason.

## 2. The modules

| Module | Models | Notes |
|---|---|---|
| `YModem` | constants of `PeerY.h`, blocks, files | no state; assumptions on the constants |
| `SmartState` | exit and entry with history | instantiated with each chart's tree |
| `SenderY` | sender context and chart | open environment: any byte, timeout or cancel at any time |
| `ReceiverY` | receiver context and chart | open environment that keeps a sender's order |
| `FileTransfer` | what a session promises | the abstract specification |
| `YSession` | sender, receiver, medium | extends `SenderY`, instantiates `ReceiverY` |
| `MyIO` | one socket pair of `myIO.cpp`: counters, condition variables, calls | threads of an unconstrained program |
| `Console` | KVM, terminals, event loop, medium and their sockets | what the charts do with an event is left open |
| `UartAxi` | the driver, its users and the UART | the UART is external |
| `MCSenderY`, `MCReceiverY`, `MCYSession`, `MCMyIO`, `MCConsole`, `MCUartAxi` | the instances | definitions of constants for the `.cfg` files |
| `YModemProofs` | arithmetic of the block number | lemmas, for every modulus |
| `SenderYProofs` | theorems about `SenderY` | checked by TLAPS, like those below |
| `ReceiverYProofs`, `ReceiverYDiskProofs` | theorems about `ReceiverY` | the second is about what is on disk and what is acknowledged |
| `MyIOProofs` | theorems about `MyIO` | any number of threads |
| `UartAxiProofs` | theorems about `UartAxi` | locks and sleepers, then the order of bytes |
| `ConsoleProofs` | theorems about `Console` | any number of lines and messages |
| `YSessionProofs` | theorems about `YSession` | extends `SenderYProofs`; the refinement of `FileTransfer` is proved here |

### Correspondence with the code

A **step** of a peer is one event of `transferCommon` and everything the handlers
do until the chart is at rest; the receiver's transient states, which post CONT
to themselves, are part of the step that enters them. `CondTransientData` is an
exception: the chart waits there, with a timeout of zero, and other events may come first.
Actions are named after leaf and case (`ACKNAK_NextBlock`, `EOT_CloseError`) and
carry the chart's guard. An event the leaf does not take goes to its parent:
`LeafTakes` says which ones it does take. `active` is the active leaf or `Final`;
`hist` is the runtime's history.

`SmartState!RecordExit` and `Enter` are what `removeActiveStates` and
`getInitialStates` do with it. A leaf is remembered by its *direct* parent only if
that parent has `myHistory`, and the state that takes the transition is not
remembered. In the sender the history brings the chart back where a CAN
interrupted it. In the receiver the data states sit one level deeper, in a parent without
history, so a stray CAN in the data phase resumes `FirstByteStat` (section 4).

**Data.** A file is a number of chunks and the size of its last one; a block is a
record of number, file and chunk; chunk 0 is the stat block. CRC and complement
are what `getRestBlk` makes of a block: `short`, `bad` (excess bytes, or number and
complement disagree), `badCRC`, `good`. A data block taken for a stat block names
some file, of any size in `GarbageSizes`, unless its data starts with a zero byte
(`ZeroFirst`), when it means no more files; or it holds no number where the size is due,
and the exception of `stoi` ends the receiver (`Stat_SizeThrows`).

**Timers** hold what armed them (`VL`, `SOH`, `CHAR`, `zero`, ...), not a time.
In a peer on its own a timeout may strike at any step. In a session it strikes when
nothing is on its way; the sender's long timeout only when the receiver has
stopped, since all retries of the receiver, `errB * TM_SOH`, take less than `TM_VL`
(10 times 0.9 s against 15 s with `FAST_SIM`, which `PeerY.h` defines).

**The medium** chooses what to harm by byte counts. The model lets it harm
anything, `MaxFaults` times:

| Fault | In `Medium.cpp` | Effect |
|---|---|---|
| `damaged` | corrupted or dropped byte behind a block's SOH | block of any quality but good |
| `beheaded` | the same in a block's SOH | the block's other 132 bytes, one by one |
| `garbled` | a corrupted single byte | noise |
| `stray` | a dropped single byte: the buffer's CAN fill moves into its place | CAN |
| `burst` | a corrupted single byte followed by the fill | noise, then CANs |
| `lost` | every 7th byte of the receiver | nothing arrives |
| `naked` | every 6th byte of the receiver | NAK arrives |
| `glitch` | `glitchCount` ahead of every 4th byte sent | any byte, then the answer |
| `extraAck` | `sendExtraAck` | ACK after the sender's next byte, before or after `dumpGlitches` |

**A block without its SOH** is not gone. The receiver reads the noise that the SOH has
become, or at once the block number, as a first byte: 1 is SOH, 4 EOT, 24 CAN, which
`NumByte` says of each number (`MCNumByte` puts them at 1, 2 and 3). A SOH there makes
`getRestBlk` read the rest as a short block (quality `rest`). Any other first byte
ends in a `purge()`, which takes what has come, but the medium forwards a block in pieces and `purge()` gives
up after ten bytes, so some of the complement, data and CRC may be read as first bytes
later: at most `RestLen` of them, each noise or one of `RestBytes`. The medium's reads of 70 bytes put
two places in a block where that can happen, hence `RestLen = 2`. What is
left of a stat block is taken for noise: it holds a name, a size and zeros, and we
assume that its CRC ends in none of the three bytes.

`purge()` reads once, for at most a buffer of bytes, whatever its comment says. It
discards any prefix of what is on the line, and may stop in the middle of a block
that is whole (`CutAt`), with the same consequences. A peer reads what has come to it whether or not
the medium has taken its last answer yet.

The environment of the open `ReceiverY`
(`Arrives`, `ByteArrives`) is what the sender's theorems say of the sender: blocks
in order, EOT after a file's last block, no block of a file that is done or whose EOTs
were answered. `EnvironmentKept` discharges it in the
session: TLC checks it in `MCYSessionPromise`, and it is proved for any number of
faults that make nothing up (section 5). An answer that becomes NAK or is made up as NAK or C
breaks it, as in `MCYSessionTruncated`.

**Sockets.** Every operation of `myIO.cpp` takes its object's mutex while it still holds
`mapMutex`, and keeps it until it returns or waits: in `MyIO` an operation is one
step up to its return or wait and one more from its wake-up to its return. `call`
holds, per thread, the call it waits in and whether it was woken; `written` and `taken` are
what the kernel was given and has handed out, against which `totalWritten` is judged. A
timed wait may end at any step (`Timed`; Part 3's `wait` has no time, and a read
that must wait there does so). `myRead` passes the time 0, so a blocking read waits only
in the sense that it releases the drainers.

**Threads.** In `Console` each thread is a place in its loop and the bits its last select()
set. The sockets carry counts of messages. A descriptor is ready when something is to be
read or its other end is closed; a read at a closed pair returns 0, a write there is
a SIGPIPE, which ends the process (`process`). The clock is one bit per terminal, `due`:
the absolute timeout has passed; `nowIsDue` is what the round's `now` says of it.
A chart's answer to an event is any of stop, set the timeout anew and send; one that
stops may write to the console, as `clearCan` does. An idle terminal reads in one step and
writes what it has read in another (`MediumReady` and `ShowsText`, `KbReady` and
`Command`), and so does the medium (`MsgFrom`, `Forwards`): somebody may close the other end
in between. In a transfer the byte read and the chart's answer are one step, as the answer
goes to the medium alone and the medium's end is seen before or after it.
The medium's extra ACK, which goes back to the terminal it reads from, is in `YSession` only.

**Driver.** In `UartAxi` each access to a register or to a queue that another party can come
between is a step. A byte is its number. The UART has a holding and a shift register;
its transmitter interrupt is raised when the holding register empties, and cleared
when it is identified or the register is written; the receiver's comes before it.
The receiver's queue never overflows (`RxDepth`): at 300 baud the handler is quicker.

## 3. The runs

| Run | Question | Bounds |
|---|---|---|
| `MCSenderY` | is the sender right whatever the other end does? | three files, one of which wraps the block number, one empty; errB 2, NumMod 4, ErrCap 4 |
| `MCReceiverY` | is the receiver right behind any line? | two files, the first wraps; errB 2, NumMod 4; any quality of block at any time |
| `MCYSession` | do both peers stop, whatever the fault? | one of any of the nine kinds; what is left of a block is SOH, EOT, CAN or noise; keyboard cancels at both ends; errB 3, NumMod 6, two files (three chunks and none); 150 551 states |
| `MCYSessionPromise` | is what the peers report true? | three faults of all kinds but `naked`, glitches that are no answers, cancels at both ends; errB 3, two files (one wraps, one is empty); 1 109 949 states |
| `MCYSessionArrive` | do the files arrive when the sender's messages are harmed less often than errB? | errB 4, 3 faults; 4 345 states |
| `MCMyIO` | are the socket pair's waiters woken, and not too early? | three threads on two descriptors, reads and writes of 1 or 2 bytes, 4 bytes each way |
| `MCUartAxi` | does the driver keep order and let nobody sleep for nothing? | two processes, queues of 2, 3 bytes each way, a byte sent at most twice |
| `MCConsole` | are timeouts posted, is nobody cut off early, and does the end of a thread reach the others? | three lines typed, one message of a chart; 353 368 states |
| `MCReceiverYStored`, `MCYSessionTruncated`, `MCUartAxiLost`, `MCConsoleQuit` | a statement of the repository that the code does not keep | see section 4 |

**Bounds.** `NumMod = 4` replaces 256: files of four chunks wrap the block number,
and the parity that picks the buffer survives since `NumMod` is even. Twice the bound
of errors must be at most `NumMod` for the wrap to be safe (20 against 256 in the
code, 4 against 4 here, so the instance is as tight as can be): each answered error
may let the sender skip two blocks, and beyond that a block from a whole wrap later
could pass for the next one. `ReceiverYDiskProofs` proves it from that assumption. `CAN_LEN = 2` replaces 8, as two in
a row are what the charts look for. `ErrCap` bounds `errCnt` in the two leaves
where the code does not; in a session it is beyond what the receiver's own
bound can reach. The sessions have `errB = 3` and `NumMod = 6`: with a bound of 2 the
second repeat of a stat block already ends the session, which hides those in which the sender is a
block ahead of the receiver; 3 lets them go on, and is again as tight as `2 * errB <= NumMod` allows.
(`MCYSessionPromise` was also run with four faults, and without keyboards with `errB = 5` and `NumMod = 10`.) Its three
faults reach the bound, so sessions that give up are among them. `MaxDone` bounds the files completed in the receiver's open
environment. `MaxFaults = 3` with `errB = 4` is tight: with 4 faults
`AllArrive` fails, as it should. It takes its faults from the sender's direction and glitches
that are noise: any single `stray`, `burst`, `lost`, `naked` or `extraAck`, or an EOT or CAN among the
rests of a beheaded block, keeps a file from arriving. Queues of two bytes are full, half full and empty within
three bytes, and a copy of two bytes passes a process that waits for room. Three
typed lines start a transfer at both ends and cancel one, or start one, send a text
and cancel in the round of its arrival.

**Deadlock** is not checked: peers stop, threads end, and users need not call; then nothing
is left to do. That nobody waits for ever is stated as liveness instead.

**Properties.** In `SenderY`: `BlocksInOrder` (with the prefetch, the wrap, resends
and file changes), `DescriptorMatchesState`, `EotAfterLastBlock`, `ResultTruthful`,
`CanResumes`, `NoBlockAfterCancel`, `ErrorsBounded`, the liveness property
`CancelTakesEffect`, and `SenderInv`, the invariant of the proofs. In
`ReceiverY`: `DiskHoldsPrefix`, `SizeExact`, `DescriptorMatchesState`,
`ErrorsBounded`, `AckedIsStoredUnlessAstray`, `NoWriteAfterCancel`, and the liveness
properties `CancelTakesEffect` and `SilenceStops`. In `YSession`: `Promise` (the
session implements `FileTransfer` under a refinement mapping from disk and result
to `received` and `complete`), `SenderClaimsTrue`, `EnvironmentKept`, `BothStop`,
`AllArrive`. In `MyIO`: `CountersExact`, `NobodyForgotten` (no lost wake-up),
`WokenOnlyWhenDrained` (no early one) and `CallsReturn`. In `UartAxi`:
`ReceivedInOrder`, `SentInOrder`, `SleepersHaveReason` and `BytesMove`. In `Console`:
`NoBrokenPipe` (while nobody quits no write meets a closed socket and the medium goes on),
`TimeoutIsPostedWhileOpen`, `QuitSpreads` (after `~q!`, with no transfer running, all threads end or
the process does; in order, if nothing was on its way or read and not written). Every property has in `PROJECT.json` a mutant of the code (a dropped
guard, a wrong buffer, a missing reset) that breaks it; the mutants stand
before the definitions they change.

**Fairness.** `SenderY!FairSpec` has weak fairness of the chart's own timeout: after
a cancel no byte re-arms it, but 'C' in `EOT1`, at most `errB` times. The receiver's
has weak fairness of its timeouts: what it does not answer leaves the absolute
timeout alone. Both rest on the select() loop reaching its timeout. The loop posts a
timeout only when select() finds nothing to read, so a line that sends without ever
pausing would starve it; the lines here do not (a sender waits for its answer, a receiver
writes only when it answers or times out). `Console` shows what else this rests on:
`TimeoutIsPostedWhileOpen` holds as long as no socket is closed, `TimeoutIsPosted` does not
(`MCConsoleQuit`). There each thread gets on, time passes, and nobody has to type. In
`MyIO` a woken thread runs, a timed wait ends, and readers read again, as the
library's users do. In `UartAxi` the UART, handler, tasklet and woken processes get on;
nothing has to arrive and nobody has to call. In a session the three threads are
scheduled: weak fairness of each peer and of each direction of the medium, none of
the faults nor of the keyboard.

## 4. Where the code and its words part

* **`MCReceiverYStored`**: `goodBlk1st` "is an indication of when a block should be
  written to disk" (`ReceiverY.cpp:91`). A lone CAN in the data phase sends the
  chart to `FirstByteStat`: the next data block is taken for a stat block, creates a
  file named by its data and is acknowledged without being written.
  `astray` marks these behaviours, and the properties that need it say so.
* **`MCYSessionTruncated`**: the README claims "robustness in the presence of
  unexpected ACKs or data corruption" (`README.md:32`). One answer is enough: the ACK of a stat block
  becomes NAK, the sender sends the block again for the NAK and for the C behind it, the receiver
  answers both, and from then on each answer reaches the sender one block early. Its last block
  comes while the receiver is busy with the one before, and is thrown away; the ACK of that one makes it go on
  to EOT, which the receiver accepts with `bytesRemaining > 0`. Both report the
  file done, without its last chunk.
* **`MCUartAxiLost`**: the tasklet "runs when there is data in the out_fifo and the UART
  transmitter is ready to send more data" (`main.c:182`). The transmitter's interrupt is
  cleared when the handler reads which one it is; if a byte has arrived by the time it
  looks at the receiver (`:214`), it reads that byte instead, and the tasklet is not
  scheduled before the next write.
* **`MCConsoleQuit`**: posting TM when a read returns 0 "won't be needed later because timeout
  will occur after the select() function" (`PeerY.cpp:222`). After `~q!` the console's
  socket is always ready, select() never times out, and a transfer that waits for
  its timeout goes round for ever; the program does not end.

Also seen while modelling, and kept in the models: the stat block is resent without
looking at `errB` (`ySenderSS.cpp:867`, `:579`), which `PeerY.h:42` calls the number of
errors in a row that are allowed; with no file open a plain repeat of a block counts as
a loss of synchronization (`ReceiverY.cpp:131`, against the comment at `:86`); when the ACK of
the second EOT is lost the receiver asks with 'C', which `EOTEOT` ignores, and
both give up; the
receiver leaves its file open when it gives up or is cancelled; a sender cancelled in
`StatC` sends no CANs and drops what its result said before; an ACK in `EOT1` passes over
the "Done" of that file; a `&c` typed when the transfer has just stopped goes to the other
terminal as text, and one handled in the same round as the byte that stops the chart
ends the program by an uncaught exception (`Not Running`); a message on its way to a
terminal that has ended ends it by SIGPIPE, and so does text or a `&q!` that a terminal has read when
`~q!` closes the console before it writes; `uart_send` may send a byte more
than once. And of `myIO.cpp`: data left at a descriptor whose pair is closed is not
read any more (`:134`); the test of Part 3 expects -1 there where the code returns 0;
with two readers on one descriptor "totalWritten must be less than min" (`:158`) is not
so, and the model keeps to one.

## 5. The proofs

The proofs hold for every value of the constants, from the assumptions named in the
modules that declare them and checked by TLC on every instance: `FilesAssumption`,
`NumModAssumption` (even, above 2), `BoundAssumption`, and one per module
(`ErrCapAssumption`, `ReceiverAssumption`, `ThreadsAssumption`, `SizesAssumption` and so on).
`Spec` is the specification without fairness.

| Module | Theorem | States |
|---|---|---|
| `SenderYProofs` | `SenderInvariant` | `[]IInv` |
| | `TypeCorrect`, `BuffersHoldBlocks` | `[]TypeOK`, `[]SenderInv` |
| | `DescriptorSafe`, `ErrorsStayBounded` | `[]DescriptorMatchesState`, `[]ErrorsBounded` |
| | `OrderedBlocks`, `EotSafe` | `BlocksInOrder`, `EotAfterLastBlock` |
| | `CancelStopsBlocks`, `StrayCan`, `TruthfulResult` | `NoBlockAfterCancel`, `CanResumes`, `ResultTruthful` |
| `ReceiverYProofs` | `ReceiverInvariant` | `[]IInv` |
| | `TypeCorrect`, `SizesCorrect` | `[]TypeOK`, `[]SizeExact` |
| | `DescriptorSafe`, `ErrorsStayBounded` | `[]DescriptorMatchesState`, `[]ErrorsBounded` |
| | `CancelStopsWrites` | `NoWriteAfterCancel` |
| `ReceiverYDiskProofs` | `DiskCorrect` | `[]DiskHoldsPrefix`, given `2 * errB <= NumMod` |
| | `AcksCorrect` | `AckedIsStoredUnlessAstray`, given the same |
| `MyIOProofs` | `SocketInvariant`, `TypeCorrect` | `[]IInv`, `[]TypeOK` |
| | `CountersCorrect` | `[]CountersExact` |
| | `NoLostWakeup`, `NoEarlyWakeup` | `[]NobodyForgotten`, `WokenOnlyWhenDrained` |
| `UartAxiProofs` | `DriverInvariant`, `TypeCorrect` | `[]IInv`, `[]TypeOK` |
| | `SleepersCorrect` | `[]SleepersHaveReason` |
| | `OrderInvariant` | the invariant for the order of bytes |
| | `ReceiverCorrect`, `SenderCorrect` | `[]ReceivedInOrder`, `[]SentInOrder` |
| `ConsoleProofs` | `ConsoleInvariant`, `TypeCorrect` | `[]IInv`, `[]TypeOK` |
| | `PipesHold` | `[]NoBrokenPipe` |
| `YSessionProofs` | `LineInvariant`, `LineTyped` | `[](IInv /\ LineTypeOK)`, `[]LineTypeOK` |
| | `SenderInSession` | a session's sender implements `SenderY!Spec` |
| | `PeersInStep` | `[]InStep`, given `NothingMadeUp` |
| | `ClaimsTrue` | `[]SenderClaimsTrue`, given the same |
| | `PromiseKept` | `Promise`: `Session` implements `FileTransfer`, given the same |
| | `EnvironmentHolds`, `ReceiverInSession` | `EnvironmentKept`; a session's receiver implements `R!Spec`, given the same |

`NothingMadeUp` is a condition on the medium, not on the peers: `FaultKinds` has
`damaged`, `garbled` and `lost` only, each as often as `MaxFaults` (any number) allows. A
block may be harmed anywhere behind its SOH, an EOT become noise, and any byte of the receiver be lost. `beheaded`
is not among them: a block's number is then read as a first byte, and blocks 4 and 24
make up an EOT and a CAN.

**Sender.** `BlocksInOrder` is not inductive, since a resend takes a buffer filled
two steps before. `IInv` is `TypeOK` with `SenderInv`, which says what the two
buffers hold by the state the chart is in *or will resume* (`cur`). While an answer
is awaited (`BlockOut`) the buffer of the previous number holds the block that is out,
and the other one its successor if `bytesRd` is not zero; that the buffers do not
collide across the wrap is where the modulus has to be even. Before a stat block
(`StatPrepared`) buffer 0 holds it, and it follows the last block. From EOT on
(`FileEnded`) the last block was the file's last and the file is closed. `Pending`
says that history and held timeout of a pending CAN are the state and timeout it
interrupted. Each action is a lemma or a step; the action properties follow from `IInv`
and `Next`.

**Receiver.** `IInv` adds to the properties what the chart's history can hold: never
a substate of the data phase, so that a CAN's return goes to `FirstByteStat` or
`AreWeDone`, which `astray` then records. The errors need a bound per state
(`ErrorsOK`): the first EOT and the block after it are counted without a comparison.
For the disk, `Progress` says, while bytes of a file are due, that `numLastGoodBlk` is the number of
the last chunk taken (`Taken`: those on disk, and one more while its answer waits) and that
the last block received is at most two ahead of it for each error in a row. So two
numbers can agree only if the blocks do (`NumTells`), and a next file's stat block
cannot arrive before the last chunk was taken, which `DoneOK` and the sender's
order give. The theorem rests on what `Arrives` assumes of the sender; `SenderYProofs`
shows that of the sender, and `EnvironmentHolds` of the session.

For the acknowledgements, `AInv` says that a block about to be answered as good carries
the number of the last good block (`JudgedOK`), that the chart answers data only inside a file
of the list, and, where a stat block is due, how far the sender can be (`StatNext`):
at the last block of the file before, or, when the stat block itself was harmed, less than two
blocks further for each error. So no data block there can be a wrap away and be taken
for a stat block, which is the one way to acknowledge what is not stored
that is left once no CAN is astray. This proof failed at first for a good reason. The
environment let the sender resend a block of a file whose EOTs had been
answered, and with the number 0 such a block does pass for a stat block;
TLC found the case on files of three and four chunks. No sender does that, and `Arrives` says so now
(`JustClosed`); `EnvironmentHolds` shows that the sender of a session keeps to it.

**Sockets.** `IInv` is the two properties with their types, what `pair` tells (`PairTells`:
the other descriptor while it is open, that it is closed afterwards), that no call
waits on a closed descriptor (`WaitersOpen`), and that a descriptor has one waiting
reader at most (`OneReader`), which is what ties `maxTotalCanRead` to a single request.

**Driver.** `DriverInvariant` is `TypeOK` by the party that changes a variable, with
`LocksHold` (one process reads at a time, and one writes) and `SleepersHaveReason`, which is
inductive beside it. `OrderInvariant` lays the places a byte passes (queue, local
variable, holding and shift register, line) end to end and says how the numbers in each
follow those in the next; a byte that `uart_send` repeats stands in two of them.

**Threads.** The types need to know that a bit which
select() set still stands for something to read when the thread comes to look
at it, unless the other end has closed since (`SetsOK`): then each read takes off
a count or a queue that is not empty. `NoBrokenPipe` is not inductive, as the medium ends by a flag that one of its
sockets sets and the other overwrites or leaves from an earlier round. `PipesOK` says that the flag is never set without a
terminal that has ended, and that a SIGPIPE has the KVM or such a terminal behind it.

**Session.** Three things hold over any line, with all nine kinds of fault. The line
keeps its types, the sender's `IInv` is kept, and a step of the session is a
step of `SenderY` or leaves it alone (`SenderInSession`), so that all theorems about `SenderY` are
theorems about sessions.

The rest needs `InStep`, which says by the phase the *receiver* is in where the sender
can be and what can be under way between them: it waits for a stat block (`StatDue`),
for data (`DataDue`), is about to answer (`Judged`), has questioned an EOT
(`EndDue`), has answered the empty stat block (`AllThere`), or one of the two has
ended or is cancelling (`SenderGone`, `ReceiverGone`). With the phase go what the receiver's history can
bring back (`RHistOK`), what is on disk (`DiskOK`) and what the sender has claimed
(`ClaimsOK`). In each phase at most one message, or the answer to it, is on the line,
and the sender's block is the one the receiver took last or the one it waits for. TLC checked
`InStep` as an invariant of a small instance before it was proved. The proof has a lemma for
each phase and event. `SenderClaimsTrue` follows from `ClaimsOK` and `DiskOK`. For `Promise`, a step of the
receiver leaves disk and count alone, or writes one chunk and is `FileTransfer`'s `Chunk`,
or completes a file all of which is there. `EnvironmentKept` follows from the invariant before
the step; and since it says that what the receiver is handed is what `Arrives` and
`ByteArrives` allow, a session's receiver is a `ReceiverY` (`ReceiverInSession`), to which
the theorems about `ReceiverY` apply.

`NothingMadeUp` cannot simply be dropped. One ACK that becomes NAK makes the sender's claim
false (`MCYSessionTruncated`). One beheaded block 24 breaks `Promise`: its number is a CAN, by which the
receiver's data phase goes astray; a beheaded block 4 does with one fault more, and so does a glitch byte that happens to be an
ACK, with one block damaged. A glitch that is NAK or C breaks `EnvironmentKept` by itself. What remains of the kinds of fault it leaves out, TLC
checks in `MCYSessionPromise`: beheaded blocks whose bytes are SOH or noise, stray CANs and bursts, extra ACKs, and
glitches the sender takes for no answer.

Only model-checked: liveness (`CancelTakesEffect` of both peers, `SilenceStops`, `BothStop`,
`AllArrive`, `CallsReturn`, `BytesMove`, `TimeoutIsPostedWhileOpen`, `QuitSpreads`), which TLAPS
cannot prove here, and the session's safety properties under the kinds of fault that
`NothingMadeUp` leaves out.

## 6. Not modelled

Clock values beyond whether a timeout has passed; CRC arithmetic; logging; the
medium's byte counts, replaced by a choice. The circular buffer of Part 3 is compiled into no
build (`CIRCBUF` is commented out). `uart_open`, `uart_release` and `uart_poll` change
nothing; the driver's set-up and removal are `Init` and the end. Writes to a
socket never block here: the kernel's buffer is larger than what the protocol has
on its way. Helpers (error macros, console locks, thread wrapper) and the earlier
parts' versions of the same peers have no state of their own that the models lack.

## 7. Plan

Done: all modules of section 2, and a theorem for every safety property that a passing run checks. Next, in
this order:

1. `PeersInStep` for kinds of fault that make up bytes but no answers (`stray`, `burst`, and
   `beheaded` with bytes that are SOH or noise): a CAN
   can then send the receiver's data phase astray, so `InStep` needs a phase for it.
2. The same for `extraAck`, for which TLC finds the promise kept; for `naked` it is not.
