------------------------------- MODULE Console -------------------------------
(***************************************************************************)
(* The threads of Part 6 and the sockets between them: the KVM thread that *)
(* routes typed lines, two terminals, each idle or in the event loop of a  *)
(* transfer (PeerY::transferCommon), and the medium; how the program ends, *)
(* and when a timeout is posted.                                           *)
(*                                                                         *)
(* What a statechart does with an event is left open here: it may stop,    *)
(* set its timeout anew, and send.  (SenderY and ReceiverY say what.)  A   *)
(* timeout that is made earlier or popped when it has passed is one set    *)
(* anew, or kept, whose time passes at once.  The sockets carry counts of  *)
(* messages; a read at a socket whose pair is closed returns 0 (MyIO), and *)
(* a write there ends the process by SIGPIPE, which nothing ignores.       *)
(***************************************************************************)
EXTENDS Integers, Sequences

CONSTANTS
  MaxLines,  \* bound: lines typed that go to a terminal
  MaxMsgs    \* bound: messages the statecharts send

ASSUME BoundsAssumption == MaxLines \in Nat /\ MaxMsgs \in Nat

VARIABLES
  process,        \* "runs", or what has ended it
  kvm,            \* the KVM's sockets
  typed, kbd,     \* lines typed so far, and per terminal those it has not read
  term,           \* per terminal, the variables of its thread
  medium,         \* those of the medium's thread
  toMedium, toTerm,  \* per terminal, messages on the way
  msgs            \* messages sent so far

vars == <<process, kvm, typed, kbd, term, medium, toMedium, toTerm, msgs>>

Terminals == {1, 2}
Other(t) == 3 - t

\* &r is &s here: either starts a transfer.  Any other line is as good as &c to
\* an idle terminal, which sends it on, and nothing to one in a transfer.
Lines == {"&s", "&c", "&q!"}

\* What has been read is written in a step of its own: from the medium at "show",
\* and a line of the keyboard at "command".
IdlePlaces == {"select", "medium", "show", "keyboard", "command"}
PeerPlaces == {"loop", "wait", "ser", "kb"}
Ended(t) == term[t].at = "ended"
MediumEnded == medium.at = "ended"

\* select() finds a descriptor ready when there is something to read and, for
\* ever after, when its pair is closed.
MediumReadable(t) == toTerm[t] > 0 \/ MediumEnded
KbReadable(t) == kbd[t] # <<>> \/ kvm = "closed"

Init ==
  /\ process = "runs"
  /\ kvm = "open"
  /\ typed = 0 /\ kbd = [t \in Terminals |-> <<>>]
  /\ term = [t \in Terminals |->
       [at |-> "select", mediumSet |-> FALSE, kbSet |-> FALSE, line |-> "", finished |-> FALSE,
        isRunning |-> FALSE, due |-> FALSE, nowIsDue |-> FALSE]]
  /\ medium = [at |-> "select", set |-> [t \in Terminals |-> FALSE], finished |-> FALSE]
  /\ toMedium = [t \in Terminals |-> 0] /\ toTerm = [t \in Terminals |-> 0]
  /\ msgs = 0

-----------------------------------------------------------------------------
(* The KVM thread.                                                         *)

\* A line for the terminal that ~1 or ~2 has selected, if need be just before.
Types(t, line) ==
  /\ process = "runs" /\ kvm = "open" /\ typed < MaxLines
  /\ typed' = typed + 1
  /\ kbd' = [kbd EXCEPT ![t] = Append(@, line)]
  /\ UNCHANGED <<process, kvm, term, medium, toMedium, toTerm, msgs>>

\* ~q!
Quits ==
  /\ process = "runs" /\ kvm = "open"
  /\ kvm' = "closed"
  /\ UNCHANGED <<process, typed, kbd, term, medium, toMedium, toTerm, msgs>>

Kvm == Quits \/ \E t \in Terminals, line \in Lines : Types(t, line)

-----------------------------------------------------------------------------
(* A terminal that is not in a transfer.                                   *)

TermSelects(t) ==
  /\ process = "runs" /\ term[t].at = "select"
  /\ MediumReadable(t) \/ KbReadable(t)
  /\ term' = [term EXCEPT ![t] = [@ EXCEPT !.at = "medium",
                !.mediumSet = MediumReadable(t), !.kbSet = KbReadable(t)]]
  /\ UNCHANGED <<process, kvm, typed, kbd, medium, toMedium, toTerm, msgs>>

\* MediumReady reads what has come, and then writes it to the console.
MediumReady(t) ==
  /\ process = "runs" /\ term[t].at = "medium"
  /\ LET reads == term[t].mediumSet /\ ~ MediumEnded
     IN /\ toTerm' = [toTerm EXCEPT ![t] = IF reads THEN 0 ELSE @]
        /\ term' = [term EXCEPT ![t] = [@ EXCEPT !.at = IF reads THEN "show" ELSE "keyboard",
                       !.mediumSet = FALSE, !.finished = term[t].mediumSet /\ MediumEnded]]
  /\ UNCHANGED <<process, kvm, typed, kbd, medium, toMedium, msgs>>

WritesConsole == process' = IF kvm = "closed" THEN "SIGPIPE" ELSE process
WritesMedium(t) ==
  /\ toMedium' = [toMedium EXCEPT ![t] = @ + 1]
  /\ process' = IF MediumEnded THEN "SIGPIPE" ELSE process

ShowsText(t) ==
  /\ process = "runs" /\ term[t].at = "show"
  /\ term' = [term EXCEPT ![t] = [@ EXCEPT !.at = "keyboard"]]
  /\ WritesConsole
  /\ UNCHANGED <<kvm, typed, kbd, medium, toMedium, toTerm, msgs>>

\* KbReady reads every line there is, of which the first decides; none at a
\* keyboard whose other end is closed.
KbReady(t) ==
  /\ process = "runs" /\ term[t].at = "keyboard"
  /\ \/ /\ term[t].kbSet /\ kvm = "open"
        /\ kbd' = [kbd EXCEPT ![t] = <<>>]
        /\ term' = [term EXCEPT ![t] = [@ EXCEPT !.at = "command", !.kbSet = FALSE, !.line = Head(kbd[t])]]
     \/ /\ ~ (term[t].kbSet /\ kvm = "open")
        /\ LET finished == term[t].finished \/ term[t].kbSet
           IN term' = [term EXCEPT ![t] = [@ EXCEPT !.at = IF finished THEN "ended" ELSE "select",
                         !.kbSet = FALSE, !.finished = finished]]
        /\ UNCHANGED kbd
  /\ UNCHANGED <<process, kvm, typed, medium, toMedium, toTerm, msgs>>

\* KbReady does what the line says: a transfer, which it announces on the console;
\* the end of the terminal, announced as well; or text for the other one.
Command(t) ==
  LET finished == term[t].finished \/ term[t].line = "&q!"
      Goes(at) == term' = [term EXCEPT ![t] = [@ EXCEPT !.at = at, !.line = "", !.finished = finished,
                             !.isRunning = at = "loop"]]
  IN /\ process = "runs" /\ term[t].at = "command"
     /\ \/ term[t].line = "&s" /\ Goes("loop") /\ WritesConsole /\ UNCHANGED toMedium
        \/ term[t].line = "&q!" /\ Goes("ended") /\ WritesConsole /\ UNCHANGED toMedium
        \/ term[t].line = "&c" /\ Goes(IF finished THEN "ended" ELSE "select") /\ WritesMedium(t)
     /\ UNCHANGED <<kvm, typed, kbd, medium, toTerm, msgs>>

-----------------------------------------------------------------------------
(* A terminal in a transfer: transferCommon.                               *)

\* The loop goes on at place at.  A descriptor's bit of the set is looked at
\* once, and what a round knows of the clock ends with it.
Place(t, at) ==
  [term[t] EXCEPT !.at = at, !.mediumSet = FALSE, !.kbSet = @ /\ at = "kb", !.nowIsDue = FALSE]

\* The chart handles an event; the loop goes on at place at.  A chart that stops
\* may show on the console the byte at which clearCan() ended.
Handles(t, at, stops, sets, sends) ==
  /\ term' = [term EXCEPT ![t] = [Place(t, at) EXCEPT !.isRunning = ~ stops, !.due = @ /\ ~ sets /\ ~ stops]]
  /\ sends => msgs < MaxMsgs
  /\ msgs' = IF sends THEN msgs + 1 ELSE msgs
  /\ toMedium' = [toMedium EXCEPT ![t] = IF sends THEN @ + 1 ELSE @]
  /\ process' \in IF sends /\ MediumEnded THEN {"SIGPIPE"}
                ELSE {process} \cup IF stops /\ kvm = "closed" THEN {"SIGPIPE"} ELSE {}

GoesTo(t, at) ==
  /\ term' = [term EXCEPT ![t] = Place(t, at)]
  /\ UNCHANGED <<process, toMedium, msgs>>

\* Every round looks at the clock once, before select().
LoopTop(t) ==
  /\ process = "runs" /\ term[t].at = "loop" /\ term[t].isRunning
  /\ term' = [term EXCEPT ![t] = [@ EXCEPT !.at = "wait", !.nowIsDue = term[t].due]]
  /\ UNCHANGED <<process, kvm, typed, kbd, medium, toMedium, toTerm, msgs>>

\* The transfer is over, and the terminal writes its result to the console.
TransferEnds(t) ==
  /\ process = "runs" /\ term[t].at = "loop" /\ ~ term[t].isRunning
  /\ term' = [term EXCEPT ![t] = [@ EXCEPT !.at = IF term[t].finished THEN "ended" ELSE "select"]]
  /\ WritesConsole
  /\ UNCHANGED <<kvm, typed, kbd, medium, toMedium, toTerm, msgs>>

\* select() finds something to read.
FindsInput(t) ==
  /\ process = "runs" /\ term[t].at = "wait"
  /\ MediumReadable(t) \/ KbReadable(t)
  /\ term' = [term EXCEPT ![t] = [Place(t, "ser") EXCEPT
                !.mediumSet = MediumReadable(t), !.kbSet = KbReadable(t)]]
  /\ UNCHANGED <<process, kvm, typed, kbd, medium, toMedium, toTerm, msgs>>

\* select() finds nothing before its time is over.  TM is posted if the timeout
\* had passed when the round began, otherwise the next round will find it so.
TimesOut(t) ==
  /\ process = "runs" /\ term[t].at = "wait"
  /\ ~ MediumReadable(t) /\ ~ KbReadable(t)
  /\ \/ /\ term[t].nowIsDue
        /\ \E stops, sets, sends \in BOOLEAN : (stops \/ sets) /\ Handles(t, "loop", stops, sets, sends)
     \/ ~ term[t].nowIsDue /\ term[t].due /\ GoesTo(t, "loop")
  /\ UNCHANGED <<kvm, typed, kbd, medium, toTerm>>

\* A byte from the medium is posted as SER; a read that returns 0 posts nothing.
Serial(t) ==
  /\ process = "runs" /\ term[t].at = "ser"
  /\ IF term[t].mediumSet /\ ~ MediumEnded
     THEN /\ toTerm' = [toTerm EXCEPT ![t] = @ - 1]
          /\ \E stops, sets, sends \in BOOLEAN : Handles(t, "kb", stops, sets, sends)
     ELSE GoesTo(t, "kb") /\ UNCHANGED toTerm
  /\ UNCHANGED <<kvm, typed, kbd, medium>>

ReadsLine_OnlyCancel(t) == term[t].kbSet /\ kvm = "open" /\ Head(kbd[t]) = "&c"
ReadsLine(t) == term[t].kbSet /\ kvm = "open"

\* &c is posted as KB_C, also when SER has just stopped the chart: postEvent then
\* throws "Not Running", which nothing catches.  Any other line is passed over.
Keyboard(t) ==
  LET cancels == ReadsLine(t) /\ Head(kbd[t]) = "&c"
  IN /\ process = "runs" /\ term[t].at = "kb"
     /\ kbd' = [kbd EXCEPT ![t] = IF ReadsLine(t) THEN Tail(@) ELSE @]
     /\ \/ /\ cancels /\ term[t].isRunning
           /\ \E stops, sets, sends \in BOOLEAN : Handles(t, "loop", stops, sets, sends)
        \/ /\ cancels /\ ~ term[t].isRunning
           /\ process' = "Not Running" /\ UNCHANGED <<term, toMedium, msgs>>
        \/ ~ cancels /\ GoesTo(t, "loop")
     /\ UNCHANGED <<kvm, typed, medium, toTerm>>

TimePasses(t) ==
  /\ process = "runs" /\ term[t].isRunning /\ ~ term[t].due
  /\ term' = [term EXCEPT ![t].due = TRUE]
  /\ UNCHANGED <<process, kvm, typed, kbd, medium, toMedium, toTerm, msgs>>

Terminal(t) ==
  \/ TermSelects(t) \/ MediumReady(t) \/ ShowsText(t) \/ KbReady(t) \/ Command(t)
  \/ LoopTop(t) \/ TransferEnds(t) \/ FindsInput(t) \/ TimesOut(t) \/ Serial(t) \/ Keyboard(t)

-----------------------------------------------------------------------------
(* The medium's thread.  Its own harm to what it forwards is in YSession;  *)
(* here it may swallow a byte on the way from terminal 1 to terminal 2.    *)

\* The two directions are served in turn; what was read is written in a step of
\* its own.
Reading == <<"term 1", "term 2">>
Forwarding == <<"forward 1", "forward 2">>
Following(t, finished) == IF t = 1 THEN Reading[2] ELSE IF finished THEN "ended" ELSE "select"

TermReadable(t) == toMedium[t] > 0 \/ Ended(t)

MediumSelects ==
  /\ process = "runs" /\ medium.at = "select"
  /\ \E t \in Terminals : TermReadable(t)
  /\ medium' = [medium EXCEPT !.at = Reading[1], !.set = [t \in Terminals |-> TermReadable(t)]]
  /\ UNCHANGED <<process, kvm, typed, kbd, term, toMedium, toTerm, msgs>>

ReadsTerm_Unasked(t) == ~ Ended(t)
ReadsTerm(t) == medium.set[t] /\ ~ Ended(t)

Finished_Anew(t) == medium.set[t] /\ Ended(t)
Finished_Idle(t) == medium.set[t] => Ended(t)
Finished(t) == IF medium.set[t] THEN Ended(t) ELSE medium.finished

\* MsgFromTerm1 and MsgFromTerm2, in that order in one round; each of them sets
\* finished, so that the second overwrites what the first has found.
MsgFrom(t, swallows) ==
  /\ process = "runs" /\ medium.at = Reading[t]
  /\ toMedium' = [toMedium EXCEPT ![t] = IF ReadsTerm(t) THEN @ - 1 ELSE @]
  /\ medium' = [medium EXCEPT !.set[t] = FALSE, !.finished = Finished(t),
                  !.at = IF ReadsTerm(t) /\ ~ swallows THEN Forwarding[t] ELSE Following(t, Finished(t))]
  /\ UNCHANGED <<process, kvm, typed, kbd, term, toTerm, msgs>>

\* What was read is written to the other terminal, which may have ended by then.
Forwards(t) ==
  /\ process = "runs" /\ medium.at = Forwarding[t]
  /\ toTerm' = [toTerm EXCEPT ![Other(t)] = @ + 1]
  /\ process' = IF Ended(Other(t)) THEN "SIGPIPE" ELSE process
  /\ medium' = [medium EXCEPT !.at = Following(t, medium.finished)]
  /\ UNCHANGED <<kvm, typed, kbd, term, toMedium, msgs>>

MsgFromTerm1 == (\E swallows \in BOOLEAN : MsgFrom(1, swallows)) \/ Forwards(1)
MsgFromTerm2 == MsgFrom(2, FALSE) \/ Forwards(2)

Medium == MediumSelects \/ MsgFromTerm1 \/ MsgFromTerm2

-----------------------------------------------------------------------------

Next ==
  \/ Kvm
  \/ \E t \in Terminals : Terminal(t) \/ TimePasses(t)
  \/ Medium

Spec == Init /\ [][Next]_vars

\* Each thread gets on when it can, and time passes; nobody has to type.
Fairness ==
  /\ WF_vars(Medium)
  /\ \A t \in Terminals : WF_vars(Terminal(t)) /\ WF_vars(TimePasses(t))

FairSpec == Spec /\ Fairness

-----------------------------------------------------------------------------

MediumPlaces == {"select", "ended"} \cup {Reading[t] : t \in Terminals} \cup {Forwarding[t] : t \in Terminals}

TypeOK ==
  /\ process \in {"runs", "SIGPIPE", "Not Running"}
  /\ kvm \in {"open", "closed"}
  /\ typed \in 0..MaxLines /\ kbd \in [Terminals -> Seq(Lines)]
  /\ term \in [Terminals ->
       [at : IdlePlaces \cup PeerPlaces \cup {"ended"}, mediumSet : BOOLEAN, kbSet : BOOLEAN,
        line : Lines \cup {""}, finished : BOOLEAN, isRunning : BOOLEAN, due : BOOLEAN, nowIsDue : BOOLEAN]]
  /\ medium \in [at : MediumPlaces, set : [Terminals -> BOOLEAN], finished : BOOLEAN]
  /\ toMedium \in [Terminals -> Nat] /\ toTerm \in [Terminals -> Nat]
  /\ msgs \in 0..MaxMsgs

\* A timeout that has passed is posted: the chart stops or sets it anew.
TimeoutIsPosted ==
  \A t \in Terminals : term[t].isRunning /\ term[t].due ~> ~ (term[t].isRunning /\ term[t].due)

AllOpen == kvm = "open" /\ \A t \in Terminals : ~ Ended(t)

\* As long as nobody quits and the process lives, a timeout that has passed is
\* posted, whatever else is typed and sent.
TimeoutIsPostedWhileOpen == [](AllOpen /\ process = "runs") => TimeoutIsPosted

\* As long as nobody quits, no thread finds the other end of its socket closed:
\* the medium goes on, although the flag by which it stops is shared by its two
\* sockets and kept over its rounds, and no write ends the process.
NoBrokenPipe == AllOpen => process # "SIGPIPE" /\ ~ MediumEnded

\* ~q! reaches every thread.  With no transfer running and nothing on its way, or
\* read and not written yet, all of them end, in order; with no transfer running
\* they end or the process does, nobody waiting for ever.  And a terminal that
\* ends takes the medium with it.
NoTransfer == \A t \in Terminals : term[t].at \notin PeerPlaces
AllQuiet ==
  /\ \A t \in Terminals : /\ term[t].at \in {"select", "medium", "keyboard", "ended"}
                          /\ toMedium[t] = 0 /\ toTerm[t] = 0
  /\ \A t \in Terminals : medium.at # Forwarding[t]
AllEnded == MediumEnded /\ \A t \in Terminals : Ended(t)
QuitSpreads ==
  /\ kvm = "closed" /\ AllQuiet /\ process = "runs" ~> process = "runs" /\ AllEnded
  /\ kvm = "closed" /\ NoTransfer ~> AllEnded \/ process # "runs"
  /\ (\E t \in Terminals : Ended(t)) ~> MediumEnded \/ process # "runs"
=============================================================================
