--------------------------- MODULE ConsoleProofs ---------------------------
(***************************************************************************)
(* Proofs about Console: its state keeps its types, and no thread finds a  *)
(* socket closed before somebody quits, for any number of lines and        *)
(* messages.                                                               *)
(*                                                                         *)
(* The types rest on what select() found still being there when the bit of *)
(* the descriptor is looked at: a line is there to be taken off its queue, *)
(* and a message to be taken off its count.  That nobody is cut off rests  *)
(* on the medium's flag "finished", which one direction sets and the other *)
(* may overwrite or keep: it is never set without a terminal that ended.   *)
(***************************************************************************)
EXTENDS Console, TLAPS

TermStates ==
  [at : IdlePlaces \cup PeerPlaces \cup {"ended"}, mediumSet : BOOLEAN, kbSet : BOOLEAN,
   line : Lines \cup {""}, finished : BOOLEAN, isRunning : BOOLEAN, due : BOOLEAN, nowIsDue : BOOLEAN]

\* A bit that select() has set, of a descriptor whose other end is still there,
\* stands for something to read.
KbSetOK(t) == term[t].kbSet /\ kvm = "open" => kbd[t] # <<>>
MediumSetOK(t) == term[t].mediumSet /\ ~ MediumEnded => toTerm[t] > 0
TermSetOK(t) == medium.set[t] /\ ~ Ended(t) => toMedium[t] > 0
SetsOK ==
  process = "runs" =>
    \A t \in Terminals : KbSetOK(t) /\ MediumSetOK(t) /\ TermSetOK(t)

\* Who has ended the medium, or the process by a write, is a terminal that ended
\* or the KVM.
SomeEnded == \E t \in Terminals : Ended(t)
PipesOK ==
  /\ medium.finished \/ MediumEnded => SomeEnded
  /\ process = "SIGPIPE" => kvm = "closed" \/ SomeEnded

IInv == TypeOK /\ SetsOK /\ PipesOK

-----------------------------------------------------------------------------

\* What a terminal's step does to its own variables, and to nobody else's.
LEMMA TermUpdate ==
  ASSUME TypeOK, NEW t \in Terminals, NEW r \in TermStates,
         term' = [term EXCEPT ![t] = r]
  PROVE  /\ term' \in [Terminals -> TermStates]
         /\ term'[t] = r
         /\ \A u \in Terminals \ {t} : term'[u] = term[u]
BY DEF TypeOK, TermStates

\* A terminal's state, field by field.
LEMMA TermFields ==
  ASSUME TypeOK, NEW t \in Terminals
  PROVE  /\ term[t] \in TermStates
         /\ term[t].at \in IdlePlaces \cup PeerPlaces \cup {"ended"}
         /\ term[t].mediumSet \in BOOLEAN /\ term[t].kbSet \in BOOLEAN
         /\ term[t].line \in Lines \cup {""}
         /\ term[t].finished \in BOOLEAN /\ term[t].isRunning \in BOOLEAN
         /\ term[t].due \in BOOLEAN /\ term[t].nowIsDue \in BOOLEAN
BY DEF TypeOK, TermStates

\* What a step leaves alone keeps its type, and is no less.
LEMMA KeptCounts ==
  ASSUME TypeOK
  PROVE  /\ UNCHANGED kbd => kbd' \in [Terminals -> Seq(Lines)] /\ \A u \in Terminals : kbd'[u] = kbd[u]
         /\ UNCHANGED toTerm => toTerm' \in [Terminals -> Nat] /\ \A u \in Terminals : toTerm'[u] = toTerm[u]
         /\ UNCHANGED toMedium => /\ toMedium' \in [Terminals -> Nat]
                                  /\ \A u \in Terminals : toMedium'[u] >= toMedium[u]
         /\ UNCHANGED msgs => msgs' \in 0..MaxMsgs
<1>1. ASSUME UNCHANGED toMedium, NEW u \in Terminals
      PROVE  toMedium'[u] >= toMedium[u]
  <2>1. toMedium[u] \in Nat
    BY DEF TypeOK
  <2> QED
    BY <2>1, <1>1
<1> QED
  BY <1>1 DEF TypeOK

\* The place a round goes on at: bits of the set are kept for the keyboard only.
LEMMA PlaceFields ==
  ASSUME TypeOK, NEW t \in Terminals, NEW at \in PeerPlaces
  PROVE  /\ Place(t, at) \in TermStates
         /\ Place(t, at).at = at /\ ~ Place(t, at).mediumSet
         /\ Place(t, at).kbSet <=> term[t].kbSet /\ at = "kb"
         /\ Place(t, at).due = term[t].due
<1>1. term[t] \in TermStates
  BY DEF TypeOK, TermStates
<1>2. (term[t].kbSet /\ at = "kb") \in BOOLEAN
  OBVIOUS
<1>3. Place(t, at) = [term[t] EXCEPT !.at = at, !.mediumSet = FALSE,
                        !.kbSet = (term[t].kbSet /\ at = "kb"), !.nowIsDue = FALSE]
  BY DEF Place
<1>4. QED
  BY <1>1, <1>2, <1>3 DEF TermStates, PeerPlaces

\* A step of a terminal that leaves it in state r keeps the invariant, if the
\* bits set in r stand for something to read and it meets SIGPIPE only where the
\* KVM or the medium has closed.
LEMMA TerminalInv ==
  ASSUME IInv, NEW t \in Terminals, NEW r \in TermStates,
         process = "runs", ~ Ended(t),
         term' = [term EXCEPT ![t] = r],
         process' \in {"runs", "SIGPIPE", "Not Running"},
         UNCHANGED <<kvm, typed, medium>>,
         kbd' \in [Terminals -> Seq(Lines)], \A u \in Terminals \ {t} : kbd'[u] = kbd[u],
         toTerm' \in [Terminals -> Nat], \A u \in Terminals \ {t} : toTerm'[u] = toTerm[u],
         toMedium' \in [Terminals -> Nat], \A u \in Terminals : toMedium'[u] >= toMedium[u],
         msgs' \in 0..MaxMsgs,
         process' = "SIGPIPE" => kvm = "closed" \/ MediumEnded,
         process' = "runs" /\ r.kbSet /\ kvm = "open" => kbd'[t] # <<>>,
         process' = "runs" /\ r.mediumSet /\ ~ MediumEnded => toTerm'[t] > 0
  PROVE  IInv'
<1>1. /\ term' \in [Terminals -> TermStates] /\ term'[t] = r
      /\ \A u \in Terminals \ {t} : term'[u] = term[u]
  BY TermUpdate DEF IInv
<1>2. TypeOK'
  BY <1>1 DEF IInv, TypeOK, TermStates
<1>3. SetsOK'
  <2> SUFFICES ASSUME process' = "runs", NEW u \in Terminals
               PROVE  KbSetOK(u)' /\ MediumSetOK(u)' /\ TermSetOK(u)'
    BY DEF SetsOK
  <2>1. KbSetOK(u) /\ MediumSetOK(u) /\ TermSetOK(u)
    BY DEF IInv, SetsOK
  <2>2. KbSetOK(u)'
    BY <1>1, <2>1 DEF KbSetOK
  <2>3. MediumSetOK(u)'
    BY <1>1, <2>1 DEF MediumSetOK, MediumEnded
  <2>4. Ended(u) => Ended(u)'
    BY <1>1 DEF Ended
  <2>5. toMedium[u] \in Nat /\ toMedium'[u] \in Nat /\ toMedium'[u] >= toMedium[u]
    BY DEF IInv, TypeOK
  <2>6. TermSetOK(u)'
    BY <2>1, <2>4, <2>5 DEF TermSetOK
  <2> QED
    BY <2>2, <2>3, <2>6
<1>4. PipesOK'
  <2>1. \A u \in Terminals : Ended(u) => Ended(u)'
    BY <1>1 DEF Ended
  <2>2. SomeEnded => SomeEnded'
    BY <2>1 DEF SomeEnded
  <2> QED
    BY <2>2 DEF IInv, PipesOK, MediumEnded
<1> QED
  BY <1>2, <1>3, <1>4 DEF IInv

\* What the chart does with an event, as far as the lemma above asks for it.
LEMMA HandlesFacts ==
  ASSUME IInv, NEW t \in Terminals, NEW at \in {"loop", "kb"},
         NEW stops \in BOOLEAN, NEW sets \in BOOLEAN, NEW sends \in BOOLEAN,
         process = "runs", Handles(t, at, stops, sets, sends)
  PROVE  /\ \E r \in TermStates :
              /\ term' = [term EXCEPT ![t] = r]
              /\ r.at = at /\ ~ r.mediumSet /\ (r.kbSet => term[t].kbSet /\ at = "kb")
         /\ process' \in {"runs", "SIGPIPE", "Not Running"}
         /\ process' = "SIGPIPE" => kvm = "closed" \/ MediumEnded
         /\ toMedium' \in [Terminals -> Nat] /\ \A u \in Terminals : toMedium'[u] >= toMedium[u]
         /\ msgs' \in 0..MaxMsgs
<1> USE DEF IInv
<1> DEFINE r == [Place(t, at) EXCEPT !.isRunning = ~ stops, !.due = @ /\ ~ sets /\ ~ stops]
<1>1. Place(t, at) \in TermStates /\ Place(t, at).at = at /\ ~ Place(t, at).mediumSet
      /\ (Place(t, at).kbSet => term[t].kbSet /\ at = "kb")
  BY PlaceFields DEF PeerPlaces
<1>2. (~ stops) \in BOOLEAN /\ (Place(t, at).due /\ ~ sets /\ ~ stops) \in BOOLEAN
  OBVIOUS
<1>3. r = [Place(t, at) EXCEPT !.isRunning = (~ stops), !.due = (Place(t, at).due /\ ~ sets /\ ~ stops)]
  OBVIOUS
<1>4. /\ r \in TermStates /\ r.at = at /\ ~ r.mediumSet
      /\ (r.kbSet => term[t].kbSet /\ at = "kb")
  BY <1>1, <1>2, <1>3 DEF TermStates
<1>5. term' = [term EXCEPT ![t] = r]
  BY DEF Handles
<1>6. /\ process' \in {"runs", "SIGPIPE", "Not Running"}
      /\ process' = "SIGPIPE" => kvm = "closed" \/ MediumEnded
  BY DEF Handles
<1>7. toMedium' \in [Terminals -> Nat] /\ \A u \in Terminals : toMedium'[u] >= toMedium[u]
  <2>1. toMedium \in [Terminals -> Nat]
    BY DEF TypeOK
  <2>2. toMedium' = [toMedium EXCEPT ![t] = IF sends THEN toMedium[t] + 1 ELSE toMedium[t]]
    BY DEF Handles
  <2>3. CASE sends
    BY <2>1, <2>2, <2>3
  <2>4. CASE ~ sends
    BY <2>1, <2>2, <2>4
  <2> QED
    BY <2>3, <2>4
<1>8. msgs' \in 0..MaxMsgs
  <2>1. msgs \in 0..MaxMsgs /\ MaxMsgs \in Nat
    BY BoundsAssumption DEF TypeOK
  <2>2. (sends => msgs < MaxMsgs) /\ msgs' = IF sends THEN msgs + 1 ELSE msgs
    BY DEF Handles
  <2> HIDE DEF IInv
  <2>3. CASE sends
    BY <2>1, <2>2, <2>3
  <2>4. CASE ~ sends
    BY <2>1, <2>2, <2>4
  <2> QED
    BY <2>3, <2>4
<1> HIDE DEF r
<1> QED
  BY <1>4, <1>5, <1>6, <1>7, <1>8

\* The loop going on, with no event.
LEMMA GoesToFacts ==
  ASSUME IInv, NEW t \in Terminals, NEW at \in {"loop", "kb"},
         process = "runs", GoesTo(t, at)
  PROVE  /\ \E r \in TermStates :
              /\ term' = [term EXCEPT ![t] = r]
              /\ r.at = at /\ ~ r.mediumSet /\ (r.kbSet => term[t].kbSet /\ at = "kb")
         /\ process' = "runs" /\ UNCHANGED <<toMedium, msgs>>
BY PlaceFields DEF GoesTo, IInv, PeerPlaces

-----------------------------------------------------------------------------
(* One lemma per thread, one step per action.                              *)

LEMMA KvmStep ==
  ASSUME IInv, Kvm
  PROVE  IInv'
<1>1. CASE Quits
  BY <1>1 DEF IInv, Quits, TypeOK, SetsOK, KbSetOK, MediumSetOK, TermSetOK, PipesOK, SomeEnded,
              Ended, MediumEnded
<1>2. ASSUME NEW t \in Terminals, NEW line \in Lines, Types(t, line)
      PROVE  IInv'
  <2>1. kbd \in [Terminals -> Seq(Lines)] /\ kbd' = [kbd EXCEPT ![t] = Append(kbd[t], line)]
    BY <1>2 DEF IInv, TypeOK, Types
  <2>2. kbd' \in [Terminals -> Seq(Lines)] /\ \A u \in Terminals : kbd[u] # <<>> => kbd'[u] # <<>>
    BY <2>1
  <2>3. typed' \in 0..MaxLines
    <3>1. typed \in 0..MaxLines /\ typed < MaxLines /\ typed' = typed + 1 /\ MaxLines \in Nat
      BY <1>2, BoundsAssumption DEF IInv, TypeOK, Types
    <3> QED
      BY ONLY <3>1
  <2>4. UNCHANGED <<process, kvm, term, medium, toMedium, toTerm, msgs>>
    BY <1>2 DEF Types
  <2> QED
    BY <2>2, <2>3, <2>4 DEF IInv, TypeOK, SetsOK, KbSetOK, MediumSetOK, TermSetOK,
                            PipesOK, SomeEnded, Ended, MediumEnded
<1> QED
  BY <1>1, <1>2 DEF Kvm

\* The steps of an idle terminal.
LEMMA IdleStep ==
  ASSUME IInv, NEW t \in Terminals,
         TermSelects(t) \/ MediumReady(t) \/ ShowsText(t) \/ KbReady(t) \/ Command(t)
  PROVE  IInv'
<1> DEFINE x == term[t]
<1>0. x \in TermStates /\ TypeOK /\ SetsOK
  BY TermFields DEF IInv
<1>1. CASE TermSelects(t)
  <2> DEFINE r == [x EXCEPT !.at = "medium", !.mediumSet = MediumReadable(t), !.kbSet = KbReadable(t)]
  <2>1. r \in TermStates /\ r.at = "medium" /\ r.mediumSet = MediumReadable(t) /\ r.kbSet = KbReadable(t)
    <3>1. MediumReadable(t) \in BOOLEAN /\ KbReadable(t) \in BOOLEAN
      BY DEF MediumReadable, KbReadable
    <3> QED
      BY <1>0, <3>1 DEF TermStates, IdlePlaces
  <2>2. term' = [term EXCEPT ![t] = r] /\ ~ Ended(t) /\ process = "runs"
    BY <1>1 DEF TermSelects, Ended
  <2>3. r.kbSet /\ kvm = "open" => kbd[t] # <<>>
    BY <2>1 DEF KbReadable
  <2>4. r.mediumSet /\ ~ MediumEnded => toTerm[t] > 0
    BY <2>1 DEF MediumReadable
  <2>5. UNCHANGED <<process, kvm, typed, kbd, medium, toMedium, toTerm, msgs>>
    BY <1>1 DEF TermSelects
  <2>6. /\ kbd' \in [Terminals -> Seq(Lines)]
        /\ toTerm' \in [Terminals -> Nat] /\ \A u \in Terminals : toTerm'[u] = toTerm[u]
        /\ toMedium' \in [Terminals -> Nat] /\ \A u \in Terminals : toMedium'[u] >= toMedium[u]
        /\ msgs' \in 0..MaxMsgs
    BY <2>5, KeptCounts DEF IInv
  <2> HIDE DEF r, x
  <2> QED
    BY <2>1, <2>2, <2>3, <2>4, <2>5, <2>6, TerminalInv
<1>2. CASE MediumReady(t)
  <2> DEFINE reads == x.mediumSet /\ ~ MediumEnded
             r == [x EXCEPT !.at = IF reads THEN "show" ELSE "keyboard", !.mediumSet = FALSE,
                      !.finished = (x.mediumSet /\ MediumEnded)]
  <2>1. r \in TermStates /\ ~ r.mediumSet /\ r.kbSet = x.kbSet
    <3>1. (x.mediumSet /\ MediumEnded) \in BOOLEAN
      OBVIOUS
    <3> QED
      BY <1>0, <3>1 DEF TermStates, IdlePlaces
  <2>2. term' = [term EXCEPT ![t] = r] /\ ~ Ended(t) /\ process = "runs"
    BY <1>2 DEF MediumReady, Ended
  <2>3. r.kbSet /\ kvm = "open" => kbd[t] # <<>>
    BY <1>0, <2>1, <2>2 DEF SetsOK, KbSetOK
  <2>4. toTerm' \in [Terminals -> Nat] /\ \A u \in Terminals \ {t} : toTerm'[u] = toTerm[u]
    BY <1>0, <1>2 DEF MediumReady, TypeOK
  <2>5. UNCHANGED <<process, kvm, typed, kbd, medium, toMedium, msgs>>
    BY <1>2 DEF MediumReady
  <2>6. /\ kbd' \in [Terminals -> Seq(Lines)]
        /\ toMedium' \in [Terminals -> Nat] /\ \A u \in Terminals : toMedium'[u] >= toMedium[u]
        /\ msgs' \in 0..MaxMsgs
    BY <2>5, KeptCounts DEF IInv
  <2> HIDE DEF r, x, reads
  <2> QED
    BY <2>1, <2>2, <2>3, <2>4, <2>5, <2>6, TerminalInv
<1>3. CASE ShowsText(t)
  <2> DEFINE r == [x EXCEPT !.at = "keyboard"]
  <2>1. r \in TermStates /\ r.mediumSet = x.mediumSet /\ r.kbSet = x.kbSet
    BY <1>0 DEF TermStates, IdlePlaces
  <2>2. term' = [term EXCEPT ![t] = r] /\ ~ Ended(t) /\ process = "runs"
        /\ UNCHANGED <<kvm, typed, kbd, medium, toMedium, toTerm, msgs>>
    BY <1>3 DEF ShowsText, Ended
  <2>3. /\ r.kbSet /\ kvm = "open" => kbd[t] # <<>>
        /\ r.mediumSet /\ ~ MediumEnded => toTerm[t] > 0
    BY <1>0, <2>1, <2>2 DEF SetsOK, KbSetOK, MediumSetOK
  <2>4. process' \in {"runs", "SIGPIPE", "Not Running"} /\ (process' = "SIGPIPE" => kvm = "closed")
    BY <1>3, <2>2 DEF ShowsText, WritesConsole
  <2> HIDE DEF r, x
  <2> QED
    BY <1>0, <2>1, <2>2, <2>3, <2>4, KeptCounts, TerminalInv
<1>4. CASE KbReady(t)
  <2> DEFINE reads == x.kbSet /\ kvm = "open"
             fin == x.finished \/ x.kbSet
             r1 == [x EXCEPT !.at = "command", !.kbSet = FALSE, !.line = Head(kbd[t])]
             r2 == [x EXCEPT !.at = IF fin THEN "ended" ELSE "select", !.kbSet = FALSE, !.finished = fin]
  <2>1. process = "runs" /\ ~ Ended(t) /\ UNCHANGED <<process, kvm, typed, medium, toMedium, toTerm, msgs>>
    BY <1>4 DEF KbReady, Ended
  <2>2. x.mediumSet /\ ~ MediumEnded => toTerm[t] > 0
    BY <1>0, <2>1 DEF SetsOK, MediumSetOK
  <2>3. CASE reads
    <3>1. kbd \in [Terminals -> Seq(Lines)] /\ kbd[t] # <<>>
      BY <1>0, <2>1, <2>3 DEF TypeOK, SetsOK, KbSetOK
    <3>2. Head(kbd[t]) \in Lines
      BY ONLY <3>1, t \in Terminals
    <3>3. r1 \in TermStates /\ ~ r1.kbSet /\ r1.mediumSet = x.mediumSet
      BY <1>0, <3>2 DEF TermStates, IdlePlaces
    <3>4. term' = [term EXCEPT ![t] = r1] /\ kbd' = [kbd EXCEPT ![t] = <<>>]
      BY <1>4, <2>3 DEF KbReady
    <3>5. <<>> \in Seq(Lines)
      OBVIOUS
    <3>6. kbd' \in [Terminals -> Seq(Lines)] /\ \A u \in Terminals \ {t} : kbd'[u] = kbd[u]
      BY ONLY <3>1, <3>4, <3>5, t \in Terminals
    <3> HIDE DEF r1, x
    <3> QED
      BY <1>0, <2>1, <2>2, <3>3, <3>4, <3>6, KeptCounts, TerminalInv
  <2>4. CASE ~ reads
    <3>1. fin \in BOOLEAN
      OBVIOUS
    <3> HIDE DEF fin
    <3>2. r2 \in TermStates /\ ~ r2.kbSet /\ r2.mediumSet = x.mediumSet
      BY <1>0, <3>1 DEF TermStates, IdlePlaces
    <3>3. term' = [term EXCEPT ![t] = r2] /\ UNCHANGED kbd
      BY <1>4, <2>4 DEF KbReady, fin
    <3> HIDE DEF r2, x
    <3> QED
      BY <1>0, <2>1, <2>2, <3>2, <3>3, KeptCounts, TerminalInv
  <2> QED
    BY <2>3, <2>4
<1>5. CASE Command(t)
  <2> DEFINE fin == x.finished \/ x.line = "&q!"
             r(at) == [x EXCEPT !.at = at, !.line = "", !.finished = fin, !.isRunning = (at = "loop")]
  <2>1. ASSUME NEW at \in {"loop", "ended", "select"}
        PROVE  r(at) \in TermStates /\ r(at).kbSet = x.kbSet /\ r(at).mediumSet = x.mediumSet
    <3>1. fin \in BOOLEAN /\ (at = "loop") \in BOOLEAN
      OBVIOUS
    <3> HIDE DEF fin
    <3> QED
      BY <1>0, <2>1, <3>1 DEF TermStates, IdlePlaces, PeerPlaces
  <2>2. PICK at \in {"loop", "ended", "select"} : term' = [term EXCEPT ![t] = r(at)]
    BY <1>5 DEF Command
  <2>3. process = "runs" /\ ~ Ended(t) /\ UNCHANGED <<kvm, typed, kbd, medium, toTerm, msgs>>
    BY <1>5 DEF Command, Ended
  <2>4. /\ process' \in {"runs", "SIGPIPE", "Not Running"}
        /\ process' = "SIGPIPE" => kvm = "closed" \/ MediumEnded
    BY <1>5, <2>3 DEF Command, WritesConsole, WritesMedium
  <2>5. toMedium' \in [Terminals -> Nat] /\ \A u \in Terminals : toMedium'[u] >= toMedium[u]
    <3>1. UNCHANGED toMedium \/ toMedium' = [toMedium EXCEPT ![t] = toMedium[t] + 1]
      BY <1>5 DEF Command, WritesMedium
    <3>2. toMedium \in [Terminals -> Nat]
      BY <1>0 DEF TypeOK
    <3> QED
      BY ONLY <3>1, <3>2, t \in Terminals
  <2>6. /\ x.kbSet /\ kvm = "open" => kbd[t] # <<>>
        /\ x.mediumSet /\ ~ MediumEnded => toTerm[t] > 0
    BY <1>0, <2>3 DEF SetsOK, KbSetOK, MediumSetOK
  <2>7. r(at) \in TermStates /\ r(at).kbSet = x.kbSet /\ r(at).mediumSet = x.mediumSet
    BY <2>1
  <2> HIDE DEF r, x
  <2> QED
    BY <1>0, <2>2, <2>3, <2>4, <2>5, <2>6, <2>7, KeptCounts, TerminalInv
<1> QED
  BY <1>1, <1>2, <1>3, <1>4, <1>5

\* The rounds of transferCommon that handle no event.
LEMMA RoundStep ==
  ASSUME IInv, NEW t \in Terminals,
         LoopTop(t) \/ TransferEnds(t) \/ FindsInput(t) \/ TimePasses(t)
  PROVE  IInv'
<1> DEFINE x == term[t]
<1>0. x \in TermStates /\ TypeOK /\ SetsOK
  BY TermFields DEF IInv
<1>1. /\ UNCHANGED <<kvm, typed, kbd, medium, toMedium, toTerm, msgs>> /\ process = "runs"
      /\ process' \in {"runs", "SIGPIPE", "Not Running"}
      /\ process' = "SIGPIPE" => kvm = "closed"
  BY DEF LoopTop, TransferEnds, FindsInput, TimePasses, WritesConsole
<1>2. /\ x.kbSet /\ kvm = "open" => kbd[t] # <<>>
      /\ x.mediumSet /\ ~ MediumEnded => toTerm[t] > 0
  BY <1>0, <1>1 DEF SetsOK, KbSetOK, MediumSetOK
<1> DEFINE Good(r) == /\ r \in TermStates
                      /\ r.kbSet /\ kvm = "open" => kbd[t] # <<>>
                      /\ r.mediumSet /\ ~ MediumEnded => toTerm[t] > 0
<1>3. ASSUME NEW r, Good(r), ~ Ended(t), term' = [term EXCEPT ![t] = r]
      PROVE  IInv'
  BY <1>0, <1>1, <1>3, KeptCounts, TerminalInv
<1>4. CASE LoopTop(t)
  <2> DEFINE r == [x EXCEPT !.at = "wait", !.nowIsDue = x.due]
  <2>1. Good(r)
    BY <1>0, <1>2 DEF TermStates, PeerPlaces
  <2>2. ~ Ended(t) /\ term' = [term EXCEPT ![t] = r]
    BY <1>4 DEF LoopTop, Ended
  <2> HIDE DEF r, Good
  <2> QED
    BY <1>3, <2>1, <2>2
<1>5. CASE TransferEnds(t)
  <2> DEFINE r == [x EXCEPT !.at = IF x.finished THEN "ended" ELSE "select"]
  <2>1. Good(r)
    BY <1>0, <1>2 DEF TermStates, IdlePlaces
  <2>2. ~ Ended(t) /\ term' = [term EXCEPT ![t] = r]
    BY <1>5 DEF TransferEnds, Ended
  <2> HIDE DEF r, Good
  <2> QED
    BY <1>3, <2>1, <2>2
<1>6. CASE FindsInput(t)
  <2> DEFINE p == Place(t, "ser")
             r == [p EXCEPT !.mediumSet = MediumReadable(t), !.kbSet = KbReadable(t)]
  <2>1. p \in TermStates /\ p.at = "ser"
    BY <1>0, PlaceFields DEF PeerPlaces
  <2>2. MediumReadable(t) \in BOOLEAN /\ KbReadable(t) \in BOOLEAN
    BY DEF MediumReadable, KbReadable
  <2> HIDE DEF p
  <2>3. r \in TermStates /\ r.at = "ser" /\ r.mediumSet = MediumReadable(t) /\ r.kbSet = KbReadable(t)
    BY <2>1, <2>2 DEF TermStates
  <2>4. Good(r)
    BY <2>3 DEF MediumReadable, KbReadable
  <2>5. ~ Ended(t) /\ term' = [term EXCEPT ![t] = r]
    BY <1>6 DEF FindsInput, Ended, p
  <2> HIDE DEF r, Good
  <2> QED
    BY <1>3, <2>4, <2>5
<1>7. CASE TimePasses(t)
  <2> DEFINE r == [x EXCEPT !.due = TRUE]
  <2>1. Good(r) /\ r.at = x.at
    BY <1>0, <1>2 DEF TermStates
  <2>2. term' = [term EXCEPT ![t] = r]
    BY <1>7 DEF TimePasses
  <2>3. CASE Ended(t)
    <3>1. /\ term' \in [Terminals -> TermStates] /\ term'[t] = r
          /\ \A u \in Terminals \ {t} : term'[u] = term[u]
      BY <1>0, <2>1, <2>2, TermUpdate
    <3>2. TypeOK'
      BY <1>0, <1>1, <1>7, <3>1 DEF TypeOK, TermStates, TimePasses
    <3>3. \A u \in Terminals : term'[u].at = term[u].at /\ term'[u].kbSet = term[u].kbSet
                               /\ term'[u].mediumSet = term[u].mediumSet
      BY <1>0, <3>1 DEF TermStates
    <3>4. SetsOK'
      BY <1>0, <1>1, <3>3 DEF SetsOK, KbSetOK, MediumSetOK, TermSetOK, Ended, MediumEnded
    <3>5. PipesOK'
      BY <1>1, <1>7, <3>3 DEF IInv, PipesOK, SomeEnded, Ended, MediumEnded, TimePasses
    <3> QED
      BY <3>2, <3>4, <3>5 DEF IInv
  <2>4. CASE ~ Ended(t)
    <3> HIDE DEF r, Good
    <3> QED
      BY <1>3, <2>1, <2>2, <2>4
  <2> QED
    BY <2>3, <2>4
<1> QED
  BY <1>4, <1>5, <1>6, <1>7

\* The rounds that may handle an event.
LEMMA EventStep ==
  ASSUME IInv, NEW t \in Terminals, TimesOut(t) \/ Serial(t) \/ Keyboard(t)
  PROVE  IInv'
<1> DEFINE
      Moved(at) == /\ \E r \in TermStates :
                        /\ term' = [term EXCEPT ![t] = r]
                        /\ r.at = at /\ ~ r.mediumSet /\ (r.kbSet => term[t].kbSet /\ at = "kb")
                   /\ process' \in {"runs", "SIGPIPE", "Not Running"}
                   /\ process' = "SIGPIPE" => kvm = "closed" \/ MediumEnded
                   /\ toMedium' \in [Terminals -> Nat]
                   /\ \A u \in Terminals : toMedium'[u] >= toMedium[u]
                   /\ msgs' \in 0..MaxMsgs
<1>0. TypeOK /\ SetsOK /\ process = "runs" /\ ~ Ended(t) /\ UNCHANGED <<kvm, typed, medium>>
  BY DEF IInv, TimesOut, Serial, Keyboard, Ended
<1>1. ASSUME NEW at \in {"loop", "kb"},
             \/ GoesTo(t, at)
             \/ \E stops, sets, sends \in BOOLEAN : Handles(t, at, stops, sets, sends)
      PROVE  Moved(at)
  <2>1. CASE GoesTo(t, at)
    <3>1. /\ \E r \in TermStates :
               /\ term' = [term EXCEPT ![t] = r]
               /\ r.at = at /\ ~ r.mediumSet /\ (r.kbSet => term[t].kbSet /\ at = "kb")
          /\ process' = "runs" /\ UNCHANGED <<toMedium, msgs>>
      BY <1>0, <2>1, GoesToFacts
    <3> QED
      BY <1>0, <3>1, KeptCounts
  <2>2. ASSUME NEW stops \in BOOLEAN, NEW sets \in BOOLEAN, NEW sends \in BOOLEAN,
               Handles(t, at, stops, sets, sends)
        PROVE  Moved(at)
    BY <1>0, <2>2, HandlesFacts
  <2> QED
    BY <1>1, <2>1, <2>2
<1>2. ASSUME NEW at \in {"loop", "kb"}, Moved(at),
             kbd' \in [Terminals -> Seq(Lines)], \A u \in Terminals \ {t} : kbd'[u] = kbd[u],
             toTerm' \in [Terminals -> Nat], \A u \in Terminals \ {t} : toTerm'[u] = toTerm[u],
             at = "kb" => kbd'[t] = kbd[t]
      PROVE  IInv'
  <2>1. term[t].kbSet /\ kvm = "open" => kbd[t] # <<>>
    BY <1>0 DEF SetsOK, KbSetOK
  <2> QED
    BY <1>0, <1>2, <2>1, TerminalInv
<1>3. CASE TimesOut(t)
  <2>1. Moved("loop") /\ UNCHANGED <<kbd, toTerm>>
    BY <1>1, <1>3 DEF TimesOut
  <2> HIDE DEF Moved
  <2> QED
    BY <1>0, <1>2, <2>1, KeptCounts
<1>4. CASE Serial(t)
  <2>1. Moved("kb") /\ UNCHANGED kbd
    BY <1>1, <1>4 DEF Serial
  <2>2. toTerm' \in [Terminals -> Nat] /\ \A u \in Terminals \ {t} : toTerm'[u] = toTerm[u]
    <3>1. CASE term[t].mediumSet /\ ~ MediumEnded
      <4>1. toTerm \in [Terminals -> Nat] /\ toTerm[t] > 0
        BY <1>0, <3>1 DEF TypeOK, SetsOK, MediumSetOK
      <4>2. toTerm' = [toTerm EXCEPT ![t] = toTerm[t] - 1]
        BY <1>4, <3>1 DEF Serial
      <4> QED
        BY ONLY <4>1, <4>2, t \in Terminals
    <3>2. CASE ~ (term[t].mediumSet /\ ~ MediumEnded)
      <4>1. UNCHANGED toTerm
        BY <1>4, <3>2 DEF Serial
      <4> QED
        BY <1>0, <4>1, KeptCounts
    <3> QED
      BY <3>1, <3>2
  <2> HIDE DEF Moved
  <2> QED
    BY <1>0, <1>2, <2>1, <2>2, KeptCounts
<1>5. CASE Keyboard(t)
  <2>1. UNCHANGED toTerm
    BY <1>5 DEF Keyboard
  <2>2. kbd' \in [Terminals -> Seq(Lines)] /\ \A u \in Terminals \ {t} : kbd'[u] = kbd[u]
    <3>1. kbd \in [Terminals -> Seq(Lines)] /\ (ReadsLine(t) => kbd[t] # <<>>)
      BY <1>0 DEF TypeOK, SetsOK, KbSetOK, ReadsLine
    <3>2. kbd' = [kbd EXCEPT ![t] = IF ReadsLine(t) THEN Tail(kbd[t]) ELSE kbd[t]]
      BY <1>5 DEF Keyboard
    <3>3. kbd[t] # <<>> => Tail(kbd[t]) \in Seq(Lines)
      BY <3>1
    <3> QED
      BY <3>1, <3>2, <3>3
  <2>3. CASE Moved("loop")
    <3> HIDE DEF Moved
    <3> QED
      BY <1>0, <1>2, <2>1, <2>2, <2>3, KeptCounts
  <2>4. CASE process' = "Not Running" /\ UNCHANGED <<term, toMedium, msgs>>
    <3>1. TypeOK'
      BY <1>0, <2>1, <2>2, <2>4 DEF TypeOK
    <3>2. SetsOK' /\ PipesOK'
      BY <1>0, <2>4 DEF SetsOK, PipesOK, SomeEnded, Ended, MediumEnded, IInv
    <3> QED
      BY <3>1, <3>2 DEF IInv
  <2> HIDE DEF Moved
  <2> QED
    BY <1>1, <1>5, <2>3, <2>4 DEF Keyboard
<1> QED
  BY <1>3, <1>4, <1>5

\* Where the medium's thread can be, and when it ends.
LEMMA MediumAt ==
  /\ "select" \in MediumPlaces
  /\ \A t \in Terminals, finished \in BOOLEAN :
       /\ Reading[t] \in MediumPlaces /\ Reading[t] # "ended"
       /\ Forwarding[t] \in MediumPlaces /\ Forwarding[t] # "ended"
       /\ Following(t, finished) \in MediumPlaces
       /\ Following(t, finished) = "ended" => finished
<1>1. Reading[1] = "term 1" /\ Reading[2] = "term 2"
  BY DEF Reading
<1>2. Forwarding[1] = "forward 1" /\ Forwarding[2] = "forward 2"
  BY DEF Forwarding
<1>3. "select" \in MediumPlaces /\ "ended" \in MediumPlaces
  BY DEF MediumPlaces
<1>4. \A t \in Terminals : Reading[t] \in MediumPlaces /\ Forwarding[t] \in MediumPlaces
  BY DEF MediumPlaces
<1>5. \A t \in Terminals : t = 1 \/ t = 2
  BY DEF Terminals
<1>6. \A t \in Terminals : Reading[t] # "ended" /\ Forwarding[t] # "ended"
  BY <1>1, <1>2, <1>5
<1>7. Reading[2] \in MediumPlaces /\ Reading[2] # "ended"
  BY <1>4, <1>6 DEF Terminals
<1> QED
  BY <1>3, <1>4, <1>6, <1>7 DEF Following

LEMMA MediumStep ==
  ASSUME IInv, Medium
  PROVE  IInv'
<1> DEFINE MediumStates == [at : MediumPlaces, set : [Terminals -> BOOLEAN], finished : BOOLEAN]
<1>0. /\ TypeOK /\ SetsOK /\ PipesOK /\ process = "runs" /\ medium \in MediumStates
      /\ toMedium \in [Terminals -> Nat] /\ toTerm \in [Terminals -> Nat]
  BY DEF IInv, TypeOK, Medium, MediumSelects, MsgFromTerm1, MsgFromTerm2, MsgFrom, Forwards
<1>1. CASE MediumSelects
  <2> DEFINE s == [t \in Terminals |-> TermReadable(t)]
  <2>1. s \in [Terminals -> BOOLEAN] /\ \A t \in Terminals : s[t] => toMedium[t] > 0 \/ Ended(t)
    BY DEF TermReadable
  <2>2. medium' = [medium EXCEPT !.at = Reading[1], !.set = s] /\ medium.at = "select"
        /\ UNCHANGED <<process, kvm, typed, kbd, term, toMedium, toTerm, msgs>>
    BY <1>1 DEF MediumSelects
  <2> HIDE DEF s
  <2>3. /\ medium' \in MediumStates /\ medium'.set = s /\ medium'.finished = medium.finished
        /\ ~ MediumEnded /\ ~ MediumEnded'
    <3>1. Reading[1] \in MediumPlaces /\ Reading[1] # "ended"
      BY MediumAt DEF Terminals
    <3> QED
      BY <1>0, <2>1, <2>2, <3>1 DEF MediumEnded
  <2> QED
    BY <1>0, <2>1, <2>2, <2>3
       DEF IInv, TypeOK, SetsOK, KbSetOK, MediumSetOK, TermSetOK, PipesOK, SomeEnded, Ended
<1>2. ASSUME NEW t \in Terminals, Finished(t), PipesOK
      PROVE  SomeEnded
  BY <1>2 DEF Finished, PipesOK, SomeEnded
<1>3. ASSUME NEW t \in Terminals, NEW swallows \in BOOLEAN, MsgFrom(t, swallows)
      PROVE  IInv'
  <2> DEFINE m == [medium EXCEPT !.set[t] = FALSE, !.finished = Finished(t),
                     !.at = IF ReadsTerm(t) /\ ~ swallows THEN Forwarding[t] ELSE Following(t, Finished(t))]
  <2>1. /\ UNCHANGED <<process, kvm, typed, kbd, term, toTerm, msgs>>
        /\ medium.at = Reading[t] /\ medium' = m
    BY <1>3 DEF MsgFrom
  <2>2. /\ m \in MediumStates /\ \A u \in Terminals : m.set[u] => medium.set[u] /\ u # t
        /\ m.finished = Finished(t)
        /\ m.at = "ended" => Finished(t)
    <3>1. Finished(t) \in BOOLEAN
      BY <1>0 DEF Finished, Ended
    <3>2. m.set = [medium.set EXCEPT ![t] = FALSE]
      BY <1>0
    <3>3. /\ Following(t, Finished(t)) \in MediumPlaces /\ Forwarding[t] \in MediumPlaces
          /\ Forwarding[t] # "ended" /\ (Following(t, Finished(t)) = "ended" => Finished(t))
      BY <3>1, MediumAt
    <3> QED
      BY <1>0, <3>1, <3>2, <3>3
  <2> HIDE DEF m
  <2>3. toMedium' \in [Terminals -> Nat] /\ \A u \in Terminals \ {t} : toMedium'[u] = toMedium[u]
    <3>1. toMedium' = [toMedium EXCEPT ![t] = IF ReadsTerm(t) THEN toMedium[t] - 1 ELSE toMedium[t]]
      BY <1>3 DEF MsgFrom
    <3>2. ReadsTerm(t) => toMedium[t] > 0
      BY <1>0 DEF SetsOK, TermSetOK, ReadsTerm
    <3>3. CASE ReadsTerm(t)
      BY <1>0, <3>1, <3>2, <3>3
    <3>4. CASE ~ ReadsTerm(t)
      BY <1>0, <3>1, <3>4
    <3> QED
      BY <3>3, <3>4
  <2>4. TypeOK'
    BY <1>0, <2>1, <2>2, <2>3 DEF TypeOK
  <2>5. ~ MediumEnded
    BY <2>1, MediumAt DEF MediumEnded
  <2>6. SetsOK'
    BY <1>0, <2>1, <2>2, <2>3, <2>5
       DEF SetsOK, KbSetOK, MediumSetOK, TermSetOK, Ended, MediumEnded
  <2>7. PipesOK'
    <3>1. m.finished \/ m.at = "ended" => SomeEnded
      BY <1>0, <1>2, <2>2
    <3>2. SomeEnded => SomeEnded'
      BY <2>1 DEF SomeEnded, Ended
    <3> QED
      BY <1>0, <2>1, <3>1, <3>2 DEF PipesOK, MediumEnded
  <2> QED
    BY <2>4, <2>6, <2>7 DEF IInv
<1>4. ASSUME NEW t \in Terminals, Forwards(t)
      PROVE  IInv'
  <2> DEFINE m == [medium EXCEPT !.at = Following(t, medium.finished)]
  <2>1. /\ UNCHANGED <<kvm, typed, kbd, term, toMedium, msgs>>
        /\ medium.at = Forwarding[t] /\ medium' = m
        /\ toTerm' = [toTerm EXCEPT ![Other(t)] = toTerm[Other(t)] + 1]
        /\ process' = IF Ended(Other(t)) THEN "SIGPIPE" ELSE process
    BY <1>4 DEF Forwards
  <2>2. /\ m \in MediumStates /\ m.set = medium.set /\ m.finished = medium.finished
        /\ m.at = "ended" => medium.finished
    <3>1. /\ Following(t, medium.finished) \in MediumPlaces
          /\ Following(t, medium.finished) = "ended" => medium.finished
      BY <1>0, MediumAt
    <3> QED
      BY <1>0, <3>1
  <2> HIDE DEF m
  <2>3. Other(t) \in Terminals
    BY DEF Other, Terminals
  <2>4. toTerm' \in [Terminals -> Nat] /\ \A u \in Terminals : toTerm[u] > 0 => toTerm'[u] > 0
    BY ONLY <1>0, <2>1, <2>3
  <2>5. TypeOK'
    BY <1>0, <2>1, <2>2, <2>4 DEF TypeOK
  <2>6. ~ MediumEnded
    BY <2>1, MediumAt DEF MediumEnded
  <2>7. SetsOK'
    BY <1>0, <2>1, <2>2, <2>4, <2>6
       DEF SetsOK, KbSetOK, MediumSetOK, TermSetOK, Ended, MediumEnded
  <2>8. PipesOK'
    <3>1. m.finished \/ m.at = "ended" => SomeEnded
      BY <1>0, <2>2 DEF PipesOK
    <3>2. process' = "SIGPIPE" => SomeEnded
      BY <1>0, <2>1, <2>3 DEF SomeEnded
    <3>3. SomeEnded => SomeEnded'
      BY <2>1 DEF SomeEnded, Ended
    <3> QED
      BY <2>1, <3>1, <3>2, <3>3 DEF PipesOK, MediumEnded
  <2> QED
    BY <2>5, <2>7, <2>8 DEF IInv
<1> QED
  BY <1>1, <1>3, <1>4 DEF Medium, MsgFromTerm1, MsgFromTerm2, Terminals

LEMMA InitIInv ==
  ASSUME Init
  PROVE  IInv
<1>1. TypeOK
  <2>1. /\ process \in {"runs", "SIGPIPE", "Not Running"} /\ kvm \in {"open", "closed"}
        /\ typed \in 0..MaxLines /\ msgs \in 0..MaxMsgs
        /\ toMedium \in [Terminals -> Nat] /\ toTerm \in [Terminals -> Nat]
    <3>1. /\ process = "runs" /\ kvm = "open" /\ typed = 0 /\ msgs = 0
          /\ toMedium = [t \in Terminals |-> 0] /\ toTerm = [t \in Terminals |-> 0]
      BY DEF Init
    <3> QED
      BY <3>1, BoundsAssumption
  <2>2. kbd \in [Terminals -> Seq(Lines)]
    <3>1. kbd = [t \in Terminals |-> <<>>]
      BY DEF Init
    <3>2. <<>> \in Seq(Lines)
      BY ONLY TRUE
    <3> QED
      BY ONLY <3>1, <3>2
  <2>3. term \in [Terminals -> TermStates]
    BY DEF Init, TermStates, IdlePlaces
  <2>4. medium \in [at : MediumPlaces, set : [Terminals -> BOOLEAN], finished : BOOLEAN]
    BY MediumAt DEF Init
  <2> QED
    BY <2>1, <2>2, <2>3, <2>4 DEF TypeOK, TermStates
<1>2. SetsOK /\ PipesOK
  BY DEF Init, SetsOK, KbSetOK, MediumSetOK, TermSetOK, PipesOK, MediumEnded
<1> QED
  BY <1>1, <1>2 DEF IInv

LEMMA StepIInv == IInv /\ [Next]_vars => IInv'
<1> SUFFICES ASSUME IInv, [Next]_vars
             PROVE  IInv'
  OBVIOUS
<1>1. CASE UNCHANGED vars
  BY <1>1 DEF vars, IInv, TypeOK, SetsOK, KbSetOK, MediumSetOK, TermSetOK, PipesOK, SomeEnded,
              Ended, MediumEnded
<1>2. CASE Next
  BY <1>2, KvmStep, IdleStep, RoundStep, EventStep, MediumStep DEF Next, Terminal
<1> QED
  BY <1>1, <1>2

-----------------------------------------------------------------------------

\* What the proofs of both theorems keep: the types, that a descriptor's bit stands
\* for something to read (the reads of terminal.cpp, PeerY.cpp and Medium.cpp that
\* follow a select()), and who is behind a socket that closes.
THEOREM ConsoleInvariant == Spec => []IInv
<1> QED
  BY InitIInv, StepIInv, PTL DEF Spec

\* Type correctness: no count of messages falls below zero, and no line is read
\* off an empty queue.
THEOREM TypeCorrect == Spec => []TypeOK
<1>1. IInv => TypeOK
  BY DEF IInv
<1> QED
  BY <1>1, ConsoleInvariant, PTL

\* Until ~q! is typed or a terminal ends, no write meets a closed socket and the
\* medium's thread goes on (isfinished, Medium.cpp; the writes of terminal.cpp,
\* PeerY.cpp and Medium.cpp).
THEOREM PipesHold == Spec => []NoBrokenPipe
<1>1. IInv => NoBrokenPipe
  BY DEF IInv, PipesOK, SomeEnded, NoBrokenPipe, AllOpen
<1> QED
  BY <1>1, ConsoleInvariant, PTL
=============================================================================
