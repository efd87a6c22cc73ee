----------------------------- MODULE SmartState -----------------------------
(***************************************************************************)
(* The part of the SmartState runtime (Ensc351/ss_api.cpp) that decides    *)
(* which state a machine is in: executeExit/executeEntry with their        *)
(* history.  The machines here have no concurrent regions, so exactly one  *)
(* leaf is active.                                                         *)
(*                                                                         *)
(* A module instantiates this one with its state tree.  The history of a   *)
(* machine is a function from its states to the substate remembered, None  *)
(* (the null pointer) when there is none.                                  *)
(***************************************************************************)
CONSTANTS
  States,       \* every state of the chart, super states and leaves
  Parent,       \* Parent[s]: the state s is in, None for the root
  FirstSub,     \* FirstSub[s]: first substate of a super state, None for a leaf
  WithHistory,  \* the super states whose myHistory is set
  None

Leaves == {s \in States : FirstSub[s] = None}
NoHistory == [s \in States |-> None]

(* A transition taken by the state caller while leaf is active: the caller *)
(* itself leaves the active list unrecorded, a leaf below it is recorded   *)
(* by its direct parent, and only when that parent keeps history.          *)
RecordExit(hist, leaf, caller) ==
  IF leaf # caller /\ Parent[leaf] \in WithHistory
  THEN [hist EXCEPT ![Parent[leaf]] = leaf]
  ELSE hist

(* One level of the descent from a target to the leaf that becomes active. *)
Descend(hist, s) ==
  IF FirstSub[s] = None THEN s
  ELSE IF hist[s] # None THEN hist[s] ELSE FirstSub[s]

(* The leaf entered by a transition to s.  No chart of this program is     *)
(* deeper than three levels below its root.                                *)
Enter(hist, s) == Descend(hist, Descend(hist, Descend(hist, s)))
=============================================================================
