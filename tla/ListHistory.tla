---------------------------- MODULE ListHistory ----------------------------
(***************************************************************************)
(* AtomicSkipList with a history variable: the nodes an iteration still    *)
(* has to visit.                                                           *)
(***************************************************************************)
EXTENDS AtomicSkipList

VARIABLE due  \* due[t]: the nodes that were there and unmarked when t began to iterate

DueInit == ListInit /\ due = [t \in Threads |-> {}]

\* A node is no longer due once it has been visited or marked by anyone.
DueNext ==
  /\ ListNext
  /\ due' = [t \in Threads |->
               IF At(t, "idle") /\ frame'[t].pc = "iterate"
               THEN {n \in Linked(1) : ~IsMarked(n)}
               ELSE {n \in due[t] : ~IsMarked(n)' /\ ~(At(t, "visit") /\ frame[t].n = n)}]

DueSpec == DueInit /\ [][DueNext]_<<listVars, due>>

FairDueSpec == DueSpec /\ \A t \in Threads : WF_listVars(Step(t))

(***************************************************************************)
(* An iteration, such as the copy a compaction makes, passes over no node  *)
(* that was in the list when it began, unless someone has marked it, while *)
(* other threads link nodes around it.                                     *)
(***************************************************************************)
IterationComplete ==
  \A t \in Threads : \A n \in due[t] :
    /\ ~At(t, "idle")
    /\ frame[t].pc \in {"iterate", "visited"} => node[n].key > node[frame[t].pred].key
=============================================================================
