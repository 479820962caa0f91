------------------------------ MODULE MCQueue ------------------------------
(* Instances of Queue for TLC. *)
EXTENDS Queue, TLC

CONSTANT Stalled  \* the threads the scheduler has stopped running

Symmetry == Permutations(Threads) \cup Permutations(Values)

\* The scheduler runs every thread but the stalled ones, and no CAS fails
\* spuriously: finitely many such failures change nothing about progress.
StalledSpec == /\ Init
               /\ [][\E t \in Threads : Begin(t) \/ Step(t)]_vars
               /\ \A t \in Threads \ Stalled : WF_vars(Step(t))

(***************************************************************************)
(* The queue is lock-free: as long as a thread that is still scheduled is  *)
(* inside a call, some call keeps beginning or returning, wherever the     *)
(* stalled threads were stopped.                                           *)
(***************************************************************************)
LockFree == \A S \in SUBSET Threads : S \ Stalled # {} => []<>(Busy # S)
=============================================================================
