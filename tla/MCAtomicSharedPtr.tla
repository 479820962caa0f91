------------------------- MODULE MCAtomicSharedPtr -------------------------
(* Instances of AtomicSharedPtr for TLC. *)
EXTENDS AtomicSharedPtr

CONSTANT Stalled  \* the threads the scheduler has stopped running

\* The scheduler runs every thread but the stalled ones.
StalledSpec == Spec /\ \A t \in Threads \ Stalled : WF_vars(Step(t))

(***************************************************************************)
(* "lockfree load", as far as it is: some call keeps beginning or          *)
(* returning, wherever the stalled threads were stopped, with two          *)
(* exceptions.  A store stopped between its mark and its publish blocks    *)
(* every call, and a load stopped between its two CASes blocks the stores. *)
(***************************************************************************)
OnlyWindowsBlock ==
  \A S \in SUBSET Threads : S \ Stalled # {} =>
    []<>\/ Busy # S
        \/ \E t \in Stalled : pc[t] = "publish"
        \/ /\ \E t \in Stalled : pc[t] \in Loading
           /\ \A t \in S \ Stalled : pc[t] = "mark"
=============================================================================
