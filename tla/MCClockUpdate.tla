--------------------------- MODULE MCClockUpdate ---------------------------
(***************************************************************************)
(* ClockCache with a history variable: the value the last successful       *)
(* Insert gave each key.  Only one thread of the workload inserts, so the  *)
(* order of the inserts is the order in which that thread made them.       *)
(***************************************************************************)
EXTENDS MCClockCache

VARIABLES
  latest,  \* latest[k]: the value of the last Insert of k that returned true
  stale    \* stale[t]: t inserts, and its last Lookup returned another value

UpdateInit == /\ Init
              /\ latest = [k \in Keys |-> None]
              /\ stale = [t \in Threads |-> FALSE]

Inserts(t) == \E c \in Workload[t] : c.op = "insert"

UpdateNext ==
  /\ Next
  /\ latest' = [k \in Keys |->
                  LET done == {t \in Threads : At(t, "fill") /\ Key(t) = k /\ frame'[t] = Idle}
                  IN  IF done = {} THEN latest[k]
                      ELSE frame[CHOOSE t \in done : TRUE].call.h.val]
  /\ stale' = [t \in Threads |->
                 IF Inserts(t) /\ held[t] = None /\ held'[t] # None
                 THEN held'[t].e.val # latest[held'[t].e.key]
                 ELSE stale[t]]

UpdateSpec == UpdateInit /\ [][UpdateNext]_<<vars, latest, stale>>

(***************************************************************************)
(* "the general cache needs to update" the value of a key: a thread that   *)
(* has updated a key never gets the value from before its own update back. *)
(***************************************************************************)
UpdateSticks == \A t \in Threads : ~stale[t]
=============================================================================
