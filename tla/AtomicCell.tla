----------------------------- MODULE AtomicCell -----------------------------
(***************************************************************************)
(* What AtomicSharedPtr<T> promises its callers: a cell holding a value    *)
(* (or Null), where a Load and a Store each take effect at one instant     *)
(* between call and return, and Store returns the value it replaced.       *)
(*                                                                         *)
(* A call is two steps: it begins, and later it takes effect.  result[t]   *)
(* is what the last call of t returns, Null until it takes effect.         *)
(***************************************************************************)
CONSTANTS Threads, Values, Null

VARIABLES value,   \* the content of the cell
          phase,   \* phase[t]: "idle", or the call that has not taken effect
          arg,     \* arg[t]: the value a begun Store will write
          result   \* result[t]: what the last call of t returns

vars == <<value, phase, arg, result>>

Init == /\ value \in Values \cup {Null}
        /\ phase = [t \in Threads |-> "idle"]
        /\ arg = [t \in Threads |-> Null]
        /\ result = [t \in Threads |-> Null]

LoadBegin(t) == /\ phase[t] = "idle"
                /\ phase' = [phase EXCEPT ![t] = "load"]
                /\ result' = [result EXCEPT ![t] = Null]
                /\ UNCHANGED <<value, arg>>

LoadEffect(t) == /\ phase[t] = "load"
                 /\ phase' = [phase EXCEPT ![t] = "idle"]
                 /\ result' = [result EXCEPT ![t] = value]
                 /\ UNCHANGED <<value, arg>>

StoreBegin(t, v) == /\ phase[t] = "idle"
                    /\ phase' = [phase EXCEPT ![t] = "store"]
                    /\ arg' = [arg EXCEPT ![t] = v]
                    /\ result' = [result EXCEPT ![t] = Null]
                    /\ UNCHANGED value

StoreEffect(t) == /\ phase[t] = "store"
                  /\ phase' = [phase EXCEPT ![t] = "idle"]
                  /\ value' = arg[t]
                  /\ arg' = [arg EXCEPT ![t] = Null]
                  /\ result' = [result EXCEPT ![t] = value]

Next == \E t \in Threads :
           \/ LoadBegin(t)
           \/ LoadEffect(t)
           \/ \E v \in Values \cup {Null} : StoreBegin(t, v)
           \/ StoreEffect(t)

Spec == Init /\ [][Next]_vars
=============================================================================
