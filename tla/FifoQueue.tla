----------------------------- MODULE FifoQueue -----------------------------
(***************************************************************************)
(* What util::Queue<T> promises: a bounded first-in first-out queue.  A    *)
(* Push that takes effect appends its value, a Pop that takes effect       *)
(* removes the oldest one.  Either call may also give up: the code answers *)
(* "full" and "empty" from a slot that another call has not finished with, *)
(* so giving up says nothing here about the content of the queue.          *)
(***************************************************************************)
EXTENDS Naturals, Sequences

CONSTANTS Threads, Values, Capicity, Nil

VARIABLES queue,   \* the content, oldest first
          phase,   \* phase[t]: "idle", or the call that has not taken effect
          arg,     \* arg[t]: the value a begun Push will append
          popped   \* popped[t]: the value the last Pop of t removed, or Nil

vars == <<queue, phase, arg, popped>>

Init == /\ queue = <<>>
        /\ phase = [t \in Threads |-> "idle"]
        /\ arg = [t \in Threads |-> Nil]
        /\ popped = [t \in Threads |-> Nil]

Return(t) == /\ phase' = [phase EXCEPT ![t] = "idle"]
             /\ arg' = [arg EXCEPT ![t] = Nil]

PushBegin(t, v) == /\ phase[t] = "idle"
                   /\ phase' = [phase EXCEPT ![t] = "push"]
                   /\ arg' = [arg EXCEPT ![t] = v]
                   /\ popped' = [popped EXCEPT ![t] = Nil]
                   /\ UNCHANGED queue

PushEffect(t) == /\ phase[t] = "push"
                 /\ Len(queue) < Capicity
                 /\ queue' = Append(queue, arg[t])
                 /\ Return(t)
                 /\ UNCHANGED popped

PopBegin(t) == /\ phase[t] = "idle"
               /\ phase' = [phase EXCEPT ![t] = "pop"]
               /\ popped' = [popped EXCEPT ![t] = Nil]
               /\ UNCHANGED <<queue, arg>>

PopEffect(t) == /\ phase[t] = "pop"
                /\ queue # <<>>
                /\ popped' = [popped EXCEPT ![t] = Head(queue)]
                /\ queue' = Tail(queue)
                /\ Return(t)

GiveUp(t) == /\ phase[t] # "idle"
             /\ Return(t)
             /\ UNCHANGED <<queue, popped>>

Next == \E t \in Threads :
           \/ \E v \in Values : PushBegin(t, v)
           \/ PushEffect(t)
           \/ PopBegin(t)
           \/ PopEffect(t)
           \/ GiveUp(t)

Spec == Init /\ [][Next]_vars
=============================================================================
