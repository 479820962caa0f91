------------------------------- MODULE Queue -------------------------------
(***************************************************************************)
(* util::Queue<T>: the bounded multi-producer multi-consumer ring in which *)
(* the hash_skip cache keeps the cold keys it may evict.                   *)
(*                                                                         *)
(* Position p lives in slot p % capicity_.  The seq of a slot says whose   *)
(* turn it is: p when the producer of position p may fill it, p + 1 when   *)
(* the consumer of position p may empty it.  A producer takes position p   *)
(* by moving head_ from p to p + 1, a consumer by moving tail_.            *)
(*                                                                         *)
(* One action is one access to head_, tail_, a seq or a data field.        *)
(***************************************************************************)
EXTENDS Naturals, Integers, Sequences

CONSTANTS Threads,   \* the threads that use the queue
          Values,    \* what they push
          Capicity,  \* capicity_
          Nil,       \* a default-constructed T
          MaxPush    \* bound: no Push begins once head_ has reached it

\* With a single slot "filled by p" and "free for p + 1" would be the same
\* seq; the cache asks for 10000 slots.
ASSUME CapicityAssumption == Capicity \in Nat /\ Capicity > 1
ASSUME NilAssumption == Nil \notin Values

VARIABLES head,    \* head_: the next position to fill
          tail,    \* tail_: the next position to empty
          seq,     \* buffer_[i].seq
          data,    \* buffer_[i].data
          pc,      \* pc[t]: the next access of t
          pos,     \* pos[t]: the local pos of Push and Pop; Size's first read
          val,     \* val[t]: the argument of Push
          out,     \* out[t]: what the last Push or Pop of t delivered, or Nil
          failed   \* failed[t]: the last Push or Pop of t returned false

vars == <<head, tail, seq, data, pc, pos, val, out, failed>>

Slots == 0 .. Capicity - 1
Slot(p) == p % Capicity

Init == /\ head = 0
        /\ tail = 0
        /\ seq = [i \in Slots |-> i]
        /\ data = [i \in Slots |-> Nil]
        /\ pc = [t \in Threads |-> "idle"]
        /\ pos = [t \in Threads |-> 0]
        /\ val = [t \in Threads |-> Nil]
        /\ out = [t \in Threads |-> Nil]
        /\ failed = [t \in Threads |-> FALSE]

Goto(t, l) == pc' = [pc EXCEPT ![t] = l]
SetPos(t, p) == pos' = [pos EXCEPT ![t] = p]

Enter(t, l, p) == /\ pc[t] = "idle"
                  /\ Goto(t, l)
                  /\ SetPos(t, p)
                  /\ UNCHANGED <<head, tail, seq, data>>

\* Push and Pop start with no result yet.
ClearResult(t) == /\ out' = [out EXCEPT ![t] = Nil]
                  /\ failed' = [failed EXCEPT ![t] = FALSE]

\* The locals of a call go out of scope when it returns.
Return(t) == /\ Goto(t, "idle")
             /\ SetPos(t, 0)
             /\ val' = [val EXCEPT ![t] = Nil]

ReturnFalse(t) == /\ Return(t)
                  /\ failed' = [failed EXCEPT ![t] = TRUE]
-----------------------------------------------------------------------------
(***************************************************************************)
(* Push.                                                                   *)
(***************************************************************************)
PushBegin(t, v) ==
  /\ head < MaxPush
  /\ Enter(t, "pushSeq", head)
  /\ ClearResult(t)
  /\ val' = [val EXCEPT ![t] = v]

\* Mutation: a slot whose turn has not come is taken for a free one.
PushSeqMutant(t) ==
  /\ pc[t] = "pushSeq"
  /\ Goto(t, IF seq[Slot(pos[t])] > pos[t] THEN "pushReload" ELSE "pushCas")
  /\ UNCHANGED <<head, tail, seq, data, pos, val, out, failed>>

\* The three cases of diff = seq - pos: mine, still occupied, already taken.
PushSeq(t) ==
  /\ pc[t] = "pushSeq"
  /\ LET diff == seq[Slot(pos[t])] - pos[t]
     IN \/ /\ diff = 0
           /\ Goto(t, "pushCas")
           /\ UNCHANGED <<pos, val, failed>>
        \/ /\ diff < 0
           /\ ReturnFalse(t)
        \/ /\ diff > 0
           /\ Goto(t, "pushReload")
           /\ UNCHANGED <<pos, val, failed>>
  /\ UNCHANGED <<head, tail, seq, data, out>>

\* Mutation: the position is not read again, so the loop never advances.
PushReloadMutant(t) ==
  /\ pc[t] = "pushReload"
  /\ Goto(t, "pushSeq")
  /\ UNCHANGED <<head, tail, seq, data, pos, val, out, failed>>

PushReload(t) ==
  /\ pc[t] = "pushReload"
  /\ SetPos(t, head)
  /\ Goto(t, "pushSeq")
  /\ UNCHANGED <<head, tail, seq, data, val, out, failed>>

\* Mutation: head_ is advanced with a plain store instead of a CAS.
PushCasMutant(t) ==
  /\ pc[t] = "pushCas"
  /\ head' = pos[t] + 1
  /\ Goto(t, "pushWrite")
  /\ UNCHANGED <<tail, seq, data, pos, val, out, failed>>

PushCas(t) ==
  /\ pc[t] = "pushCas"
  /\ head = pos[t]
  /\ head' = pos[t] + 1
  /\ Goto(t, "pushWrite")
  /\ UNCHANGED <<tail, seq, data, pos, val, out, failed>>

PushCasFails(t) ==
  /\ pc[t] = "pushCas"
  /\ head # pos[t]
  /\ SetPos(t, head)
  /\ Goto(t, "pushSeq")
  /\ UNCHANGED <<head, tail, seq, data, val, out, failed>>

PushWrite(t) ==
  /\ pc[t] = "pushWrite"
  /\ data' = [data EXCEPT ![Slot(pos[t])] = val[t]]
  /\ Goto(t, "pushPublish")
  /\ UNCHANGED <<head, tail, seq, pos, val, out, failed>>

PushPublish(t) ==
  /\ pc[t] = "pushPublish"
  /\ seq' = [seq EXCEPT ![Slot(pos[t])] = pos[t] + 1]
  /\ Return(t)
  /\ UNCHANGED <<head, tail, data, out, failed>>
-----------------------------------------------------------------------------
(***************************************************************************)
(* Pop.                                                                    *)
(***************************************************************************)
PopBegin(t) ==
  /\ Enter(t, "popSeq", tail)
  /\ ClearResult(t)
  /\ UNCHANGED val

\* Mutation: the consumer does not wait for the producer to publish.
PopSeqMutant(t) ==
  /\ pc[t] = "popSeq"
  /\ LET diff == seq[Slot(pos[t])] - pos[t]
     IN \/ /\ diff = 0
           /\ Goto(t, "popCas")
           /\ UNCHANGED <<pos, val, failed>>
        \/ /\ diff < 0
           /\ ReturnFalse(t)
        \/ /\ diff > 0
           /\ Goto(t, "popReload")
           /\ UNCHANGED <<pos, val, failed>>
  /\ UNCHANGED <<head, tail, seq, data, out>>

\* Mutation: a slot that another consumer has emptied counts as empty queue.
PopFalseMutant(t) ==
  /\ pc[t] = "popSeq"
  /\ \/ /\ seq[Slot(pos[t])] = pos[t] + 1
        /\ Goto(t, "popCas")
        /\ UNCHANGED <<pos, val, failed>>
     \/ /\ seq[Slot(pos[t])] # pos[t] + 1
        /\ ReturnFalse(t)
  /\ UNCHANGED <<head, tail, seq, data, out>>

PopSeq(t) ==
  /\ pc[t] = "popSeq"
  /\ LET diff == seq[Slot(pos[t])] - (pos[t] + 1)
     IN \/ /\ diff = 0
           /\ Goto(t, "popCas")
           /\ UNCHANGED <<pos, val, failed>>
        \/ /\ diff < 0
           /\ ReturnFalse(t)
        \/ /\ diff > 0
           /\ Goto(t, "popReload")
           /\ UNCHANGED <<pos, val, failed>>
  /\ UNCHANGED <<head, tail, seq, data, out>>

PopReload(t) ==
  /\ pc[t] = "popReload"
  /\ SetPos(t, tail)
  /\ Goto(t, "popSeq")
  /\ UNCHANGED <<head, tail, seq, data, val, out, failed>>

PopCas(t) ==
  /\ pc[t] = "popCas"
  /\ tail = pos[t]
  /\ tail' = pos[t] + 1
  /\ Goto(t, "popRead")
  /\ UNCHANGED <<head, seq, data, pos, val, out, failed>>

PopCasFails(t) ==
  /\ pc[t] = "popCas"
  /\ tail # pos[t]
  /\ SetPos(t, tail)
  /\ Goto(t, "popSeq")
  /\ UNCHANGED <<head, tail, seq, data, val, out, failed>>

PopRead(t) ==
  /\ pc[t] = "popRead"
  /\ out' = [out EXCEPT ![t] = data[Slot(pos[t])]]
  /\ Goto(t, "popPublish")
  /\ UNCHANGED <<head, tail, seq, data, pos, val, failed>>

\* Mutation: the slot is handed to the lap before.
PopPublishMutant(t) ==
  /\ pc[t] = "popPublish"
  /\ seq' = [seq EXCEPT ![Slot(pos[t])] = pos[t] - Capicity]
  /\ Return(t)
  /\ UNCHANGED <<head, tail, data, out, failed>>

PopPublish(t) ==
  /\ pc[t] = "popPublish"
  /\ seq' = [seq EXCEPT ![Slot(pos[t])] = pos[t] + Capicity]
  /\ Return(t)
  /\ UNCHANGED <<head, tail, data, out, failed>>
-----------------------------------------------------------------------------
(***************************************************************************)
(* Size reads the two counters one after the other; C++ leaves the order   *)
(* of the operands of "-" to the compiler.  Its result is                  *)
(* max(0, head_ - tail_), with one of the two read in an earlier state.    *)
(***************************************************************************)
SizeBegin(t) ==
  /\ \/ Enter(t, "sizeTail", head)
     \/ Enter(t, "sizeHead", tail)
  /\ UNCHANGED <<val, out, failed>>

SizeEnd(t) ==
  /\ pc[t] \in {"sizeTail", "sizeHead"}
  /\ Return(t)
  /\ UNCHANGED <<head, tail, seq, data, out, failed>>

\* What Size returns when its second read happens now.
SizeResult(t) ==
  LET size == IF pc[t] = "sizeTail" THEN pos[t] - tail ELSE head - pos[t]
  IN  IF size >= 0 THEN size ELSE 0
-----------------------------------------------------------------------------
\* A weak CAS may fail although the counter has the expected value.
SpuriousFail(t) ==
  /\ \/ pc[t] = "pushCas" /\ head = pos[t] /\ Goto(t, "pushSeq")
     \/ pc[t] = "popCas" /\ tail = pos[t] /\ Goto(t, "popSeq")
  /\ UNCHANGED <<head, tail, seq, data, pos, val, out, failed>>

Begin(t) == \/ \E v \in Values : PushBegin(t, v)
            \/ PopBegin(t)
            \/ SizeBegin(t)

\* The accesses a running call still has to make.
Step(t) == \/ PushSeq(t) \/ PushReload(t) \/ PushCas(t) \/ PushCasFails(t)
           \/ PushWrite(t) \/ PushPublish(t)
           \/ PopSeq(t) \/ PopReload(t) \/ PopCas(t) \/ PopCasFails(t)
           \/ PopRead(t) \/ PopPublish(t)
           \/ SizeEnd(t)

Next == \E t \in Threads : Begin(t) \/ Step(t) \/ SpuriousFail(t)

Spec == Init /\ [][Next]_vars
-----------------------------------------------------------------------------
Labels == {"idle", "pushSeq", "pushReload", "pushCas", "pushWrite", "pushPublish",
           "popSeq", "popReload", "popCas", "popRead", "popPublish",
           "sizeTail", "sizeHead"}

TypeOK ==
  /\ head \in Nat
  /\ tail \in Nat
  /\ seq \in [Slots -> Nat]
  /\ data \in [Slots -> Values \cup {Nil}]
  /\ pc \in [Threads -> Labels]
  /\ pos \in [Threads -> Nat]
  /\ val \in [Threads -> Values \cup {Nil}]
  /\ out \in [Threads -> Values \cup {Nil}]
  /\ failed \in [Threads -> BOOLEAN]

\* The threads that may access the data field of a slot.
Producers == {t \in Threads : pc[t] \in {"pushWrite", "pushPublish"}}
Consumers == {t \in Threads : pc[t] \in {"popRead", "popPublish"}}

(***************************************************************************)
(* The data field of a slot is a plain T: from the CAS that takes a        *)
(* position to the store of seq that gives it up, no other thread is       *)
(* between its own two on the same slot.                                   *)
(***************************************************************************)
NoDataRace ==
  \A t, u \in Producers \cup Consumers :
    t # u => Slot(pos[t]) # Slot(pos[u])

(***************************************************************************)
(* However long Size is descheduled between its two loads: with head_ read *)
(* first it reports at most what is in the ring at its second load, hence  *)
(* at most capicity_; with tail_ read first it reports at least that, and  *)
(* exceeds capicity_ by no more than was popped since its first load.      *)
(***************************************************************************)
SizeBounds ==
  \A t \in Threads :
    /\ pc[t] = "sizeTail" => SizeResult(t) <= head - tail /\ SizeResult(t) <= Capicity
    /\ pc[t] = "sizeHead" => /\ SizeResult(t) >= head - tail
                             /\ SizeResult(t) <= Capicity + (tail - pos[t])

(***************************************************************************)
(* "false if the queue is empty": Pop answers false only at an instant at  *)
(* which the queue is empty or the producer of its oldest value has not    *)
(* finished, and Push only when it is full or the consumer it would follow *)
(* has not, never from a position that has gone stale in the meantime.     *)
(***************************************************************************)
FalseIsCurrent ==
  [][\A t \in Threads : failed'[t] /\ ~failed[t] =>
       \/ pc[t] = "popSeq" /\ (head = tail \/ \E u \in Producers : pos[u] = tail)
       \/ pc[t] = "pushSeq" /\ (head - tail = Capicity
                               \/ \E u \in Consumers : pos[u] + Capicity = head)]_vars

\* The value at position p, tail <= p < head: still in the producer's hands
\* until it has written the slot.
Content(p) == IF \E t \in Threads : pc[t] = "pushWrite" /\ pos[t] = p
              THEN val[CHOOSE t \in Threads : pc[t] = "pushWrite" /\ pos[t] = p]
              ELSE data[Slot(p)]

\* Calls that have not taken effect.
Pushing == {"pushSeq", "pushReload", "pushCas"}
Popping == {"popSeq", "popReload", "popCas"}

FifoContent == [i \in 1 .. head - tail |-> Content(tail + i - 1)]
FifoPhase == [t \in Threads |-> IF pc[t] \in Pushing THEN "push"
                                ELSE IF pc[t] \in Popping THEN "pop" ELSE "idle"]
FifoArg == [t \in Threads |-> IF pc[t] \in Pushing THEN val[t] ELSE Nil]
FifoPopped == [t \in Threads |-> IF pc[t] = "popRead" THEN data[Slot(pos[t])] ELSE out[t]]

Fifo == INSTANCE FifoQueue WITH
  queue <- FifoContent, phase <- FifoPhase, arg <- FifoArg, popped <- FifoPopped

(***************************************************************************)
(* Push and Pop implement a bounded FIFO queue: each takes effect when its *)
(* CAS succeeds, values come out in the order they went in, once, and      *)
(* never more than capicity_ of them are inside.                           *)
(***************************************************************************)
ImplementsFifo == Fifo!Spec

Busy == {t \in Threads : pc[t] # "idle"}
=============================================================================
