---------------------------- MODULE QueueProofs ----------------------------
(***************************************************************************)
(* Proofs about Queue, for any number of threads, any capacity above one   *)
(* and any bound on the number of pushes.                                  *)
(*                                                                         *)
(* NoDataRace is not inductive: it says nothing of why the seq that a      *)
(* producer or consumer read still stands when its CAS succeeds.  IInv     *)
(* ties each phase of a call to the seq of its slot: while a thread owns   *)
(* position p, the seq of the slot is p (producer) or p + 1 (consumer),    *)
(* and nobody else can change it.                                          *)
(***************************************************************************)
EXTENDS Queue, SequenceTheorems, TLAPS

\* The positions calls have read never run ahead of the counter they read.
PosInv ==
  \A t \in Threads :
    /\ pc[t] \in {"pushSeq", "pushReload", "pushCas"} => pos[t] <= head
    /\ pc[t] \in {"popSeq", "popReload", "popCas"} => pos[t] <= tail

\* As long as the CAS can succeed, the seq it relies on is unchanged.
CasInv ==
  \A t \in Threads :
    /\ pc[t] = "pushCas" /\ pos[t] = head => seq[Slot(pos[t])] = pos[t]
    /\ pc[t] = "popCas" /\ pos[t] = tail => seq[Slot(pos[t])] = pos[t] + 1

\* The owner of a position finds its turn in the slot until it ends it.
OwnerInv ==
  /\ \A t \in Producers : pos[t] < head /\ seq[Slot(pos[t])] = pos[t]
  /\ \A t \in Consumers : pos[t] < tail /\ seq[Slot(pos[t])] = pos[t] + 1

\* A position is taken once on each side.
UniqueInv ==
  /\ \A t, u \in Producers : pos[t] = pos[u] => t = u
  /\ \A t, u \in Consumers : pos[t] = pos[u] => t = u

IInv == TypeOK /\ PosInv /\ CasInv /\ OwnerInv /\ UniqueInv
-----------------------------------------------------------------------------
\* A multiple of a number above one is not one.
LEMMA NoUnitMultiple == \A m \in Nat, d \in Int : m > 1 => m * d # 1
<1> SUFFICES ASSUME NEW m \in Nat, NEW d \in Int, m > 1 PROVE m * d # 1
  OBVIOUS
<1>1. CASE d >= 1
  <2>1. m * d >= m
    BY <1>1
  <2> QED
    BY <2>1
<1>2. CASE d <= 0
  <2>1. m * d <= 0
    BY <1>2
  <2> QED
    BY <2>1
<1> QED
  BY <1>1, <1>2

\* Division with remainder.
LEMMA DivMod ==
  ASSUME NEW x \in Nat, NEW m \in Nat, m > 1
  PROVE  x = m * (x \div m) + (x % m) /\ x \div m \in Nat /\ x % m \in 0 .. m - 1
OBVIOUS

\* Division with remainder of a position by the capacity.
LEMMA PosDivMod ==
  ASSUME NEW x \in Nat
  PROVE  \E a \in Nat : x = Capicity * a + Slot(x) /\ Slot(x) \in 0 .. Capicity - 1
<1>1. /\ x = Capicity * (x \div Capicity) + (x % Capicity)
      /\ x \div Capicity \in Nat /\ x % Capicity \in 0 .. Capicity - 1
  BY DivMod, CapicityAssumption
<1> QED
  BY <1>1 DEF Slot

\* Every position has a slot, and the next position has another one.
LEMMA SlotFacts ==
  \A p \in Nat : /\ Slot(p) \in Slots
                 /\ Slot(p + 1) # Slot(p)
<1> SUFFICES ASSUME NEW p \in Nat PROVE Slot(p) \in Slots /\ Slot(p + 1) # Slot(p)
  OBVIOUS
<1>1. Slot(p) \in Slots
  BY DivMod, CapicityAssumption DEF Slot, Slots
<1>2. ASSUME Slot(p + 1) = Slot(p) PROVE FALSE
  <2> DEFINE r == Slot(p)
  <2>1. PICK a \in Nat : p = Capicity * a + r /\ r \in 0 .. Capicity - 1
    BY PosDivMod
  <2>2. PICK b \in Nat : p + 1 = Capicity * b + r
    BY <1>2, PosDivMod
  <2> HIDE DEF r
  <2>3. Capicity * a \in Int /\ Capicity * b \in Int
    BY CapicityAssumption
  <2>4. Capicity * b - Capicity * a = 1
    BY <2>1, <2>2, <2>3, CapicityAssumption
  <2>5. b - a \in Int /\ Capicity * (b - a) = Capicity * b - Capicity * a
    BY CapicityAssumption
  <2>6. Capicity * (b - a) # 1
    BY <2>5, NoUnitMultiple, CapicityAssumption
  <2> QED
    BY <2>4, <2>5, <2>6
<1> QED
  BY <1>1, <1>2
-----------------------------------------------------------------------------
LEMMA InitIInv == Init => IInv
<1> SUFFICES ASSUME Init PROVE IInv
  OBVIOUS
<1>1. TypeOK
  BY CapicityAssumption DEF Init, TypeOK, Slots, Labels
<1>2. \A t \in Threads : pc[t] = "idle"
  BY DEF Init
<1> QED
  BY <1>1, <1>2 DEF IInv, PosInv, CasInv, OwnerInv, UniqueInv, Producers, Consumers

LEMMA NextTypeOK == TypeOK /\ [Next]_vars => TypeOK'
<1> SUFFICES ASSUME TypeOK, [Next]_vars PROVE TypeOK'
  OBVIOUS
<1> USE DEF TypeOK, Labels, Goto, SetPos
<1>1. ASSUME UNCHANGED vars PROVE TypeOK'
  BY <1>1 DEF vars
<1>2. ASSUME NEW t \in Threads, Begin(t) PROVE TypeOK'
  <2>1. ASSUME NEW v \in Values, PushBegin(t, v) PROVE TypeOK'
    BY <2>1 DEF PushBegin, Enter, ClearResult
  <2>2. ASSUME PopBegin(t) PROVE TypeOK'
    BY <2>2 DEF PopBegin, Enter, ClearResult
  <2>3. ASSUME SizeBegin(t) PROVE TypeOK'
    BY <2>3 DEF SizeBegin, Enter
  <2> QED
    BY <1>2, <2>1, <2>2, <2>3 DEF Begin
<1>3. ASSUME NEW t \in Threads, Step(t) PROVE TypeOK'
  <2>1. CASE PushSeq(t)
    <3>1. pc' \in [Threads -> Labels] /\ pos' \in [Threads -> Nat]
      BY <2>1 DEF PushSeq, ReturnFalse, Return
    <3>2. val' \in [Threads -> Values \cup {Nil}]
      BY <2>1 DEF PushSeq, ReturnFalse, Return
    <3>3. failed' \in [Threads -> BOOLEAN]
      <4>1. failed' = failed \/ failed' = [failed EXCEPT ![t] = TRUE]
        BY <2>1 DEF PushSeq, ReturnFalse
      <4> QED
        BY <4>1
    <3> QED
      BY <2>1, <3>1, <3>2, <3>3 DEF PushSeq
  <2>0. CASE PopSeq(t)
    <3>1. pc' \in [Threads -> Labels] /\ pos' \in [Threads -> Nat]
      BY <2>0 DEF PopSeq, ReturnFalse, Return
    <3>2. val' \in [Threads -> Values \cup {Nil}]
      BY <2>0 DEF PopSeq, ReturnFalse, Return
    <3>3. failed' \in [Threads -> BOOLEAN]
      <4>1. failed' = failed \/ failed' = [failed EXCEPT ![t] = TRUE]
        BY <2>0 DEF PopSeq, ReturnFalse
      <4> QED
        BY <4>1
    <3> QED
      BY <2>0, <3>1, <3>2, <3>3 DEF PopSeq
  <2>2. CASE PushReload(t) \/ PopReload(t) \/ PushCasFails(t) \/ PopCasFails(t)
    BY <2>2 DEF PushReload, PopReload, PushCasFails, PopCasFails
  <2>3. CASE PushCas(t) \/ PopCas(t)
    BY <2>3 DEF PushCas, PopCas
  <2>4. CASE PushWrite(t)
    BY <2>4 DEF PushWrite
  <2>5. CASE PopRead(t)
    BY <2>5, SlotFacts DEF PopRead
  <2>6. CASE PushPublish(t) \/ PopPublish(t)
    BY <2>6, CapicityAssumption DEF PushPublish, PopPublish, Return
  <2>7. CASE SizeEnd(t)
    BY <2>7 DEF SizeEnd, Return
  <2> QED
    BY <1>3, <2>0, <2>1, <2>2, <2>3, <2>4, <2>5, <2>6, <2>7 DEF Step
<1>4. ASSUME NEW t \in Threads, SpuriousFail(t) PROVE TypeOK'
  BY <1>4 DEF SpuriousFail
<1> QED
  BY <1>1, <1>2, <1>3, <1>4 DEF Next

(***************************************************************************)
(* A step of t that changes neither the counters nor a seq, and moves t    *)
(* between labels that own nothing, keeps the invariant if the new label   *)
(* and position of t satisfy their own part of it.                         *)
(***************************************************************************)
LEMMA QuietStep ==
  ASSUME IInv, NEW t \in Threads,
         UNCHANGED <<head, tail, seq>>,
         t \notin Producers \cup Consumers,
         NEW l \in Labels \ {"pushWrite", "pushPublish", "popRead", "popPublish"},
         NEW p \in Nat,
         pc' = [pc EXCEPT ![t] = l],
         pos' = [pos EXCEPT ![t] = p],
         l \in {"pushSeq", "pushReload", "pushCas"} => p <= head,
         l \in {"popSeq", "popReload", "popCas"} => p <= tail,
         l = "pushCas" => seq[Slot(p)] = p,
         l = "popCas" => seq[Slot(p)] = p + 1
  PROVE  PosInv' /\ CasInv' /\ OwnerInv' /\ UniqueInv'
<1> USE DEF IInv
<1>1. /\ pc'[t] = l /\ pos'[t] = p
      /\ \A u \in Threads \ {t} : pc'[u] = pc[u] /\ pos'[u] = pos[u]
  BY DEF TypeOK
<1>2. Producers' = Producers /\ Consumers' = Consumers
  BY <1>1 DEF Producers, Consumers, Labels
<1>3. PosInv'
  BY <1>1 DEF PosInv
<1>4. CasInv'
  BY <1>1 DEF CasInv
<1>5. OwnerInv' /\ UniqueInv'
  BY <1>1, <1>2 DEF OwnerInv, UniqueInv
<1> QED
  BY <1>3, <1>4, <1>5

(***************************************************************************)
(* The store to seq that ends an ownership: no other thread relies on the  *)
(* seq of that slot.                                                       *)
(***************************************************************************)
LEMMA PublishStep ==
  ASSUME IInv, NEW t \in Producers \cup Consumers,
         NEW n \in Nat,
         UNCHANGED <<head, tail>>,
         seq' = [seq EXCEPT ![Slot(pos[t])] = n],
         pc' = [pc EXCEPT ![t] = "idle"],
         pos' = [pos EXCEPT ![t] = 0]
  PROVE  PosInv' /\ CasInv' /\ OwnerInv' /\ UniqueInv'
<1> USE DEF IInv
<1>0. t \in Threads /\ pos[t] \in Nat
  BY DEF Producers, Consumers, TypeOK
<1>1. /\ pc'[t] = "idle"
      /\ \A u \in Threads \ {t} : pc'[u] = pc[u] /\ pos'[u] = pos[u] /\ pos[u] \in Nat
  BY <1>0 DEF TypeOK
<1>2. Producers' = Producers \ {t} /\ Consumers' = Consumers \ {t}
  BY <1>1 DEF Producers, Consumers
<1>3. \A p \in Nat : Slot(p) # Slot(pos[t]) => seq'[Slot(p)] = seq[Slot(p)]
  BY SlotFacts DEF TypeOK
<1>4. \A u \in Threads \ {t} :
         /\ u \in Producers \cup Consumers => Slot(pos[u]) # Slot(pos[t])
         /\ pc[u] = "pushCas" /\ pos[u] = head => Slot(pos[u]) # Slot(pos[t])
         /\ pc[u] = "popCas" /\ pos[u] = tail => Slot(pos[u]) # Slot(pos[t])
  <2> SUFFICES ASSUME NEW u \in Threads \ {t}, Slot(pos[u]) = Slot(pos[t])
               PROVE  /\ u \notin Producers \cup Consumers
                      /\ ~(pc[u] = "pushCas" /\ pos[u] = head)
                      /\ ~(pc[u] = "popCas" /\ pos[u] = tail)
    OBVIOUS
  <2>1. pos[u] # pos[t] + 1 /\ pos[t] # pos[u] + 1
    BY <1>0, <1>1, SlotFacts
  <2>2. /\ head \in Nat /\ tail \in Nat /\ pos[u] \in Nat
        /\ seq[Slot(pos[u])] = seq[Slot(pos[t])]
    BY <1>1 DEF TypeOK
  <2>3. u \notin Producers
    BY <1>0, <2>1, <2>2 DEF OwnerInv, UniqueInv
  <2>4. u \notin Consumers
    BY <1>0, <2>1, <2>2 DEF OwnerInv, UniqueInv
  <2>5. ~(pc[u] = "pushCas" /\ pos[u] = head)
    BY <1>0, <2>1, <2>2 DEF OwnerInv, CasInv
  <2>6. ~(pc[u] = "popCas" /\ pos[u] = tail)
    BY <1>0, <2>1, <2>2 DEF OwnerInv, CasInv
  <2> QED
    BY <2>3, <2>4, <2>5, <2>6
<1>5. PosInv'
  BY <1>0, <1>1 DEF PosInv
<1>6. CasInv'
  BY <1>0, <1>1, <1>3, <1>4 DEF CasInv
<1>7. OwnerInv'
  <2>1. \A u \in Producers' \cup Consumers' :
          u \in Threads \ {t} /\ pos'[u] = pos[u] /\ seq'[Slot(pos'[u])] = seq[Slot(pos[u])]
    BY <1>1, <1>2, <1>3, <1>4 DEF Producers, Consumers
  <2> QED
    BY <2>1, <1>2 DEF OwnerInv
<1>8. UniqueInv'
  BY <1>1, <1>2 DEF UniqueInv, Producers, Consumers
<1> QED
  BY <1>5, <1>6, <1>7, <1>8

LEMMA NextIInv == IInv /\ [Next]_vars => IInv'
<1> SUFFICES ASSUME IInv, [Next]_vars PROVE IInv'
  OBVIOUS
<1> USE DEF IInv
<1> DEFINE Rest == PosInv /\ CasInv /\ OwnerInv /\ UniqueInv
<1>0. TypeOK'
  BY NextTypeOK
<1>1. ASSUME UNCHANGED vars PROVE Rest'
  BY <1>1 DEF vars, PosInv, CasInv, OwnerInv, UniqueInv, Producers, Consumers
<1>2. ASSUME NEW t \in Threads, Begin(t) PROVE Rest'
  <2>0. /\ t \notin Producers \cup Consumers
        /\ head \in Nat /\ tail \in Nat /\ head <= head /\ tail <= tail
    BY <1>2 DEF Begin, PushBegin, PopBegin, SizeBegin, Enter, Producers, Consumers, TypeOK
  <2>1. ASSUME NEW v \in Values, PushBegin(t, v) PROVE Rest'
    <3>1. /\ pc' = [pc EXCEPT ![t] = "pushSeq"] /\ pos' = [pos EXCEPT ![t] = head]
          /\ UNCHANGED <<head, tail, seq>>
      BY <2>1 DEF PushBegin, Enter, Goto, SetPos
    <3> QED
      BY <2>0, <3>1, QuietStep DEF Labels
  <2>2. ASSUME PopBegin(t) PROVE Rest'
    <3>1. /\ pc' = [pc EXCEPT ![t] = "popSeq"] /\ pos' = [pos EXCEPT ![t] = tail]
          /\ UNCHANGED <<head, tail, seq>>
      BY <2>2 DEF PopBegin, Enter, Goto, SetPos
    <3> QED
      BY <2>0, <3>1, QuietStep DEF Labels
  <2>3. ASSUME SizeBegin(t) PROVE Rest'
    BY <2>0, <2>3, QuietStep DEF SizeBegin, Enter, Goto, SetPos, Labels
  <2> QED
    BY <1>2, <2>1, <2>2, <2>3 DEF Begin
<1>3. ASSUME NEW t \in Threads, PushSeq(t) PROVE Rest'
  <2>1. /\ t \notin Producers \cup Consumers /\ pos[t] \in Nat /\ pos[t] <= head
        /\ seq[Slot(pos[t])] \in Nat
    BY <1>3, SlotFacts DEF PushSeq, Producers, Consumers, TypeOK, PosInv
  <2>2. UNCHANGED <<head, tail, seq>> /\ pos = [pos EXCEPT ![t] = pos[t]]
    BY <1>3 DEF PushSeq, TypeOK
  <2>3. CASE pc' = [pc EXCEPT ![t] = "pushCas"] /\ pos' = pos /\ seq[Slot(pos[t])] - pos[t] = 0
    <3>1. seq[Slot(pos[t])] = pos[t]
      BY <2>1, <2>3
    <3> QED
      BY <2>1, <2>2, <2>3, <3>1, QuietStep DEF Labels
  <2>4. CASE pc' = [pc EXCEPT ![t] = "idle"] /\ pos' = [pos EXCEPT ![t] = 0]
    BY <2>1, <2>2, <2>4, QuietStep DEF Labels
  <2>5. CASE pc' = [pc EXCEPT ![t] = "pushReload"] /\ pos' = pos
    BY <2>1, <2>2, <2>5, QuietStep DEF Labels
  <2> QED
    BY <1>3, <2>3, <2>4, <2>5 DEF PushSeq, ReturnFalse, Return, Goto, SetPos
<1>4. ASSUME NEW t \in Threads, PopSeq(t) PROVE Rest'
  <2>1. /\ t \notin Producers \cup Consumers /\ pos[t] \in Nat /\ pos[t] <= tail
        /\ seq[Slot(pos[t])] \in Nat
    BY <1>4, SlotFacts DEF PopSeq, Producers, Consumers, TypeOK, PosInv
  <2>2. UNCHANGED <<head, tail, seq>> /\ pos = [pos EXCEPT ![t] = pos[t]]
    BY <1>4 DEF PopSeq, TypeOK
  <2>3. CASE pc' = [pc EXCEPT ![t] = "popCas"] /\ pos' = pos /\ seq[Slot(pos[t])] - (pos[t] + 1) = 0
    <3>1. seq[Slot(pos[t])] = pos[t] + 1
      BY <2>1, <2>3
    <3> QED
      BY <2>1, <2>2, <2>3, <3>1, QuietStep DEF Labels
  <2>4. CASE pc' = [pc EXCEPT ![t] = "idle"] /\ pos' = [pos EXCEPT ![t] = 0]
    BY <2>1, <2>2, <2>4, QuietStep DEF Labels
  <2>5. CASE pc' = [pc EXCEPT ![t] = "popReload"] /\ pos' = pos
    BY <2>1, <2>2, <2>5, QuietStep DEF Labels
  <2> QED
    BY <1>4, <2>3, <2>4, <2>5 DEF PopSeq, ReturnFalse, Return, Goto, SetPos
<1>5. ASSUME NEW t \in Threads,
             PushReload(t) \/ PushCasFails(t) \/ PopReload(t) \/ PopCasFails(t) \/ SizeEnd(t)
      PROVE  Rest'
  <2>0. /\ t \notin Producers \cup Consumers
        /\ head \in Nat /\ tail \in Nat /\ head <= head /\ tail <= tail
    BY <1>5 DEF PushReload, PushCasFails, PopReload, PopCasFails, SizeEnd,
                Producers, Consumers, TypeOK
  <2>1. CASE PushReload(t) \/ PushCasFails(t)
    <3>1. /\ pc' = [pc EXCEPT ![t] = "pushSeq"] /\ pos' = [pos EXCEPT ![t] = head]
          /\ UNCHANGED <<head, tail, seq>>
      BY <2>1 DEF PushReload, PushCasFails, Goto, SetPos
    <3> QED
      BY <2>0, <3>1, QuietStep DEF Labels
  <2>2. CASE PopReload(t) \/ PopCasFails(t)
    <3>1. /\ pc' = [pc EXCEPT ![t] = "popSeq"] /\ pos' = [pos EXCEPT ![t] = tail]
          /\ UNCHANGED <<head, tail, seq>>
      BY <2>2 DEF PopReload, PopCasFails, Goto, SetPos
    <3> QED
      BY <2>0, <3>1, QuietStep DEF Labels
  <2>3. CASE SizeEnd(t)
    BY <2>0, <2>3, QuietStep DEF SizeEnd, Return, Goto, SetPos, Labels
  <2> QED
    BY <1>5, <2>1, <2>2, <2>3
<1>6. ASSUME NEW t \in Threads, SpuriousFail(t) PROVE Rest'
  <2>1. /\ t \notin Producers \cup Consumers /\ pos[t] \in Nat
        /\ UNCHANGED <<head, tail, seq>> /\ pos' = [pos EXCEPT ![t] = pos[t]]
    BY <1>6 DEF SpuriousFail, Producers, Consumers, TypeOK
  <2>2. CASE pc[t] = "pushCas" /\ Goto(t, "pushSeq")
    BY <2>1, <2>2, QuietStep DEF Goto, Labels, PosInv
  <2>3. CASE pc[t] = "popCas" /\ Goto(t, "popSeq")
    BY <2>1, <2>3, QuietStep DEF Goto, Labels, PosInv
  <2> QED
    BY <1>6, <2>2, <2>3 DEF SpuriousFail
<1>7. ASSUME NEW t \in Threads, PushCas(t) PROVE Rest'
  <2>1. /\ pc[t] = "pushCas" /\ pos[t] = head /\ head \in Nat /\ head' = head + 1
        /\ pc'[t] = "pushWrite" /\ pos' = pos /\ UNCHANGED <<tail, seq>>
        /\ \A u \in Threads \ {t} : pc'[u] = pc[u]
        /\ \A u \in Threads : pos[u] \in Nat
    BY <1>7 DEF PushCas, Goto, TypeOK
  <2>2. Producers' = Producers \cup {t} /\ Consumers' = Consumers /\ t \notin Producers
    BY <2>1 DEF Producers, Consumers
  <2>3. PosInv'
    BY <2>1 DEF PosInv
  <2>4. CasInv'
    BY <2>1 DEF PosInv, CasInv
  <2>5. OwnerInv'
    <3>1. \A u \in Producers' : pos'[u] < head' /\ seq'[Slot(pos'[u])] = pos'[u]
      <4>1. seq[Slot(pos[t])] = pos[t]
        BY <2>1 DEF CasInv
      <4>2. \A u \in Producers : u \in Threads /\ pos[u] < head /\ seq[Slot(pos[u])] = pos[u]
        BY DEF OwnerInv, Producers
      <4> QED
        BY <2>1, <2>2, <4>1, <4>2
    <3> QED
      BY <2>1, <2>2, <3>1 DEF OwnerInv
  <2>6. UniqueInv'
    <3>1. \A u \in Producers : u \in Threads /\ pos[u] < head
      BY DEF OwnerInv, Producers
    <3> QED
      BY <2>1, <2>2, <3>1 DEF UniqueInv
  <2> QED
    BY <2>3, <2>4, <2>5, <2>6
<1>8. ASSUME NEW t \in Threads, PopCas(t) PROVE Rest'
  <2>1. /\ pc[t] = "popCas" /\ pos[t] = tail /\ tail \in Nat /\ tail' = tail + 1
        /\ pc'[t] = "popRead" /\ pos' = pos /\ UNCHANGED <<head, seq>>
        /\ \A u \in Threads \ {t} : pc'[u] = pc[u]
        /\ \A u \in Threads : pos[u] \in Nat
    BY <1>8 DEF PopCas, Goto, TypeOK
  <2>2. Consumers' = Consumers \cup {t} /\ Producers' = Producers /\ t \notin Consumers
    BY <2>1 DEF Producers, Consumers
  <2>3. PosInv'
    BY <2>1 DEF PosInv
  <2>4. CasInv'
    BY <2>1 DEF PosInv, CasInv
  <2>5. OwnerInv'
    <3>1. \A u \in Consumers' : pos'[u] < tail' /\ seq'[Slot(pos'[u])] = pos'[u] + 1
      <4>1. seq[Slot(pos[t])] = pos[t] + 1
        BY <2>1 DEF CasInv
      <4>2. \A u \in Consumers : u \in Threads /\ pos[u] < tail /\ seq[Slot(pos[u])] = pos[u] + 1
        BY DEF OwnerInv, Consumers
      <4> QED
        BY <2>1, <2>2, <4>1, <4>2
    <3> QED
      BY <2>1, <2>2, <3>1 DEF OwnerInv
  <2>6. UniqueInv'
    <3>1. \A u \in Consumers : u \in Threads /\ pos[u] < tail
      BY DEF OwnerInv, Consumers
    <3> QED
      BY <2>1, <2>2, <3>1 DEF UniqueInv
  <2> QED
    BY <2>3, <2>4, <2>5, <2>6
<1>9. ASSUME NEW t \in Threads, PushWrite(t) \/ PopRead(t) PROVE Rest'
  <2>1. Producers' = Producers /\ Consumers' = Consumers
    BY <1>9 DEF PushWrite, PopRead, Goto, TypeOK, Producers, Consumers
  <2>2. UNCHANGED <<head, tail, seq, pos>>
    BY <1>9 DEF PushWrite, PopRead
  <2>3. \A u \in Threads : pc'[u] = pc[u] \/ pc'[u] \in {"pushPublish", "popPublish"}
    BY <1>9 DEF PushWrite, PopRead, Goto, TypeOK
  <2> QED
    BY <2>1, <2>2, <2>3 DEF PosInv, CasInv, OwnerInv, UniqueInv
<1>10. ASSUME NEW t \in Threads, PushPublish(t) \/ PopPublish(t) PROVE Rest'
  <2>1. t \in Producers \cup Consumers
    BY <1>10 DEF PushPublish, PopPublish, Producers, Consumers
  <2>2. pos[t] + 1 \in Nat /\ pos[t] + Capicity \in Nat
    BY CapicityAssumption DEF TypeOK
  <2>3. CASE PushPublish(t)
    BY <2>1, <2>2, <2>3, PublishStep DEF PushPublish, Return, Goto, SetPos
  <2>4. CASE PopPublish(t)
    BY <2>1, <2>2, <2>4, PublishStep DEF PopPublish, Return, Goto, SetPos
  <2> QED
    BY <1>10, <2>3, <2>4
<1> HIDE DEF Rest
<1>11. Rest'
  BY <1>1, <1>2, <1>3, <1>4, <1>5, <1>6, <1>7, <1>8, <1>9, <1>10 DEF Next, Step
<1> QED
  BY <1>0, <1>11 DEF Rest
-----------------------------------------------------------------------------
\* The inductive invariant holds in every state of every behaviour.
THEOREM Invariance == Spec => []IInv
BY InitIInv, NextIInv, PTL DEF Spec

\* Type correctness of the counters, the ring and the locals of the calls.
THEOREM TypeCorrect == Spec => []TypeOK
<1>1. IInv => TypeOK
  BY DEF IInv
<1> QED
  BY <1>1, Invariance, PTL

\* No two calls are ever between the CAS that takes a position and the store
\* that gives its slot up, on one slot: node->data needs no lock.
THEOREM RaceFree == Spec => []NoDataRace
<1>1. IInv => NoDataRace
  <2> SUFFICES ASSUME IInv, NEW t \in Producers \cup Consumers,
                      NEW u \in Producers \cup Consumers,
                      Slot(pos[t]) = Slot(pos[u])
               PROVE  t = u
    BY DEF NoDataRace
  <2> USE DEF IInv
  <2>1. pos[t] \in Nat /\ pos[u] \in Nat
    BY DEF Producers, Consumers, TypeOK
  <2>2. pos[u] # pos[t] + 1 /\ pos[t] # pos[u] + 1
    BY <2>1, SlotFacts
  <2>3. pos[t] = pos[u]
    BY <2>1, <2>2 DEF OwnerInv
  <2>4. (t \in Producers /\ u \in Producers) \/ (t \in Consumers /\ u \in Consumers)
    BY <2>1, <2>2, <2>3 DEF OwnerInv
  <2> QED
    BY <2>3, <2>4 DEF UniqueInv
<1> QED
  BY <1>1, Invariance, PTL
-----------------------------------------------------------------------------
(***************************************************************************)
(* The shape of the ring.  The positions tail .. tail + Capicity - 1 have  *)
(* one slot each: those below head are filled or have a producer at work,  *)
(* the others are free or have a consumer at work.                         *)
(***************************************************************************)
RingInv ==
  /\ tail <= head /\ head <= tail + Capicity
  /\ \A p \in tail .. head - 1 :
       seq[Slot(p)] = p + 1 \/ \E t \in Producers : pos[t] = p
  /\ \A p \in head .. tail + Capicity - 1 :
       seq[Slot(p)] = p \/ \E t \in Consumers : pos[t] + Capicity = p
  /\ \A t \in Producers : tail <= pos[t]
  /\ \A t \in Consumers : head <= pos[t] + Capicity

\* A slot never goes back to a turn before a position that was taken.
PassedInv ==
  /\ \A p \in Nat : p < head => p <= seq[Slot(p)]
  /\ \A p \in Nat : p < tail => p < seq[Slot(p)]

\* The counter Size has read is behind what it has become.
SizeInv ==
  \A t \in Threads : /\ pc[t] = "sizeTail" => pos[t] <= head /\ pos[t] <= tail + Capicity
                     /\ pc[t] = "sizeHead" => pos[t] <= tail

QInv == IInv /\ RingInv /\ PassedInv /\ SizeInv
-----------------------------------------------------------------------------
\* A multiple of m strictly between 0 and m does not exist.
LEMMA NoSmallMultiple == \A m \in Nat, d \in Int : ~(0 < m * d /\ m * d < m)
<1> SUFFICES ASSUME NEW m \in Nat, NEW d \in Int, 0 < m * d, m * d < m PROVE FALSE
  OBVIOUS
<1>1. CASE d >= 1
  <2>1. m * d >= m
    BY <1>1
  <2> QED
    BY <2>1
<1>2. CASE d <= 0
  <2>1. m * d <= 0
    BY <1>2
  <2> QED
    BY <2>1
<1> QED
  BY <1>1, <1>2

\* One lap later the slot is the same.
LEMMA SlotLap == \A p \in Nat : Slot(p + Capicity) = Slot(p)
<1> SUFFICES ASSUME NEW p \in Nat PROVE Slot(p + Capicity) = Slot(p)
  OBVIOUS
<1> DEFINE r == Slot(p)
           s == Slot(p + Capicity)
<1>0. Capicity \in Nat /\ p + Capicity \in Nat
  BY CapicityAssumption
<1>1. PICK a \in Nat : p = Capicity * a + r /\ r \in 0 .. Capicity - 1
  BY PosDivMod
<1>2. PICK b \in Nat : p + Capicity = Capicity * b + s /\ s \in 0 .. Capicity - 1
  BY <1>0, PosDivMod
<1> HIDE DEF r, s
<1>3. Capicity * a \in Int /\ Capicity * b \in Int
  BY <1>0, <1>1, <1>2
<1>4. /\ (a + 1) - b \in Int /\ b - (a + 1) \in Int
      /\ Capicity * ((a + 1) - b) = Capicity * a + Capicity - Capicity * b
      /\ Capicity * (b - (a + 1)) = Capicity * b - Capicity * a - Capicity
  BY <1>0, <1>1, <1>2
<1>5. ~(r < s)
  <2> SUFFICES ASSUME r < s PROVE FALSE
    OBVIOUS
  <2>1. 0 < Capicity * ((a + 1) - b) /\ Capicity * ((a + 1) - b) < Capicity
    BY <1>0, <1>1, <1>2, <1>3, <1>4
  <2> QED
    BY <1>0, <1>4, <2>1, NoSmallMultiple
<1>6. ~(s < r)
  <2> SUFFICES ASSUME s < r PROVE FALSE
    OBVIOUS
  <2>1. 0 < Capicity * (b - (a + 1)) /\ Capicity * (b - (a + 1)) < Capicity
    BY <1>0, <1>1, <1>2, <1>3, <1>4
  <2> QED
    BY <1>0, <1>4, <2>1, NoSmallMultiple
<1>7. s = r
  BY <1>0, <1>1, <1>2, <1>5, <1>6
<1> QED
  BY <1>7 DEF r, s

\* Two positions less than a lap apart have different slots.
LEMMA SlotWindow ==
  ASSUME NEW p \in Nat, NEW q \in Nat, p < q, q < p + Capicity
  PROVE  Slot(p) # Slot(q)
<1> SUFFICES ASSUME Slot(p) = Slot(q) PROVE FALSE
  OBVIOUS
<1> DEFINE r == Slot(p)
<1>1. PICK a \in Nat : p = Capicity * a + r /\ r \in 0 .. Capicity - 1
  BY PosDivMod
<1>2. PICK b \in Nat : q = Capicity * b + r
  BY PosDivMod
<1> HIDE DEF r
<1>3. Capicity * a \in Int /\ Capicity * b \in Int
  BY <1>1, <1>2, CapicityAssumption
<1>4. 0 < Capicity * b - Capicity * a /\ Capicity * b - Capicity * a < Capicity
  BY <1>1, <1>2, <1>3, CapicityAssumption
<1>5. b - a \in Int /\ Capicity * (b - a) = Capicity * b - Capicity * a
  BY <1>1, <1>2, CapicityAssumption
<1> QED
  BY <1>4, <1>5, NoSmallMultiple, CapicityAssumption
-----------------------------------------------------------------------------
\* What the accesses that take or give up no position leave alone.
QuietRing ==
  /\ UNCHANGED <<head, tail, seq>>
  /\ Producers' = Producers /\ Consumers' = Consumers
  /\ \A t \in Producers \cup Consumers : pos'[t] = pos[t]

\* Every access is quiet but the two CASes and the two stores of seq.
LEMMA StepKinds ==
  ASSUME TypeOK, [Next]_vars
  PROVE  QuietRing \/ \E t \in Threads : PushCas(t) \/ PopCas(t) \/ PushPublish(t) \/ PopPublish(t)
<1> USE DEF TypeOK, QuietRing, Producers, Consumers
<1>1. CASE UNCHANGED vars
  BY <1>1 DEF vars
<1>2. ASSUME NEW t \in Threads, Begin(t) PROVE QuietRing
  BY <1>2 DEF Begin, PushBegin, PopBegin, SizeBegin, Enter, Goto, SetPos
<1>3. ASSUME NEW t \in Threads, PushSeq(t) PROVE QuietRing
  BY <1>3 DEF PushSeq, ReturnFalse, Return, Goto, SetPos
<1>4. ASSUME NEW t \in Threads, PopSeq(t) PROVE QuietRing
  BY <1>4 DEF PopSeq, ReturnFalse, Return, Goto, SetPos
<1>5. ASSUME NEW t \in Threads, PushReload(t) \/ PopReload(t) \/ PushCasFails(t) \/ PopCasFails(t)
      PROVE  QuietRing
  BY <1>5 DEF PushReload, PopReload, PushCasFails, PopCasFails, Goto, SetPos
<1>6. ASSUME NEW t \in Threads, PushWrite(t) \/ PopRead(t) PROVE QuietRing
  BY <1>6 DEF PushWrite, PopRead, Goto
<1>7. ASSUME NEW t \in Threads, SizeEnd(t) \/ SpuriousFail(t) PROVE QuietRing
  BY <1>7 DEF SizeEnd, SpuriousFail, Return, Goto, SetPos
<1> HIDE DEF QuietRing
<1> QED
  BY <1>1, <1>2, <1>3, <1>4, <1>5, <1>6, <1>7 DEF Next, Step

\* A producer takes the next position: the ring was not full.
LEMMA PushCasRing ==
  ASSUME QInv, NEW t \in Threads, PushCas(t) PROVE RingInv' /\ PassedInv'
<1> USE DEF QInv, IInv
<1>1. /\ pc[t] = "pushCas" /\ pos[t] = head /\ head' = head + 1
      /\ UNCHANGED <<tail, seq, pos>> /\ seq[Slot(head)] = head
      /\ Producers' = Producers \cup {t} /\ Consumers' = Consumers
  BY DEF PushCas, Goto, TypeOK, CasInv, Producers, Consumers
<1>2. /\ head \in Nat /\ tail \in Nat /\ Capicity \in Nat /\ Capicity > 1
      /\ \A u \in Threads : pos[u] \in Nat
      /\ Producers \subseteq Threads /\ Consumers \subseteq Threads
  BY CapicityAssumption DEF TypeOK, Producers, Consumers
<1>3. head < tail + Capicity
  <2> SUFFICES ASSUME head = tail + Capicity PROVE FALSE
    BY <1>2 DEF RingInv
  <2>1. Slot(head) = Slot(tail) /\ tail \in tail .. head - 1
    BY <1>2, SlotLap
  <2>2. seq[Slot(tail)] = tail + 1 \/ seq[Slot(tail)] = tail
    BY <2>1 DEF RingInv, OwnerInv
  <2> QED
    BY <1>1, <1>2, <2>1, <2>2
<1>4. ASSUME NEW u \in Consumers PROVE head + 1 <= pos[u] + Capicity
  <2>1. head <= pos[u] + Capicity /\ pos[u] \in Nat /\ seq[Slot(pos[u])] = pos[u] + 1
    BY <1>2 DEF RingInv, OwnerInv
  <2>2. head # pos[u] + Capicity
    BY <1>1, <1>2, <2>1, SlotLap
  <2> QED
    BY <1>2, <2>1, <2>2
<1>5. RingInv'
  <2>1. tail' <= head' /\ head' <= tail' + Capicity
    BY <1>1, <1>2, <1>3 DEF RingInv
  <2>2. \A p \in tail' .. head' - 1 : seq'[Slot(p)] = p + 1 \/ \E u \in Producers' : pos'[u] = p
    <3> SUFFICES ASSUME NEW p \in tail .. head PROVE seq[Slot(p)] = p + 1 \/ \E u \in Producers \cup {t} : pos[u] = p
      BY <1>1, <1>2
    <3>1. CASE p = head
      BY <1>1, <3>1
    <3>2. CASE p \in tail .. head - 1
      BY <3>2 DEF RingInv
    <3> QED
      BY <1>2, <3>1, <3>2
  <2>3. \A p \in head' .. tail' + Capicity - 1 :
          seq'[Slot(p)] = p \/ \E u \in Consumers' : pos'[u] + Capicity = p
    BY <1>1, <1>2 DEF RingInv
  <2>4. \A u \in Producers' : tail' <= pos'[u]
    BY <1>1, <1>2 DEF RingInv
  <2> QED
    BY <1>1, <1>4, <2>1, <2>2, <2>3, <2>4 DEF RingInv
<1>6. PassedInv'
  BY <1>1, <1>2 DEF PassedInv
<1> QED
  BY <1>5, <1>6

\* A consumer takes the next position: the ring was not empty.
LEMMA PopCasRing ==
  ASSUME QInv, NEW t \in Threads, PopCas(t) PROVE RingInv' /\ PassedInv'
<1> USE DEF QInv, IInv
<1>1. /\ pc[t] = "popCas" /\ pos[t] = tail /\ tail' = tail + 1
      /\ UNCHANGED <<head, seq, pos>> /\ seq[Slot(tail)] = tail + 1
      /\ Consumers' = Consumers \cup {t} /\ Producers' = Producers
  BY DEF PopCas, Goto, TypeOK, CasInv, Producers, Consumers
<1>2. /\ head \in Nat /\ tail \in Nat /\ Capicity \in Nat /\ Capicity > 1
      /\ \A u \in Threads : pos[u] \in Nat
      /\ Producers \subseteq Threads /\ Consumers \subseteq Threads
  BY CapicityAssumption DEF TypeOK, Producers, Consumers
<1>3. tail < head
  <2> SUFFICES ASSUME head = tail PROVE FALSE
    BY <1>2 DEF RingInv
  <2>1. tail \in head .. tail + Capicity - 1
    BY <1>2
  <2>2. PICK u \in Consumers : pos[u] + Capicity = tail
    BY <1>1, <1>2, <2>1 DEF RingInv
  <2>3. Slot(pos[u]) = Slot(tail) /\ seq[Slot(pos[u])] = pos[u] + 1
    BY <1>2, <2>2, SlotLap DEF OwnerInv
  <2> QED
    BY <1>1, <1>2, <2>2, <2>3
<1>4. ASSUME NEW u \in Producers PROVE tail + 1 <= pos[u]
  <2>1. tail <= pos[u] /\ pos[u] \in Nat /\ seq[Slot(pos[u])] = pos[u]
    BY <1>2 DEF RingInv, OwnerInv
  <2> QED
    BY <1>1, <1>2, <2>1
<1>5. RingInv'
  <2>1. tail' <= head' /\ head' <= tail' + Capicity
    BY <1>1, <1>2, <1>3 DEF RingInv
  <2>2. \A p \in tail' .. head' - 1 : seq'[Slot(p)] = p + 1 \/ \E u \in Producers' : pos'[u] = p
    BY <1>1, <1>2 DEF RingInv
  <2>3. \A p \in head' .. tail' + Capicity - 1 :
          seq'[Slot(p)] = p \/ \E u \in Consumers' : pos'[u] + Capicity = p
    <3> SUFFICES ASSUME NEW p \in head .. tail + Capicity
                 PROVE  seq[Slot(p)] = p \/ \E u \in Consumers \cup {t} : pos[u] + Capicity = p
      BY <1>1, <1>2
    <3>1. CASE p = tail + Capicity
      BY <1>1, <3>1
    <3>2. CASE p \in head .. tail + Capicity - 1
      BY <3>2 DEF RingInv
    <3> QED
      BY <1>2, <3>1, <3>2
  <2>4. \A u \in Consumers' : head' <= pos'[u] + Capicity
    BY <1>1, <1>2 DEF RingInv
  <2> QED
    BY <1>1, <1>4, <2>1, <2>2, <2>3, <2>4 DEF RingInv
<1>6. PassedInv'
  BY <1>1, <1>2 DEF PassedInv
<1> QED
  BY <1>5, <1>6

\* Positions of one lap have slots of their own.
LEMMA SlotInjective ==
  ASSUME NEW b \in Nat, NEW p \in Nat, NEW q \in Nat,
         b <= p, p < b + Capicity, b <= q, q < b + Capicity, p # q
  PROVE  Slot(p) # Slot(q)
<1>1. CASE p < q
  BY <1>1, SlotWindow, CapicityAssumption
<1>2. CASE q < p
  BY <1>2, SlotWindow, CapicityAssumption
<1> QED
  BY <1>1, <1>2

\* A producer hands its slot to the consumer of the same position.
LEMMA PushPublishRing ==
  ASSUME QInv, NEW t \in Threads, PushPublish(t) PROVE RingInv' /\ PassedInv'
<1> USE DEF QInv, IInv
<1>1. /\ head \in Nat /\ tail \in Nat /\ Capicity \in Nat /\ Capicity > 1
      /\ \A u \in Threads : pos[u] \in Nat
      /\ Producers \subseteq Threads /\ Consumers \subseteq Threads
      /\ \A p \in Nat : Slot(p) \in Slots
  BY CapicityAssumption, SlotFacts DEF TypeOK, Producers, Consumers
<1>2. /\ t \in Producers /\ UNCHANGED <<head, tail>>
      /\ seq'[Slot(pos[t])] = pos[t] + 1
      /\ \A p \in Nat : Slot(p) # Slot(pos[t]) => seq'[Slot(p)] = seq[Slot(p)]
      /\ Producers' = Producers \ {t} /\ Consumers' = Consumers
      /\ \A u \in Threads \ {t} : pos'[u] = pos[u]
      /\ t \notin Consumers
  BY <1>1 DEF PushPublish, Return, Goto, SetPos, TypeOK, Producers, Consumers
<1>3. tail <= pos[t] /\ pos[t] < head /\ seq[Slot(pos[t])] = pos[t]
  BY <1>2 DEF RingInv, OwnerInv
<1>4. ASSUME NEW p \in tail .. tail + Capicity - 1, p # pos[t]
      PROVE  seq'[Slot(p)] = seq[Slot(p)]
  <2>1. p \in Nat /\ pos[t] \in Nat /\ tail <= p /\ p < tail + Capicity /\ pos[t] < tail + Capicity
    BY <1>1, <1>3 DEF RingInv
  <2>2. Slot(p) # Slot(pos[t])
    BY <1>1, <1>3, <1>4, <2>1, SlotInjective
  <2> QED
    BY <1>2, <2>1, <2>2
<1>5. RingInv'
  <2>1. \A p \in tail .. head - 1 : seq'[Slot(p)] = p + 1 \/ \E u \in Producers' : pos'[u] = p
    <3> SUFFICES ASSUME NEW p \in tail .. head - 1, p # pos[t]
                 PROVE  seq'[Slot(p)] = p + 1 \/ \E u \in Producers' : pos'[u] = p
      BY <1>2
    <3>1. p \in tail .. tail + Capicity - 1
      BY <1>1 DEF RingInv
    <3>2. seq'[Slot(p)] = seq[Slot(p)]
      BY <1>4, <3>1
    <3> QED
      BY <1>1, <1>2, <3>2 DEF RingInv
  <2>2. \A p \in head .. tail + Capicity - 1 :
          seq'[Slot(p)] = p \/ \E u \in Consumers' : pos'[u] + Capicity = p
    <3> SUFFICES ASSUME NEW p \in head .. tail + Capicity - 1
                 PROVE  seq'[Slot(p)] = p \/ \E u \in Consumers' : pos'[u] + Capicity = p
      OBVIOUS
    <3>1. p \in tail .. tail + Capicity - 1 /\ p # pos[t]
      BY <1>1, <1>3 DEF RingInv
    <3>2. seq'[Slot(p)] = seq[Slot(p)]
      BY <1>4, <3>1
    <3> QED
      BY <1>1, <1>2, <3>2 DEF RingInv
  <2>3. /\ \A u \in Producers' : u \in Producers /\ pos'[u] = pos[u]
        /\ \A u \in Consumers' : u \in Consumers /\ pos'[u] = pos[u]
    BY <1>1, <1>2
  <2>4. tail' = tail /\ head' = head
    BY <1>2
  <2> QED
    BY <2>1, <2>2, <2>3, <2>4 DEF RingInv
<1>6. PassedInv'
  <2>1. \A p \in Nat : seq'[Slot(p)] >= seq[Slot(p)]
    <3> SUFFICES ASSUME NEW p \in Nat PROVE seq'[Slot(p)] >= seq[Slot(p)]
      OBVIOUS
    <3>1. seq[Slot(p)] \in Nat
      BY <1>1 DEF TypeOK
    <3> QED
      BY <1>1, <1>2, <1>3, <3>1
  <2>2. \A p \in Nat : seq[Slot(p)] \in Nat /\ seq'[Slot(p)] \in Nat
    BY <1>1, <1>2 DEF TypeOK
  <2> QED
    BY <1>1, <1>2, <2>1, <2>2 DEF PassedInv
<1> QED
  BY <1>5, <1>6

\* A consumer hands its slot to the producer one lap later.
LEMMA PopPublishRing ==
  ASSUME QInv, NEW t \in Threads, PopPublish(t) PROVE RingInv' /\ PassedInv'
<1> USE DEF QInv, IInv
<1>1. /\ head \in Nat /\ tail \in Nat /\ Capicity \in Nat /\ Capicity > 1
      /\ \A u \in Threads : pos[u] \in Nat
      /\ Producers \subseteq Threads /\ Consumers \subseteq Threads
      /\ \A p \in Nat : Slot(p) \in Slots
  BY CapicityAssumption, SlotFacts DEF TypeOK, Producers, Consumers
<1>2. /\ t \in Consumers /\ UNCHANGED <<head, tail>>
      /\ seq'[Slot(pos[t])] = pos[t] + Capicity
      /\ \A p \in Nat : Slot(p) # Slot(pos[t]) => seq'[Slot(p)] = seq[Slot(p)]
      /\ Producers' = Producers /\ Consumers' = Consumers \ {t}
      /\ \A u \in Threads \ {t} : pos'[u] = pos[u]
      /\ t \notin Producers
  BY <1>1 DEF PopPublish, Return, Goto, SetPos, TypeOK, Producers, Consumers
<1> DEFINE q == pos[t] + Capicity
<1>3. /\ q \in Nat /\ head <= q /\ q < tail + Capicity
      /\ seq[Slot(pos[t])] = pos[t] + 1 /\ Slot(q) = Slot(pos[t])
  BY <1>1, <1>2, SlotLap DEF RingInv, OwnerInv
<1> HIDE DEF q
<1>4. ASSUME NEW p \in tail .. tail + Capicity - 1, p # q
      PROVE  seq'[Slot(p)] = seq[Slot(p)]
  <2>1. p \in Nat /\ tail <= p /\ p < tail + Capicity /\ tail <= q
    BY <1>1, <1>3 DEF RingInv
  <2>2. Slot(p) # Slot(q)
    BY <1>1, <1>3, <1>4, <2>1, SlotInjective
  <2> QED
    BY <1>2, <1>3, <2>1, <2>2
<1>5. RingInv'
  <2>1. \A p \in tail .. head - 1 : seq'[Slot(p)] = p + 1 \/ \E u \in Producers' : pos'[u] = p
    <3> SUFFICES ASSUME NEW p \in tail .. head - 1
                 PROVE  seq'[Slot(p)] = p + 1 \/ \E u \in Producers' : pos'[u] = p
      OBVIOUS
    <3>1. p \in tail .. tail + Capicity - 1 /\ p # q
      BY <1>1, <1>3 DEF RingInv
    <3>2. seq'[Slot(p)] = seq[Slot(p)]
      BY <1>4, <3>1
    <3> QED
      BY <1>1, <1>2, <3>2 DEF RingInv
  <2>2. \A p \in head .. tail + Capicity - 1 :
          seq'[Slot(p)] = p \/ \E u \in Consumers' : pos'[u] + Capicity = p
    <3> SUFFICES ASSUME NEW p \in head .. tail + Capicity - 1, p # q
                 PROVE  seq'[Slot(p)] = p \/ \E u \in Consumers' : pos'[u] + Capicity = p
      BY <1>2, <1>3 DEF q
    <3>1. p \in tail .. tail + Capicity - 1
      BY <1>1, <1>3 DEF RingInv
    <3>2. seq'[Slot(p)] = seq[Slot(p)]
      BY <1>4, <3>1
    <3> QED
      BY <1>1, <1>2, <3>2 DEF RingInv, q
  <2>3. /\ \A u \in Producers' : u \in Producers /\ pos'[u] = pos[u]
        /\ \A u \in Consumers' : u \in Consumers /\ pos'[u] = pos[u]
    BY <1>1, <1>2
  <2>4. tail' = tail /\ head' = head
    BY <1>2
  <2> QED
    BY <2>1, <2>2, <2>3, <2>4 DEF RingInv
<1>6. PassedInv'
  <2>1. \A p \in Nat : seq'[Slot(p)] >= seq[Slot(p)]
    <3> SUFFICES ASSUME NEW p \in Nat PROVE seq'[Slot(p)] >= seq[Slot(p)]
      OBVIOUS
    <3>1. seq[Slot(p)] \in Nat
      BY <1>1 DEF TypeOK
    <3> QED
      BY <1>1, <1>2, <1>3, <3>1
  <2>2. \A p \in Nat : seq[Slot(p)] \in Nat /\ seq'[Slot(p)] \in Nat
    BY <1>1, <1>2 DEF TypeOK
  <2> QED
    BY <1>1, <1>2, <2>1, <2>2 DEF PassedInv
<1> QED
  BY <1>5, <1>6

LEMMA InitQInv == Init => QInv
<1> SUFFICES ASSUME Init PROVE QInv
  OBVIOUS
<1>1. IInv
  BY InitIInv
<1>2. \A t \in Threads : pc[t] = "idle"
  BY DEF Init
<1>3. \A p \in 0 .. Capicity - 1 : seq[Slot(p)] = p
  <2>1. \A p \in 0 .. Capicity - 1 : p % Capicity = p
    BY CapicityAssumption
  <2> QED
    BY <2>1 DEF Init, Slot, Slots
<1>4. RingInv
  BY <1>2, <1>3, CapicityAssumption DEF Init, RingInv, Producers, Consumers
<1> QED
  BY <1>1, <1>2, <1>4 DEF QInv, PassedInv, SizeInv, Init

LEMMA NextSizeInv == QInv /\ [Next]_vars => SizeInv'
<1> SUFFICES ASSUME QInv, [Next]_vars, NEW u \in Threads
             PROVE  /\ pc'[u] = "sizeTail" => pos'[u] <= head' /\ pos'[u] <= tail' + Capicity
                    /\ pc'[u] = "sizeHead" => pos'[u] <= tail'
  BY DEF SizeInv
<1> USE DEF QInv, IInv, TypeOK
<1>1. head' >= head /\ tail' >= tail /\ head' \in Nat /\ tail' \in Nat
  <2>1. CASE QuietRing
    BY <2>1 DEF QuietRing
  <2>2. ASSUME NEW t \in Threads, PushCas(t) \/ PopCas(t) \/ PushPublish(t) \/ PopPublish(t)
        PROVE  head' >= head /\ tail' >= tail /\ head' \in Nat /\ tail' \in Nat
    BY <2>2 DEF PushCas, PopCas, PushPublish, PopPublish
  <2> QED
    BY <2>1, <2>2, StepKinds
<1>2. /\ pc'[u] = "sizeTail" => (pc[u] = "sizeTail" /\ pos'[u] = pos[u]) \/ pos'[u] = head
      /\ pc'[u] = "sizeHead" => (pc[u] = "sizeHead" /\ pos'[u] = pos[u]) \/ pos'[u] = tail
  <2> DEFINE Goal == /\ pc'[u] = "sizeTail" => (pc[u] = "sizeTail" /\ pos'[u] = pos[u]) \/ pos'[u] = head
                     /\ pc'[u] = "sizeHead" => (pc[u] = "sizeHead" /\ pos'[u] = pos[u]) \/ pos'[u] = tail
  <2>1. CASE UNCHANGED vars
    BY <2>1 DEF vars
  <2>2. ASSUME NEW t \in Threads, Begin(t) PROVE Goal
    BY <2>2 DEF Begin, PushBegin, PopBegin, SizeBegin, Enter, Goto, SetPos
  <2>3. ASSUME NEW t \in Threads, PushSeq(t) PROVE Goal
    BY <2>3 DEF PushSeq, ReturnFalse, Return, Goto, SetPos
  <2>4. ASSUME NEW t \in Threads, PopSeq(t) PROVE Goal
    BY <2>4 DEF PopSeq, ReturnFalse, Return, Goto, SetPos
  <2>5. ASSUME NEW t \in Threads,
               PushReload(t) \/ PopReload(t) \/ PushCasFails(t) \/ PopCasFails(t) \/ SpuriousFail(t)
        PROVE  Goal
    BY <2>5 DEF PushReload, PopReload, PushCasFails, PopCasFails, SpuriousFail, Goto, SetPos
  <2>6. ASSUME NEW t \in Threads, PushCas(t) \/ PopCas(t) \/ PushWrite(t) \/ PopRead(t) PROVE Goal
    BY <2>6 DEF PushCas, PopCas, PushWrite, PopRead, Goto
  <2>7. ASSUME NEW t \in Threads, SizeEnd(t) \/ PushPublish(t) \/ PopPublish(t) PROVE Goal
    BY <2>7 DEF SizeEnd, PushPublish, PopPublish, Return, Goto, SetPos
  <2> HIDE DEF Goal
  <2>8. Goal
    BY <2>1, <2>2, <2>3, <2>4, <2>5, <2>6, <2>7 DEF Next, Step, Goal, vars
  <2> QED
    BY <2>8 DEF Goal
<1> QED
  BY <1>1, <1>2, CapicityAssumption DEF SizeInv, RingInv

LEMMA NextQInv == QInv /\ [Next]_vars => QInv'
<1> SUFFICES ASSUME QInv, [Next]_vars PROVE QInv'
  OBVIOUS
<1>1. IInv' /\ SizeInv'
  BY NextIInv, NextSizeInv DEF QInv
<1>2. CASE QuietRing
  <2>1. RingInv'
    BY <1>2 DEF QInv, RingInv, QuietRing
  <2>2. PassedInv'
    BY <1>2 DEF QInv, PassedInv, QuietRing
  <2> QED
    BY <1>1, <2>1, <2>2 DEF QInv
<1>3. ASSUME NEW t \in Threads, PushCas(t) \/ PopCas(t) \/ PushPublish(t) \/ PopPublish(t)
      PROVE  RingInv' /\ PassedInv'
  BY <1>3, PushCasRing, PopCasRing, PushPublishRing, PopPublishRing
<1> QED
  BY <1>1, <1>2, <1>3, StepKinds DEF QInv, IInv
-----------------------------------------------------------------------------
\* The shape of the ring holds in every state of every behaviour.
THEOREM RingInvariance == Spec => []QInv
BY InitQInv, NextQInv, PTL DEF Spec

\* However long Size is descheduled between its two loads: with head_ read
\* first it never reports more than there is, or than the ring holds; with
\* tail_ read first never less than there is, and above the capacity at most
\* by what was popped between the loads.
THEOREM SizeBounded == Spec => []SizeBounds
<1>1. QInv => SizeBounds
  <2> SUFFICES ASSUME QInv, NEW t \in Threads
               PROVE  /\ pc[t] = "sizeTail" => /\ SizeResult(t) <= head - tail
                                                /\ SizeResult(t) <= Capicity
                      /\ pc[t] = "sizeHead" => /\ SizeResult(t) >= head - tail
                                                /\ SizeResult(t) <= Capicity + (tail - pos[t])
    BY DEF SizeBounds
  <2>1. /\ head \in Nat /\ tail \in Nat /\ pos[t] \in Nat
        /\ tail <= head /\ head <= tail + Capicity /\ Capicity \in Nat
    BY CapicityAssumption DEF QInv, RingInv, IInv, TypeOK
  <2>2. CASE pc[t] = "sizeTail"
    BY <2>1, <2>2 DEF QInv, SizeInv, SizeResult
  <2>3. CASE pc[t] = "sizeHead"
    BY <2>1, <2>3 DEF QInv, SizeInv, SizeResult
  <2> QED
    BY <2>2, <2>3
<1> QED
  BY <1>1, RingInvariance, PTL

\* A false from Push or Pop is about the ring as it is at that instant: full
\* or empty, or waiting for a call that has not finished with the slot.
THEOREM FalseAnswers == Spec => FalseIsCurrent
<1> DEFINE A == \A t \in Threads : failed'[t] /\ ~failed[t] =>
                  \/ pc[t] = "popSeq" /\ (head = tail \/ \E u \in Producers : pos[u] = tail)
                  \/ pc[t] = "pushSeq" /\ (head - tail = Capicity
                                          \/ \E u \in Consumers : pos[u] + Capicity = head)
<1>1. QInv /\ [Next]_vars => [A]_vars
  <2> SUFFICES ASSUME QInv, Next, NEW t \in Threads, failed'[t], ~failed[t]
               PROVE  \/ pc[t] = "popSeq" /\ (head = tail \/ \E u \in Producers : pos[u] = tail)
                      \/ pc[t] = "pushSeq" /\ (head - tail = Capicity
                                              \/ \E u \in Consumers : pos[u] + Capicity = head)
    OBVIOUS
  <2> USE DEF QInv, IInv
  <2>1. \/ PushSeq(t) /\ seq[Slot(pos[t])] - pos[t] < 0
        \/ PopSeq(t) /\ seq[Slot(pos[t])] - (pos[t] + 1) < 0
    <3>1. ASSUME NEW u \in Threads, Begin(u) PROVE FALSE
      BY <3>1 DEF Begin, PushBegin, PopBegin, SizeBegin, ClearResult, TypeOK
    <3>2. ASSUME NEW u \in Threads, PushSeq(u) PROVE u = t /\ seq[Slot(pos[t])] - pos[t] < 0
      BY <3>2 DEF PushSeq, ReturnFalse, TypeOK
    <3>3. ASSUME NEW u \in Threads, PopSeq(u) PROVE u = t /\ seq[Slot(pos[t])] - (pos[t] + 1) < 0
      BY <3>3 DEF PopSeq, ReturnFalse, TypeOK
    <3>4. failed' # failed
      OBVIOUS
    <3> QED
      BY <3>1, <3>2, <3>3, <3>4
         DEF Next, Step, SpuriousFail, PushReload, PushCas, PushCasFails, PushWrite, PushPublish,
             PopReload, PopCas, PopCasFails, PopRead, PopPublish, SizeEnd
  <2>2. /\ head \in Nat /\ tail \in Nat /\ pos[t] \in Nat /\ seq[Slot(pos[t])] \in Nat
        /\ Capicity \in Nat /\ Capicity > 1 /\ tail <= head /\ head <= tail + Capicity
    BY SlotFacts, CapicityAssumption DEF TypeOK, RingInv
  <2>3. CASE PopSeq(t) /\ seq[Slot(pos[t])] - (pos[t] + 1) < 0
    <3>1. pc[t] = "popSeq" /\ pos[t] <= tail
      BY <2>3 DEF PopSeq, PosInv
    <3>2. pos[t] = tail
      BY <2>2, <2>3, <3>1 DEF PassedInv
    <3>3. CASE head # tail
      BY <2>2, <2>3, <3>1, <3>2, <3>3 DEF RingInv
    <3> QED
      BY <3>1, <3>3
  <2>4. CASE PushSeq(t) /\ seq[Slot(pos[t])] - pos[t] < 0
    <3>1. pc[t] = "pushSeq" /\ pos[t] <= head
      BY <2>4 DEF PushSeq, PosInv
    <3>2. pos[t] = head
      BY <2>2, <2>4, <3>1 DEF PassedInv
    <3>3. CASE head # tail + Capicity
      BY <2>2, <2>4, <3>1, <3>2, <3>3 DEF RingInv
    <3>4. CASE head = tail + Capicity
      BY <2>2, <3>1, <3>4
    <3> QED
      BY <3>3, <3>4
  <2> QED
    BY <2>1, <2>3, <2>4
<1> QED
  BY <1>1, RingInvariance, PTL DEF Spec, FalseIsCurrent
-----------------------------------------------------------------------------
(***************************************************************************)
(* Queue implements FifoQueue, for any number of threads and any capacity  *)
(* above one.  Push takes effect when its CAS on head_ succeeds, before    *)
(* the value is in the ring, and Pop when its CAS on tail_ succeeds, before *)
(* the value is read: the mapping takes the value of a position from the   *)
(* producer until the slot is written, and the result of a Pop from the    *)
(* slot until it is read.  The shape of the ring (RingInv) is what keeps   *)
(* those slots from being overwritten in between.                          *)
(***************************************************************************)
\* A thread that has taken position p and not written its slot yet.
Writing(t, p) == pc[t] = "pushWrite" /\ pos[t] = p

\* A position that is being written holds the value of its producer.
ProducerHolds ==
  \A t \in Threads : pc[t] = "pushWrite" => Content(pos[t]) = val[t]

LEMMA ContentWriting == IInv => ProducerHolds
<1> SUFFICES ASSUME IInv, NEW t \in Threads, pc[t] = "pushWrite"
             PROVE  Content(pos[t]) = val[t]
  BY DEF ProducerHolds
<1>1. \A u \in Threads : pc[u] = "pushWrite" /\ pos[u] = pos[t] => u = t
  BY DEF IInv, UniqueInv, Producers
<1>2. (CHOOSE u \in Threads : pc[u] = "pushWrite" /\ pos[u] = pos[t]) = t
  BY <1>1
<1> QED
  BY <1>2 DEF Content

\* Any other position holds what its slot holds.
LEMMA ContentWritten ==
  \A p : (\A t \in Threads : ~Writing(t, p)) => Content(p) = data[Slot(p)]
BY DEF Content, Writing

\* The values in the queue, in the order of their positions.
LEMMA ContentType ==
  ASSUME QInv, NEW p \in Nat PROVE Content(p) \in Values \cup {Nil}
<1>1. CASE \E t \in Threads : Writing(t, p)
  BY <1>1, ContentWriting DEF Writing, ProducerHolds, QInv, IInv, TypeOK
<1>2. CASE \A t \in Threads : ~Writing(t, p)
  BY <1>2, ContentWritten, SlotFacts DEF QInv, IInv, TypeOK
<1> QED
  BY <1>1, <1>2

ContentSequence ==
  /\ FifoContent \in Seq(Values \cup {Nil})
  /\ Len(FifoContent) = head - tail
  /\ \A i \in 1 .. head - tail : FifoContent[i] = Content(tail + i - 1)

LEMMA FifoLen == QInv => ContentSequence
<1> SUFFICES ASSUME QInv PROVE ContentSequence
  OBVIOUS
<1>1. head - tail \in Nat /\ head \in Nat /\ tail \in Nat
  BY DEF QInv, IInv, TypeOK, RingInv
<1>2. \A i \in 1 .. head - tail : tail + i - 1 \in Nat
  BY <1>1
<1>3. \A i \in 1 .. head - tail : Content(tail + i - 1) \in Values \cup {Nil}
  BY <1>2, ContentType
<1> QED
  BY <1>1, <1>3 DEF FifoContent, ContentSequence
-----------------------------------------------------------------------------
\* The step changes no local of a thread other than t.
OnlyCallOf(t) ==
  \A u \in Threads \ {t} : /\ pc'[u] = pc[u] /\ pos'[u] = pos[u]
                           /\ val'[u] = val[u] /\ out'[u] = out[u]

\* The step keeps the slots that other threads have taken and not read yet.
SlotsKeptFor(t) ==
  \A u \in Threads \ {t} : pc[u] = "popRead" => data'[Slot(pos[u])] = data[Slot(pos[u])]

\* Of the calls the abstract queue sees, only the one of t changes.
FifoChangesAt(t) ==
  /\ FifoPhase' = [FifoPhase EXCEPT ![t] = FifoPhase'[t]]
  /\ FifoArg' = [FifoArg EXCEPT ![t] = FifoArg'[t]]
  /\ FifoPopped' = [FifoPopped EXCEPT ![t] = FifoPopped'[t]]

LEMMA StepOf ==
  ASSUME NEW t \in Threads, OnlyCallOf(t), data' = data \/ SlotsKeptFor(t)
  PROVE  FifoChangesAt(t)
<1>1. \A u \in Threads \ {t} : /\ FifoPhase'[u] = FifoPhase[u] /\ FifoArg'[u] = FifoArg[u]
                               /\ FifoPopped'[u] = FifoPopped[u]
  BY DEF OnlyCallOf, SlotsKeptFor, FifoPhase, FifoArg, FifoPopped
<1> QED
  BY <1>1 DEF FifoChangesAt, FifoPhase, FifoArg, FifoPopped

\* The value of a position changes only with its slot or with its producer.
LEMMA ContentFrame ==
  ASSUME IInv, IInv', NEW p \in Nat, data'[Slot(p)] = data[Slot(p)],
         \A u \in Threads : /\ Writing(u, p)' <=> Writing(u, p)
                            /\ Writing(u, p) => val'[u] = val[u]
  PROVE  Content(p)' = Content(p)
<1>1. CASE \E u \in Threads : Writing(u, p)
  <2>1. PICK u \in Threads : Writing(u, p)
    BY <1>1
  <2>2. Writing(u, p)' /\ val'[u] = val[u]
    BY <2>1
  <2>3. ProducerHolds'
    BY ContentWriting, PTL
  <2>4. Content(p) = val[u]
    BY <2>1, ContentWriting DEF Writing, ProducerHolds
  <2>5. Content(p)' = val'[u]
    BY <2>2, <2>3 DEF Writing, ProducerHolds
  <2> QED
    BY <2>2, <2>4, <2>5
<1>2. CASE \A u \in Threads : ~Writing(u, p)
  <2>1. Content(p) = data[Slot(p)]
    BY <1>2, ContentWritten
  <2>2. (\A t \in Threads : ~Writing(t, p)) ' => Content(p)' = data'[Slot(p)]
    BY DEF Content, Writing, Slot
  <2> QED
    BY <1>2, <2>1, <2>2
<1> QED
  BY <1>1, <1>2

\* A step of a thread that neither starts nor finishes writing a slot keeps
\* the value of every position.
LEMMA ContentSame ==
  ASSUME IInv, IInv', NEW t \in Threads, OnlyCallOf(t), data' = data,
         pc[t] # "pushWrite", pc'[t] # "pushWrite"
  PROVE  \A p \in Nat : Content(p)' = Content(p)
<1> SUFFICES ASSUME NEW p \in Nat PROVE Content(p)' = Content(p)
  OBVIOUS
<1>1. \A u \in Threads : /\ Writing(u, p)' <=> Writing(u, p)
                         /\ Writing(u, p) => val'[u] = val[u]
  BY DEF Writing, OnlyCallOf
<1> QED
  BY <1>1, ContentFrame

LEMMA QueueSame ==
  ASSUME TypeOK, UNCHANGED <<head, tail>>,
         \A p \in tail .. head - 1 : Content(p)' = Content(p)
  PROVE  FifoContent' = FifoContent
<1>1. \A i \in 1 .. head - tail : tail + i - 1 \in tail .. head - 1
  BY DEF TypeOK
<1>2. \A i \in 1 .. head - tail : Content(tail + i - 1)' = Content(tail + i - 1)
  BY <1>1
<1> QED
  BY <1>2 DEF FifoContent

\* A step that changes neither the values in the queue nor what the call of t
\* looks like is invisible to the abstract queue.
LEMMA InvisibleStep ==
  ASSUME NEW t \in Threads, FifoChangesAt(t), FifoContent' = FifoContent,
         FifoPhase'[t] = FifoPhase[t], FifoArg'[t] = FifoArg[t],
         FifoPopped'[t] = FifoPopped[t]
  PROVE  UNCHANGED Fifo!vars
<1>1. /\ FifoPhase' = [FifoPhase EXCEPT ![t] = FifoPhase[t]]
      /\ FifoArg' = [FifoArg EXCEPT ![t] = FifoArg[t]]
      /\ FifoPopped' = [FifoPopped EXCEPT ![t] = FifoPopped[t]]
  BY DEF FifoChangesAt
<1> QED
  BY <1>1 DEF Fifo!vars, FifoPhase, FifoArg, FifoPopped
-----------------------------------------------------------------------------
LEMMA InitFifo == Init => Fifo!Init
<1> SUFFICES ASSUME Init PROVE Fifo!Init
  OBVIOUS
<1>1. FifoContent = <<>>
  BY DEF Init, FifoContent
<1>2. FifoPhase = [t \in Threads |-> "idle"]
  BY DEF Init, FifoPhase, Pushing, Popping
<1>3. FifoArg = [t \in Threads |-> Nil] /\ FifoPopped = [t \in Threads |-> Nil]
  BY DEF Init, FifoArg, FifoPopped, Pushing
<1> QED
  BY <1>1, <1>2, <1>3 DEF Fifo!Init

(***************************************************************************)
(* The CAS of Push appends: the ring has room, and the new position holds  *)
(* the argument although its slot is not written yet.                      *)
(***************************************************************************)
LEMMA PushCasFifo ==
  ASSUME QInv, QInv', NEW t \in Threads, PushCas(t) PROVE Fifo!PushEffect(t)
<1> USE DEF QInv, IInv
<1>1. PICK h \in Nat : h = head
  BY DEF TypeOK
<1>2. /\ OnlyCallOf(t) /\ pc[t] = "pushCas" /\ pc'[t] = "pushWrite"
      /\ pos[t] = h /\ pos'[t] = h /\ head' = h + 1
      /\ UNCHANGED <<tail, data, val, out>>
      /\ tail \in Nat /\ Capicity \in Nat /\ tail <= h
  BY <1>1, CapicityAssumption DEF PushCas, Goto, TypeOK, OnlyCallOf, RingInv
<1>3. Content(h)' = val[t]
  <2>1. ProducerHolds'
    BY ContentWriting, PTL
  <2> QED
    BY <1>2, <2>1 DEF ProducerHolds
<1>4. ASSUME NEW p \in tail .. h - 1 PROVE Content(p)' = Content(p)
  <2>1. \A u \in Threads : /\ Writing(u, p)' <=> Writing(u, p)
                           /\ Writing(u, p) => val'[u] = val[u]
    BY <1>2 DEF Writing, OnlyCallOf
  <2>2. p \in Nat
    BY <1>2
  <2> QED
    BY <1>2, <2>1, <2>2, ContentFrame
<1>5. FifoContent' = Append(FifoContent, val[t]) /\ Len(FifoContent) < Capicity
  <2> DEFINE S == Values \cup {Nil}
  <2>1. /\ FifoContent \in Seq(S) /\ Len(FifoContent) = h - tail
        /\ \A i \in 1 .. h - tail : FifoContent[i] = Content(tail + i - 1)
    BY <1>1, FifoLen DEF ContentSequence
  <2>2. ContentSequence'
    BY FifoLen, PTL
  <2>3. /\ FifoContent' \in Seq(S) /\ Len(FifoContent') = h - tail + 1
        /\ \A i \in 1 .. h - tail + 1 : FifoContent'[i] = Content(tail + i - 1)'
    BY <1>2, <2>2 DEF ContentSequence
  <2>4. val[t] \in S /\ h - tail \in Nat
    BY <1>2 DEF TypeOK
  <2>5. ASSUME NEW i \in 1 .. h - tail PROVE FifoContent'[i] = FifoContent[i]
    <3>1. PICK p \in tail .. h - 1 : p = tail + i - 1
      BY <1>2
    <3>2. FifoContent'[i] = Content(p)'
      BY <1>2, <2>3, <3>1
    <3> QED
      BY <1>2, <1>4, <2>1, <3>1, <3>2
  <2>6. FifoContent'[h - tail + 1] = val[t]
    <3>1. PICK i \in 1 .. h - tail + 1 : i = h - tail + 1
      BY <2>4, <1>2
    <3>2. FifoContent'[i] = Content(h)'
      BY <1>2, <2>3, <3>1
    <3> QED
      BY <1>3, <3>1, <3>2
  <2>7. Len(FifoContent) < Capicity
    BY <1>2, <2>1 DEF RingInv
  <2> HIDE DEF S
  <2>8. /\ Append(FifoContent, val[t]) \in Seq(S)
        /\ Len(Append(FifoContent, val[t])) = h - tail + 1
        /\ \A i \in 1 .. h - tail : Append(FifoContent, val[t])[i] = FifoContent[i]
        /\ Append(FifoContent, val[t])[h - tail + 1] = val[t]
    BY <2>1, <2>4, AppendProperties
  <2>9. \A i \in 1 .. h - tail + 1 : FifoContent'[i] = Append(FifoContent, val[t])[i]
    BY <2>4, <2>5, <2>6, <2>8
  <2>10. FifoContent' = Append(FifoContent, val[t])
    BY <2>3, <2>8, <2>9, SeqEqual
  <2> QED
    BY <2>7, <2>10
<1>6. /\ FifoPhase[t] = "push" /\ FifoPhase'[t] = "idle"
      /\ FifoArg[t] = val[t] /\ FifoArg'[t] = Nil /\ FifoPopped'[t] = FifoPopped[t]
  BY <1>2 DEF FifoPhase, FifoArg, FifoPopped, Pushing, Popping
<1>7. FifoChangesAt(t)
  BY <1>2, StepOf
<1>8. FifoPopped' = FifoPopped
  <2>1. FifoPopped' = [FifoPopped EXCEPT ![t] = FifoPopped[t]]
    BY <1>6, <1>7 DEF FifoChangesAt
  <2> QED
    BY <2>1 DEF FifoPopped
<1> QED
  BY <1>5, <1>6, <1>7, <1>8 DEF FifoChangesAt, Fifo!PushEffect, Fifo!Return

(***************************************************************************)
(* The CAS of Pop removes the oldest value: its slot is written, since its *)
(* seq says so, and stays as it is until the consumer has read it.         *)
(***************************************************************************)
LEMMA PopCasFifo ==
  ASSUME QInv, QInv', NEW t \in Threads, PopCas(t) PROVE Fifo!PopEffect(t)
<1> USE DEF QInv, IInv
<1>1. PICK h \in Nat : h = tail
  BY DEF TypeOK
<1>2. /\ OnlyCallOf(t) /\ pc[t] = "popCas" /\ pc'[t] = "popRead"
      /\ pos[t] = h /\ pos'[t] = h /\ tail' = h + 1 /\ seq[Slot(h)] = h + 1
      /\ UNCHANGED <<head, data, val, out>> /\ head \in Nat
  BY <1>1 DEF PopCas, Goto, TypeOK, OnlyCallOf, CasInv
<1>3. h < head
  BY <1>2, CapicityAssumption DEF RingInv, TypeOK
<1>4. Content(h) = data[Slot(h)]
  <2>1. \A u \in Threads : ~Writing(u, h)
    BY <1>1, <1>2 DEF Writing, OwnerInv, Producers
  <2> QED
    BY <2>1, ContentWritten
<1>5. \A p \in Nat : Content(p)' = Content(p)
  BY <1>2, ContentSame
<1>6. FifoContent # <<>> /\ Head(FifoContent) = data[Slot(h)] /\ FifoContent' = Tail(FifoContent)
  <2> DEFINE S == Values \cup {Nil}
  <2>1. /\ FifoContent \in Seq(S) /\ Len(FifoContent) = head - h
        /\ \A i \in 1 .. head - h : FifoContent[i] = Content(h + i - 1)
    BY <1>1, FifoLen DEF ContentSequence
  <2>2. ContentSequence'
    BY FifoLen, PTL
  <2>3. /\ FifoContent' \in Seq(S) /\ Len(FifoContent') = head - h - 1
        /\ \A i \in 1 .. head - h - 1 : FifoContent'[i] = Content(h + 1 + i - 1)'
    BY <1>2, <2>2 DEF ContentSequence
  <2>4. ASSUME NEW i \in 1 .. head - h - 1 PROVE FifoContent'[i] = FifoContent[i + 1]
    <3>1. PICK p \in Nat : p = h + i
      BY <1>2
    <3>2. h + 1 + i - 1 = p /\ h + (i + 1) - 1 = p /\ i + 1 \in 1 .. head - h
      BY <1>2, <3>1
    <3>3. FifoContent'[i] = Content(p)'
      BY <2>3, <3>2
    <3> QED
      BY <1>5, <2>1, <3>2, <3>3
  <2>5. FifoContent # <<>> /\ Head(FifoContent) = FifoContent[1]
    BY <1>2, <1>3, <2>1
  <2>6. FifoContent[1] = Content(h)
    <3>1. 1 \in 1 .. head - h /\ h + 1 - 1 = h
      BY <1>2, <1>3
    <3> QED
      BY <2>1, <3>1
  <2> HIDE DEF S
  <2>7. /\ Tail(FifoContent) \in Seq(S) /\ Len(Tail(FifoContent)) = head - h - 1
        /\ \A i \in 1 .. head - h - 1 : Tail(FifoContent)[i] = FifoContent[i + 1]
    BY <2>1, <2>5, HeadTailProperties
  <2>8. FifoContent' = Tail(FifoContent)
    BY <2>3, <2>4, <2>7, SeqEqual
  <2> QED
    BY <1>4, <2>5, <2>6, <2>8
<1>7. /\ FifoPhase[t] = "pop" /\ FifoPhase'[t] = "idle"
      /\ FifoArg'[t] = Nil /\ FifoPopped'[t] = data[Slot(h)]
  BY <1>2 DEF FifoPhase, FifoArg, FifoPopped, Pushing, Popping
<1>8. FifoChangesAt(t)
  BY <1>2, StepOf
<1> QED
  BY <1>6, <1>7, <1>8 DEF FifoChangesAt, Fifo!PopEffect, Fifo!Return

(***************************************************************************)
(* Writing the slot moves the value from the producer to the ring: neither *)
(* a position in the queue nor a slot that a consumer is about to read is  *)
(* disturbed.                                                              *)
(***************************************************************************)
LEMMA PushWriteFifo ==
  ASSUME QInv, QInv', NEW t \in Threads, PushWrite(t) PROVE UNCHANGED Fifo!vars
<1> USE DEF QInv, IInv
<1>1. PICK h \in Nat : h = pos[t]
  BY DEF TypeOK
<1>2. /\ OnlyCallOf(t) /\ pc[t] = "pushWrite" /\ pc'[t] = "pushPublish"
      /\ t \in Producers /\ UNCHANGED <<head, tail, pos, val, out>>
      /\ data'[Slot(h)] = val[t]
      /\ \A p \in Nat : Slot(p) # Slot(h) => data'[Slot(p)] = data[Slot(p)]
      /\ head \in Nat /\ tail \in Nat
  BY <1>1, SlotFacts DEF PushWrite, Goto, TypeOK, OnlyCallOf, Producers
<1>3. tail <= h /\ h < head /\ seq[Slot(h)] = h
  BY <1>1, <1>2 DEF RingInv, OwnerInv
<1>4. SlotsKeptFor(t)
  <2> SUFFICES ASSUME NEW u \in Threads, pc[u] = "popRead"
               PROVE  data'[Slot(pos[u])] = data[Slot(pos[u])]
    BY DEF SlotsKeptFor
  <2>1. pos[u] \in Nat /\ seq[Slot(pos[u])] = pos[u] + 1
    BY DEF TypeOK, OwnerInv, Consumers
  <2>2. Slot(pos[u]) # Slot(h)
    BY <1>3, <2>1, SlotFacts
  <2> QED
    BY <1>2, <2>1, <2>2
<1>5. ASSUME NEW p \in tail .. head - 1 PROVE Content(p)' = Content(p)
  <2>1. p \in Nat /\ tail <= p /\ p < tail + Capicity /\ h < tail + Capicity
    BY <1>2, <1>3, CapicityAssumption DEF RingInv
  <2>2. CASE p = h
    <3>1. \A u \in Threads : ~Writing(u, p)'
      BY <1>1, <1>2, <2>2 DEF Writing, OnlyCallOf, UniqueInv, Producers
    <3>2. Content(p)' = data'[Slot(p)]
      BY <3>1 DEF Content, Writing, Slot
    <3>3. Content(p) = val[t]
      BY <1>1, <1>2, <2>2, ContentWriting DEF ProducerHolds
    <3> QED
      BY <1>2, <2>2, <3>2, <3>3
  <2>3. CASE p # h
    <3>1. Slot(p) # Slot(h)
      BY <1>2, <1>3, <2>1, <2>3, SlotInjective
    <3>2. \A u \in Threads : /\ Writing(u, p)' <=> Writing(u, p)
                             /\ Writing(u, p) => val'[u] = val[u]
      BY <1>1, <1>2, <2>3 DEF Writing, OnlyCallOf
    <3> QED
      BY <1>2, <2>1, <3>1, <3>2, ContentFrame
  <2> QED
    BY <2>2, <2>3
<1>6. FifoContent' = FifoContent
  BY <1>2, <1>5, QueueSame
<1>7. /\ FifoPhase'[t] = FifoPhase[t] /\ FifoArg'[t] = FifoArg[t] /\ FifoPopped'[t] = FifoPopped[t]
  BY <1>2 DEF FifoPhase, FifoArg, FifoPopped, Pushing, Popping
<1> QED
  BY <1>2, <1>4, <1>6, <1>7, StepOf, InvisibleStep

\* Every other access keeps the ring's content, counters and data.
LEMMA QuietFifo ==
  ASSUME QInv, QInv', NEW t \in Threads, OnlyCallOf(t), UNCHANGED <<head, tail, data>>,
         pc[t] # "pushWrite", pc'[t] # "pushWrite"
  PROVE  FifoChangesAt(t) /\ FifoContent' = FifoContent
<1>1. \A p \in Nat : Content(p)' = Content(p)
  BY ContentSame DEF QInv
<1>2. tail .. head - 1 \subseteq Nat
  BY DEF QInv, IInv, TypeOK
<1>3. FifoContent' = FifoContent
  BY <1>1, <1>2, QueueSame DEF QInv, IInv
<1> QED
  BY <1>3, StepOf

LEMMA NextFifo == QInv /\ QInv' /\ [Next]_vars => [Fifo!Next]_(Fifo!vars)
<1> SUFFICES ASSUME QInv, QInv', [Next]_vars PROVE [Fifo!Next]_(Fifo!vars)
  OBVIOUS
<1> USE DEF QInv, IInv
<1> DEFINE Goal == [Fifo!Next]_(Fifo!vars)
<1>1. ASSUME UNCHANGED vars PROVE Goal
  <2>1. FifoContent' = FifoContent
    BY <1>1 DEF vars, FifoContent, Content, Slot
  <2> QED
    BY <1>1, <2>1 DEF vars, Fifo!vars, FifoPhase, FifoArg, FifoPopped, Slot
<1>2. ASSUME NEW t \in Threads, NEW v \in Values, PushBegin(t, v) PROVE Goal
  <2>1. /\ OnlyCallOf(t) /\ UNCHANGED <<head, tail, data>>
        /\ pc[t] = "idle" /\ pc'[t] = "pushSeq" /\ val'[t] = v /\ out'[t] = Nil
    BY <1>2 DEF PushBegin, Enter, ClearResult, Goto, SetPos, TypeOK, OnlyCallOf
  <2>2. FifoChangesAt(t) /\ FifoContent' = FifoContent
    BY <2>1, QuietFifo
  <2>3. /\ FifoPhase[t] = "idle" /\ FifoPhase'[t] = "push"
        /\ FifoArg'[t] = v /\ FifoPopped'[t] = Nil
    BY <2>1 DEF FifoPhase, FifoArg, FifoPopped, Pushing, Popping
  <2>4. Fifo!PushBegin(t, v)
    BY <2>2, <2>3 DEF FifoChangesAt, Fifo!PushBegin
  <2> QED
    BY <2>4 DEF Fifo!Next
<1>3. ASSUME NEW t \in Threads, PopBegin(t) PROVE Goal
  <2>1. /\ OnlyCallOf(t) /\ UNCHANGED <<head, tail, data>>
        /\ pc[t] = "idle" /\ pc'[t] = "popSeq" /\ out'[t] = Nil
    BY <1>3 DEF PopBegin, Enter, ClearResult, Goto, SetPos, TypeOK, OnlyCallOf
  <2>2. FifoChangesAt(t) /\ FifoContent' = FifoContent
    BY <2>1, QuietFifo
  <2>3. /\ FifoPhase[t] = "idle" /\ FifoPhase'[t] = "pop"
        /\ FifoArg'[t] = FifoArg[t] /\ FifoPopped'[t] = Nil
    BY <2>1 DEF FifoPhase, FifoArg, FifoPopped, Pushing, Popping
  <2>4. FifoArg' = FifoArg
    <3>1. FifoArg' = [FifoArg EXCEPT ![t] = FifoArg[t]]
      BY <2>2, <2>3 DEF FifoChangesAt
    <3> QED
      BY <3>1 DEF FifoArg
  <2>5. Fifo!PopBegin(t)
    BY <2>2, <2>3, <2>4 DEF FifoChangesAt, Fifo!PopBegin
  <2> QED
    BY <2>5 DEF Fifo!Next
<1>4. ASSUME NEW t \in Threads, PushSeq(t) \/ PopSeq(t), pc'[t] = "idle" PROVE Goal
  <2>1. /\ OnlyCallOf(t) /\ UNCHANGED <<head, tail, data, out>>
        /\ pc[t] \in {"pushSeq", "popSeq"} /\ pc'[t] = "idle"
    BY <1>4 DEF PushSeq, PopSeq, ReturnFalse, Return, Goto, SetPos, TypeOK, OnlyCallOf
  <2>2. FifoChangesAt(t) /\ FifoContent' = FifoContent
    BY <2>1, QuietFifo
  <2>3. /\ FifoPhase[t] # "idle" /\ FifoPhase'[t] = "idle"
        /\ FifoArg'[t] = Nil /\ FifoPopped'[t] = FifoPopped[t]
    BY <2>1 DEF FifoPhase, FifoArg, FifoPopped, Pushing, Popping
  <2>4. FifoPopped' = FifoPopped
    <3>1. FifoPopped' = [FifoPopped EXCEPT ![t] = FifoPopped[t]]
      BY <2>2, <2>3 DEF FifoChangesAt
    <3> QED
      BY <3>1 DEF FifoPopped
  <2>5. Fifo!GiveUp(t)
    BY <2>2, <2>3, <2>4 DEF FifoChangesAt, Fifo!GiveUp, Fifo!Return
  <2> QED
    BY <2>5 DEF Fifo!Next
<1>5. ASSUME NEW t \in Threads, OnlyCallOf(t), UNCHANGED <<head, tail, data, val, out>>,
             \/ pc[t] \in Pushing /\ pc'[t] \in Pushing
             \/ pc[t] \in Popping /\ pc'[t] \in Popping
      PROVE  Goal
  <2>1. FifoChangesAt(t) /\ FifoContent' = FifoContent
    BY <1>5, QuietFifo DEF Pushing, Popping
  <2>2. /\ FifoPhase'[t] = FifoPhase[t] /\ FifoArg'[t] = FifoArg[t]
        /\ FifoPopped'[t] = FifoPopped[t]
    BY <1>5 DEF FifoPhase, FifoArg, FifoPopped, Pushing, Popping
  <2> QED
    BY <2>1, <2>2, InvisibleStep
<1>6. ASSUME NEW t \in Threads, PushSeq(t), pc'[t] # "idle" PROVE Goal
  <2>1. OnlyCallOf(t) /\ UNCHANGED <<head, tail, data, val, out>>
    BY <1>6 DEF PushSeq, ReturnFalse, Return, Goto, TypeOK, OnlyCallOf
  <2>2. pc[t] \in Pushing /\ pc'[t] \in Pushing
    BY <1>6 DEF PushSeq, ReturnFalse, Return, Goto, TypeOK, Pushing
  <2> QED
    BY <1>5, <2>1, <2>2
<1>7. ASSUME NEW t \in Threads, PopSeq(t), pc'[t] # "idle" PROVE Goal
  <2>1. OnlyCallOf(t) /\ UNCHANGED <<head, tail, data, val, out>>
    BY <1>7 DEF PopSeq, ReturnFalse, Return, Goto, TypeOK, OnlyCallOf
  <2>2. pc[t] \in Popping /\ pc'[t] \in Popping
    BY <1>7 DEF PopSeq, ReturnFalse, Return, Goto, TypeOK, Popping
  <2> QED
    BY <1>5, <2>1, <2>2
<1>8. ASSUME NEW t \in Threads,
             PushReload(t) \/ PopReload(t) \/ PushCasFails(t) \/ PopCasFails(t) \/ SpuriousFail(t)
      PROVE  Goal
  <2>1. OnlyCallOf(t) /\ UNCHANGED <<head, tail, data, val, out>>
    BY <1>8 DEF PushReload, PopReload, PushCasFails, PopCasFails, SpuriousFail,
                Goto, SetPos, TypeOK, OnlyCallOf
  <2>2. \/ pc[t] \in Pushing /\ pc'[t] \in Pushing
        \/ pc[t] \in Popping /\ pc'[t] \in Popping
    BY <1>8 DEF PushReload, PopReload, PushCasFails, PopCasFails, SpuriousFail,
                Goto, TypeOK, Pushing, Popping
  <2> QED
    BY <1>5, <2>1, <2>2
<1>9. ASSUME NEW t \in Threads, PushPublish(t) \/ PopPublish(t) \/ SizeBegin(t) \/ SizeEnd(t)
      PROVE  Goal
  <2>1. OnlyCallOf(t) /\ UNCHANGED <<head, tail, data, out>>
    BY <1>9 DEF PushPublish, PopPublish, SizeBegin, SizeEnd, Enter, Return, Goto, SetPos,
                TypeOK, OnlyCallOf
  <2>2. /\ pc[t] \in {"idle", "pushPublish", "popPublish", "sizeTail", "sizeHead"}
        /\ pc'[t] \in {"idle", "sizeTail", "sizeHead"}
    BY <1>9 DEF PushPublish, PopPublish, SizeBegin, SizeEnd, Enter, Return, Goto, TypeOK
  <2>3. FifoChangesAt(t) /\ FifoContent' = FifoContent
    BY <2>1, <2>2, QuietFifo
  <2>4. /\ FifoPhase'[t] = FifoPhase[t] /\ FifoArg'[t] = FifoArg[t]
        /\ FifoPopped'[t] = FifoPopped[t]
    BY <2>1, <2>2 DEF FifoPhase, FifoArg, FifoPopped, Pushing, Popping
  <2> QED
    BY <2>3, <2>4, InvisibleStep
<1>10. ASSUME NEW t \in Threads, PopRead(t) PROVE Goal
  <2>1. /\ OnlyCallOf(t) /\ UNCHANGED <<head, tail, data, val, pos>>
        /\ pc[t] = "popRead" /\ pc'[t] = "popPublish" /\ out'[t] = data[Slot(pos[t])]
    BY <1>10 DEF PopRead, Goto, TypeOK, OnlyCallOf
  <2>2. FifoChangesAt(t) /\ FifoContent' = FifoContent
    BY <2>1, QuietFifo
  <2>3. /\ FifoPhase'[t] = FifoPhase[t] /\ FifoArg'[t] = FifoArg[t]
        /\ FifoPopped'[t] = FifoPopped[t]
    BY <2>1 DEF FifoPhase, FifoArg, FifoPopped, Pushing, Popping
  <2> QED
    BY <2>2, <2>3, InvisibleStep
<1>11. ASSUME NEW t \in Threads, PushCas(t) PROVE Goal
  BY <1>11, PushCasFifo DEF Fifo!Next
<1>12. ASSUME NEW t \in Threads, PopCas(t) PROVE Goal
  BY <1>12, PopCasFifo DEF Fifo!Next
<1>13. ASSUME NEW t \in Threads, PushWrite(t) PROVE Goal
  BY <1>13, PushWriteFifo
<1> HIDE DEF Goal
<1>14. Goal
  BY <1>1, <1>2, <1>3, <1>4, <1>6, <1>7, <1>8, <1>9, <1>10, <1>11, <1>12, <1>13
     DEF Next, Begin, Step
<1> QED
  BY <1>14 DEF Goal

\* Push and Pop implement a bounded first-in first-out queue: for every number
\* of threads, every capacity above one and however often the ring wraps,
\* values leave in the order in which they entered, each once, and never more
\* than capicity_ are inside.
THEOREM FirstInFirstOut == Spec => ImplementsFifo
BY InitFifo, NextFifo, RingInvariance, PTL DEF Spec, ImplementsFifo, Fifo!Spec
=============================================================================
