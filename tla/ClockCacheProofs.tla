-------------------------- MODULE ClockCacheProofs --------------------------
(***************************************************************************)
(* Proofs about ClockCache: a slot has one owner, a handle stays intact,   *)
(* and the counters in the meta word are exact.                            *)
(*                                                                         *)
(* The word is one number, so the first part is arithmetic: what adding to *)
(* the whole word does to each field of it.  The second part reduces a     *)
(* step of a thread to the one slot it touches.  Then comes one lemma per  *)
(* action, and at the end the theorems.                                    *)
(***************************************************************************)
EXTENDS ClockCache, FiniteSetTheorems, TLAPS

\* All that is below the state.
Low(m) == m % StateUnit

Words == 0 .. MetaMod - 1

\* The threads that look up.
Readers == {t \in Threads : \E c \in Workload[t] : c.op = "lookup"}

(***************************************************************************)
(* The counters have room for all threads.  The last conjunct is about the *)
(* correction of the hit counter: a lookup takes back all it sees above    *)
(* the maximum, so lookups that overlap take the same hits back more than  *)
(* once, and enough of them would run the counter below zero.              *)
(***************************************************************************)
CountersWide ==
  /\ 2 * Cardinality(Threads) < CounterMod
  /\ MaxHitCount + Cardinality(Readers) < CounterMod
  /\ Cardinality(Readers) * Cardinality(Readers) <= MaxHitCount + 1

\* No Erase has its reference on a slot that another call owns.
NoEraseRace ==
  \A t, u \in Threads : t # u /\ At(t, "eraseUnref") => ~Owns(u, Cur(t))

\* The references that probes leave on a slot without an entry are wiped
\* before they reach the state bits: 2^61 of them, in the code.
NoCarry == \A s \in Slots \ Stored : Low(meta[s]) # StateUnit - 1
-----------------------------------------------------------------------------
(***************************************************************************)
(* The inductive invariant.                                                *)
(***************************************************************************)
Frames ==
  [pc : Labels, call : Calls \cup {NoCall}, cur : Slots, m : Words, rb : Slots, to : Labels,
   occ : BOOLEAN, need : Int, res : Int, ptr : Nat, max : Nat, i : Nat, off : Nat,
   delta : Nat, freed : Nat, count : Nat, pinned : Nat, again : BOOLEAN,
   found : BOOLEAN, succ : BOOLEAN, amount : Nat]

HeldHandles == [slot : Slots, e : Entries]

StateType ==
  /\ meta \in [Slots -> Words]
  /\ entry \in [Slots -> Entries]
  /\ displacements \in [Slots -> Int]
  /\ occupancy \in Int
  /\ usage \in Int
  /\ clock_pointer \in Nat
  /\ hit_decr_delta \in Nat
  /\ todo \in [Threads -> SUBSET Calls]
  /\ held \in [Threads -> HeldHandles \cup {None}]
  /\ frame \in [Threads -> Frames]
  /\ alive \in BOOLEAN

LookupLabels == {"lookupRef", "lookupMatch", "lookupHitDecr", "lookupUnref", "lookupNext"}

\* What a call knows about itself: its frame f, the calls it has still to make
\* and the handle it holds.
LocalInv(t, f, calls, handle) ==
  /\ calls \subseteq Workload[t]
  /\ f.pc # "idle" => f.call \in Workload[t]
  /\ f.pc \in LookupLabels => f.call.op = "lookup" /\ handle = None
  /\ f.pc \notin LookupLabels \cup {"idle"} => f.call.op # "lookup"
  /\ f.pc = "rollback" => f.to \in {"evictFree", "fail", "eraseFirst", "eraseNext"}
  /\ f.pc \in {"clockAge", "clockTake"} => IsShareable(f.m) /\ RefCount(f.m) = 0
  /\ f.pc = "clockAge" => State(f.m) = StateVisible
  /\ f.pc = "lookupHitDecr" => f.amount \in 1 .. Cardinality(Readers)

ThreadInv(t) == LocalInv(t, frame[t], todo[t], held[t])

\* An owner has its slot to itself; Evict also finds the key there.
OwnerInv(t) ==
  \A s \in Slots :
    Owns(t, s) => /\ State(meta[s]) = StateConstruction
                  /\ frame[t].pc \in {"rollback", "evictFree"} => entry[s].key \in Keys
                  /\ \A u \in Threads : Owns(u, s) => u = t

HandleInv(t) == held[t] # None => entry[held[t].slot] = held[t].e

Holders(s) == {t \in Threads : held[t] # None /\ held[t].slot = s}
Probers(s) == {t \in Threads : Cur(t) = s /\ frame[t].pc \in RefLabels}
Correcting(s) == {t \in Threads : At(t, "lookupHitDecr") /\ Cur(t) = s}

\* A slot with an entry counts who refers to it.
StoredInv(s) ==
  /\ RefCount(meta[s]) = Cardinality(Holders(s)) + Cardinality(Probers(s))
  /\ HitBit(meta[s]) = 0
  /\ HitCount(meta[s]) <= MaxHitCount + Cardinality(Correcting(s))
  /\ HitCount(meta[s]) >= Cardinality(Readers) * Cardinality(Correcting(s))
  /\ entry[s].key \in Keys

\* Nobody refers to a slot without an entry, but for an Erase about to leave.
VacantInv(s) ==
  /\ Holders(s) = {}
  /\ \A t \in Probers(s) : At(t, "eraseUnref")
  /\ Low(meta[s]) >= Cardinality(Probers(s))

SlotInv(s) ==
  /\ State(meta[s]) \in {StateEmpty, StateConstruction, StateInvisible, StateVisible}
  /\ State(meta[s]) = StateConstruction => \E t \in Threads : Owns(t, s)
  /\ s \in Stored => StoredInv(s)
  /\ s \notin Stored => VacantInv(s)

CInv ==
  /\ StateType
  /\ \A t \in Threads : ThreadInv(t) /\ OwnerInv(t) /\ HandleInv(t)
  /\ \A s \in Slots : SlotInv(s)

-----------------------------------------------------------------------------
(***************************************************************************)
(* The fields of a meta word.                                              *)
(***************************************************************************)
LEMMA DivModSplit ==
  ASSUME NEW d \in Nat \ {0}, NEW m \in Nat
  PROVE  m = d * (m \div d) + (m % d) /\ m \div d \in Nat /\ m % d \in 0 .. d - 1
OBVIOUS

\* q and r are quotient and remainder of m by d.
Divides(m, d, q, r) == d \in Nat \ {0} /\ q \in Nat /\ r \in 0 .. d - 1 /\ m = d * q + r

LEMMA DivModUnique ==
  ASSUME NEW m, NEW d, NEW q, NEW r, Divides(m, d, q, r)
  PROVE  m \div d = q /\ m % d = r
BY DEF Divides

LEMMA Products ==
  /\ CounterMod * CounterMod \in Nat \ {0}
  /\ StateUnit \in Nat \ {0}
  /\ StateUnit = 2 * (CounterMod * CounterMod)
  /\ MetaMod = 8 * StateUnit /\ MetaMod \in Nat
<1> DEFINE cc == CounterMod * CounterMod
<1>1. CounterMod \in Nat /\ CounterMod >= 1
  BY CounterAssumption
<1>2. cc \in Nat
  BY <1>1
<1>3. cc >= 1
  BY <1>1
<1>4. 2 * CounterMod * CounterMod = 2 * cc
  BY <1>1
<1> QED
  BY <1>2, <1>3, <1>4 DEF StateUnit, MetaMod

\* The word with the given fields.
Pack(st, b, h, r) == StateUnit * st + (CounterMod * CounterMod) * b + CounterMod * h + r

\* Packing fields that fit, and reading them.
LEMMA PackFields ==
  ASSUME NEW st \in 0 .. 7, NEW b \in 0 .. 1,
         NEW h \in 0 .. CounterMod - 1, NEW r \in 0 .. CounterMod - 1
  PROVE  LET m == Pack(st, b, h, r)
         IN  /\ m \in Words
             /\ State(m) = st /\ HitBit(m) = b /\ HitCount(m) = h /\ RefCount(m) = r
             /\ Low(m) = (CounterMod * CounterMod) * b + (CounterMod * h + r)
<1> DEFINE C == CounterMod
           CC == C * C
           m == Pack(st, b, h, r)
<1>1. C \in Nat \ {0}
  BY CounterAssumption
<1>2. CC \in Nat \ {0} /\ StateUnit = 2 * CC /\ StateUnit \in Nat \ {0} /\ MetaMod = 8 * StateUnit
  BY Products
<1>3. C * h + r \in 0 .. CC - 1
  <2>1. C * h \in Nat /\ C * h <= C * (C - 1)
    BY <1>1
  <2>2. C * (C - 1) = CC - C
    BY <1>1
  <2> HIDE DEF CC
  <2> QED
    BY <1>1, <1>2, <2>1, <2>2
<1> HIDE DEF CC
<1>4. CC * b + (C * h + r) \in 0 .. StateUnit - 1
  <2>1. CASE b = 0
    BY <1>2, <1>3, <2>1
  <2>2. CASE b = 1
    BY <1>2, <1>3, <2>2
  <2> QED
    BY <2>1, <2>2
<1>5. m = StateUnit * st + (CC * b + (C * h + r))
  BY <1>1, <1>2, <1>3 DEF Pack, CC
<1>6. State(m) = st /\ Low(m) = CC * b + (C * h + r)
  <2> DEFINE low == CC * b + (C * h + r)
  <2>1. low \in 0 .. StateUnit - 1 /\ st \in Nat
    BY <1>4
  <2> HIDE DEF low
  <2>2. m \div StateUnit = st /\ m % StateUnit = low
    <3>1. Divides(m, StateUnit, st, low)
      BY <1>2, <1>5, <2>1 DEF Divides, low
    <3> QED
      BY <3>1, DivModUnique
  <2> QED
    BY <2>2 DEF State, Low, low
<1>7. StateUnit * st \in 0 .. 7 * StateUnit /\ m \in Words
  BY <1>2, <1>4, <1>5 DEF Words
<1>8. HitBit(m) = b
  <2>1. m = CC * (2 * st + b) + (C * h + r)
    <3>1. StateUnit * st = CC * (2 * st)
      BY <1>2
    <3>2. CC * (2 * st + b) = CC * (2 * st) + CC * b
      BY <1>2
    <3> QED
      BY <1>2, <1>3, <1>5, <3>1, <3>2
  <2>2. m \div CC = 2 * st + b
    <3>1. Divides(m, CC, 2 * st + b, C * h + r)
      BY <1>2, <1>3, <2>1 DEF Divides
    <3> QED
      BY <3>1, DivModUnique
  <2>3. (2 * st + b) % 2 = b
    OBVIOUS
  <2> QED
    BY <2>2, <2>3 DEF HitBit, CC
<1>9. HitCount(m) = h /\ RefCount(m) = r
  <2> DEFINE q == C * (2 * st + b) + h
  <2>1. q \in Nat
    BY <1>1
  <2>2. C * q = CC * (2 * st + b) + C * h
    BY <1>1 DEF CC
  <2>3. StateUnit * st = CC * (2 * st)
    BY <1>2
  <2>4. CC * (2 * st + b) = CC * (2 * st) + CC * b
    BY <1>2
  <2>5. C * h \in Nat /\ CC * b \in Nat /\ CC * (2 * st) \in Nat
    BY <1>1, <1>2
  <2>6. m = C * q + r
    <3> HIDE DEF q
    <3> QED
      BY <1>1, <1>2, <1>3, <1>5, <2>1, <2>2, <2>3, <2>4, <2>5
  <2>7. m \div C = q /\ m % C = r
    <3>1. Divides(m, C, q, r)
      BY <1>1, <2>1, <2>6 DEF Divides
    <3> QED
      BY <3>1, DivModUnique
  <2>8. q % C = h
    <3>1. Divides(q, C, 2 * st + b, h)
      BY <1>1 DEF Divides
    <3> QED
      BY <3>1, DivModUnique
  <2> QED
    BY <2>7, <2>8 DEF HitCount, RefCount
<1> QED
  BY <1>6, <1>7, <1>8, <1>9 DEF CC

\* Every word is packed from its fields.
LEMMA WordFields ==
  ASSUME NEW m \in Words
  PROVE  /\ State(m) \in 0 .. 7 /\ HitBit(m) \in 0 .. 1
         /\ HitCount(m) \in 0 .. CounterMod - 1 /\ RefCount(m) \in 0 .. CounterMod - 1
         /\ m = Pack(State(m), HitBit(m), HitCount(m), RefCount(m))
<1> DEFINE C == CounterMod
           CC == C * C
           q == m \div C
           p == q \div C
           st == p \div 2
           b == p % 2
           h == q % C
           r == m % C
<1>1. C \in Nat \ {0} /\ m \in Nat /\ m < MetaMod
  BY CounterAssumption, Products DEF Words
<1>2. CC \in Nat \ {0} /\ StateUnit = 2 * CC /\ StateUnit \in Nat \ {0} /\ MetaMod = 8 * StateUnit
  BY Products
<1>3. q \in Nat /\ r \in 0 .. C - 1 /\ m = C * q + r
  BY <1>1, DivModSplit
<1>4. p \in Nat /\ h \in 0 .. C - 1 /\ q = C * p + h
  BY <1>1, <1>3, DivModSplit
<1>5. st \in Nat /\ b \in 0 .. 1 /\ p = 2 * st + b
  <2> HIDE DEF p
  <2> QED
    BY <1>4, DivModSplit
<1> HIDE DEF q, p, st, b, h, r
<1>6. C * q = CC * p + C * h
  BY <1>1, <1>3, <1>4
<1> HIDE DEF CC
<1>7. CC * p = StateUnit * st + CC * b
  BY <1>2, <1>5
<1>8. m = StateUnit * st + (CC * b + (C * h + r))
  <2>1. C * h \in Nat /\ CC * b \in Nat /\ StateUnit * st \in Nat
    BY <1>1, <1>2, <1>4, <1>5
  <2> QED
    BY <1>3, <1>6, <1>7, <2>1
<1>9. m = Pack(st, b, h, r)
  <2>1. C * h \in Nat /\ CC * b \in Nat /\ StateUnit * st \in Nat
    BY <1>1, <1>2, <1>4, <1>5
  <2> QED
    BY <1>3, <1>8, <2>1 DEF Pack, CC
<1>10. st \in 0 .. 7
  <2>1. C * h \in Nat /\ CC * b \in Nat
    BY <1>1, <1>2, <1>4, <1>5
  <2>2. StateUnit * st < StateUnit * 8
    BY <1>1, <1>2, <1>3, <1>5, <1>8, <2>1
  <2> QED
    BY <1>2, <1>5, <2>2
<1>11. State(m) = st /\ HitBit(m) = b /\ HitCount(m) = h /\ RefCount(m) = r
  BY <1>4, <1>5, <1>3, <1>9, <1>10, PackFields
<1> QED
  BY <1>3, <1>4, <1>5, <1>9, <1>10, <1>11

-----------------------------------------------------------------------------
(***************************************************************************)
(* What the updates of a meta word do to its fields.                       *)
(***************************************************************************)
LEMMA AddUp ==
  ASSUME NEW m \in Words, NEW n \in Nat, m + n \in Words
  PROVE  Add(m, n) = m + n
<1>1. Divides(m + n, MetaMod, 0, m + n)
  BY Products DEF Words, Divides
<1> QED
  BY <1>1, DivModUnique DEF Add

LEMMA AddDown ==
  ASSUME NEW m \in Words, NEW n \in Nat, n <= m
  PROVE  Add(m, MetaMod - n) = m - n
<1>1. Divides(m + (MetaMod - n), MetaMod, 1, m - n)
  BY Products DEF Words, Divides
<1> QED
  BY <1>1, DivModUnique DEF Add

\* The fields are those of the word packed from them.
LEMMA Packed ==
  ASSUME NEW w, NEW st \in 0 .. 7, NEW b \in 0 .. 1,
         NEW h \in 0 .. CounterMod - 1, NEW r \in 0 .. CounterMod - 1,
         w = Pack(st, b, h, r)
  PROVE  /\ w \in Words
         /\ State(w) = st /\ HitBit(w) = b /\ HitCount(w) = h /\ RefCount(w) = r
BY PackFields

LEMMA PackTypes ==
  ASSUME NEW st \in 0 .. 7, NEW b \in 0 .. 1,
         NEW h \in 0 .. CounterMod - 1, NEW r \in 0 .. CounterMod - 1
  PROVE  /\ StateUnit * st \in Nat /\ (CounterMod * CounterMod) * b \in Nat
         /\ CounterMod * h \in Nat /\ r \in Nat
<1>1. CounterMod \in Nat
  BY CounterAssumption
<1>2. st \in Nat /\ b \in Nat /\ h \in Nat /\ r \in Nat
  BY <1>1
<1>3. StateUnit \in Nat /\ CounterMod * CounterMod \in Nat
  BY Products
<1>4. (CounterMod * CounterMod) * b \in Nat
  <2>1. \A x \in Nat : x * b \in Nat
    BY <1>2
  <2> QED
    BY <1>3, <2>1
<1>5. StateUnit * st \in Nat
  BY <1>2, <1>3
<1>6. CounterMod * h \in Nat
  BY <1>1, <1>2
<1> QED
  BY <1>2, <1>4, <1>5, <1>6

LEMMA RefUp ==
  ASSUME NEW m \in Words, RefCount(m) + 1 < CounterMod
  PROVE  LET w == Add(m, 1)
         IN  /\ w \in Words /\ State(w) = State(m) /\ HitBit(w) = HitBit(m)
             /\ HitCount(w) = HitCount(m) /\ RefCount(w) = RefCount(m) + 1
<1> DEFINE r == RefCount(m) + 1
<1>1. r \in 0 .. CounterMod - 1
  BY WordFields, CounterAssumption
<1>2. m + 1 = Pack(State(m), HitBit(m), HitCount(m), r)
  <2>1. m = Pack(State(m), HitBit(m), HitCount(m), RefCount(m))
    BY WordFields
  <2>2. /\ StateUnit * State(m) \in Nat /\ (CounterMod * CounterMod) * HitBit(m) \in Nat
        /\ CounterMod * HitCount(m) \in Nat /\ RefCount(m) \in Nat
    BY WordFields, PackTypes
  <2>3. m + 1 = StateUnit * State(m) + (CounterMod * CounterMod) * HitBit(m)
                  + CounterMod * HitCount(m) + RefCount(m) + 1
    BY <2>1 DEF Pack
  <2> QED
    BY <2>2, <2>3 DEF Pack
<1> HIDE DEF r
<1>3. /\ m + 1 \in Words /\ State(m + 1) = State(m) /\ HitBit(m + 1) = HitBit(m)
      /\ HitCount(m + 1) = HitCount(m) /\ RefCount(m + 1) = r
  BY <1>1, <1>2, WordFields, PackFields
<1>4. Add(m, 1) = m + 1
  BY <1>3, AddUp
<1> QED
  BY <1>3, <1>4 DEF r

LEMMA RefDown ==
  ASSUME NEW m \in Words, RefCount(m) >= 1
  PROVE  LET w == Add(m, MetaMod - 1)
         IN  /\ w \in Words /\ State(w) = State(m) /\ HitBit(w) = HitBit(m)
             /\ HitCount(w) = HitCount(m) /\ RefCount(w) = RefCount(m) - 1
<1> DEFINE r == RefCount(m) - 1
<1>1. r \in 0 .. CounterMod - 1
  BY WordFields, CounterAssumption
<1>2. m - 1 = Pack(State(m), HitBit(m), HitCount(m), r) /\ m >= 1
  <2>1. m = Pack(State(m), HitBit(m), HitCount(m), RefCount(m))
    BY WordFields
  <2>2. /\ StateUnit * State(m) \in Nat /\ (CounterMod * CounterMod) * HitBit(m) \in Nat
        /\ CounterMod * HitCount(m) \in Nat /\ RefCount(m) \in Nat
    BY WordFields, PackTypes
  <2>3. m = StateUnit * State(m) + (CounterMod * CounterMod) * HitBit(m)
                  + CounterMod * HitCount(m) + RefCount(m)
    BY <2>1 DEF Pack
  <2> QED
    BY <2>2, <2>3 DEF Pack
<1> HIDE DEF r
<1>3. /\ m - 1 \in Words /\ State(m - 1) = State(m) /\ HitBit(m - 1) = HitBit(m)
      /\ HitCount(m - 1) = HitCount(m) /\ RefCount(m - 1) = r
  BY <1>1, <1>2, WordFields, PackFields
<1>4. Add(m, MetaMod - 1) = m - 1
  BY <1>2, AddDown
<1> QED
  BY <1>3, <1>4 DEF r

LEMMA HitUp ==
  ASSUME NEW m \in Words, HitCount(m) + 1 < CounterMod
  PROVE  LET w == Add(m, HitIncrement)
         IN  /\ w \in Words /\ State(w) = State(m) /\ HitBit(w) = HitBit(m)
             /\ HitCount(w) = HitCount(m) + 1 /\ RefCount(w) = RefCount(m)
<1> DEFINE h == HitCount(m) + 1
           n == m + CounterMod
<1>1. h \in 0 .. CounterMod - 1 /\ CounterMod \in Nat
  BY WordFields, CounterAssumption
<1>2. n = Pack(State(m), HitBit(m), h, RefCount(m))
  <2>1. m = Pack(State(m), HitBit(m), HitCount(m), RefCount(m))
    BY WordFields
  <2>2. /\ StateUnit * State(m) \in Nat /\ (CounterMod * CounterMod) * HitBit(m) \in Nat
        /\ CounterMod * HitCount(m) \in Nat /\ RefCount(m) \in Nat
    BY WordFields, PackTypes
  <2>3. n = StateUnit * State(m) + (CounterMod * CounterMod) * HitBit(m)
                  + CounterMod * HitCount(m) + RefCount(m) + CounterMod
    BY <2>1 DEF Pack
  <2>4. CounterMod * h = CounterMod * HitCount(m) + CounterMod
    <3>1. \A x \in Nat : CounterMod * (x + 1) = CounterMod * x + CounterMod
      BY <1>1
    <3>2. HitCount(m) \in Nat
      BY <1>1, WordFields
    <3> QED
      BY <3>1, <3>2
  <2> HIDE DEF h, n
  <2> QED
    BY <1>1, <2>2, <2>3, <2>4 DEF Pack
<1> HIDE DEF h
<1>3. /\ n \in Words /\ State(n) = State(m) /\ HitBit(n) = HitBit(m)
      /\ HitCount(n) = h /\ RefCount(n) = RefCount(m)
  <2>1. /\ State(m) \in 0 .. 7 /\ HitBit(m) \in 0 .. 1 /\ RefCount(m) \in 0 .. CounterMod - 1
        /\ h \in 0 .. CounterMod - 1 /\ n = Pack(State(m), HitBit(m), h, RefCount(m))
    BY <1>1, <1>2, WordFields
  <2> HIDE DEF n
  <2> QED
    BY <2>1, Packed
<1>4. Add(m, HitIncrement) = n
  BY <1>1, <1>3, AddUp DEF HitIncrement
<1> QED
  BY <1>3, <1>4 DEF h

LEMMA HitDown ==
  ASSUME NEW m \in Words, NEW a \in Nat, a <= HitCount(m)
  PROVE  LET w == Add(m, MetaMod - a * HitIncrement)
         IN  /\ w \in Words /\ State(w) = State(m) /\ HitBit(w) = HitBit(m)
             /\ HitCount(w) = HitCount(m) - a /\ RefCount(w) = RefCount(m)
<1> DEFINE h == HitCount(m) - a
           k == a * CounterMod
           n == m - k
<1>1. h \in 0 .. CounterMod - 1 /\ CounterMod \in Nat /\ HitCount(m) \in Nat
  BY WordFields, CounterAssumption
<1>2. k \in Nat
  BY <1>1
<1>3. n = Pack(State(m), HitBit(m), h, RefCount(m)) /\ k <= m
  <2>1. m = Pack(State(m), HitBit(m), HitCount(m), RefCount(m))
    BY WordFields
  <2>2. /\ StateUnit * State(m) \in Nat /\ (CounterMod * CounterMod) * HitBit(m) \in Nat
        /\ CounterMod * HitCount(m) \in Nat /\ RefCount(m) \in Nat
    BY WordFields, PackTypes
  <2>3. m = StateUnit * State(m) + (CounterMod * CounterMod) * HitBit(m)
                  + CounterMod * HitCount(m) + RefCount(m)
    BY <2>1 DEF Pack
  <2>4. CounterMod * h = CounterMod * HitCount(m) - k /\ CounterMod * h \in Nat
    <3>1. \A x, y \in Nat : CounterMod * (x - y) = CounterMod * x - y * CounterMod
      BY <1>1
    <3>2. CounterMod * h \in Nat
      BY <1>1
    <3> QED
      BY <1>1, <3>1, <3>2
  <2> HIDE DEF h, k
  <2> QED
    BY <1>1, <1>2, <2>2, <2>3, <2>4 DEF Pack
<1> HIDE DEF h
<1>4. /\ n \in Words /\ State(n) = State(m) /\ HitBit(n) = HitBit(m)
      /\ HitCount(n) = h /\ RefCount(n) = RefCount(m)
  <2>1. /\ State(m) \in 0 .. 7 /\ HitBit(m) \in 0 .. 1 /\ RefCount(m) \in 0 .. CounterMod - 1
        /\ h \in 0 .. CounterMod - 1 /\ n = Pack(State(m), HitBit(m), h, RefCount(m))
    BY <1>1, <1>3, WordFields
  <2> HIDE DEF n
  <2> QED
    BY <2>1, Packed
<1>5. Add(m, MetaMod - k) = n
  <2> HIDE DEF k
  <2> QED
    BY <1>2, <1>3, AddDown DEF n
<1> QED
  BY <1>4, <1>5 DEF h, HitIncrement

\* The state and what is below it.
LEMMA LowSplit ==
  ASSUME NEW m \in Words
  PROVE  /\ State(m) \in 0 .. 7 /\ Low(m) \in 0 .. StateUnit - 1
         /\ Divides(m, StateUnit, State(m), Low(m))
<1>1. State(m) \in 0 .. 7
  BY WordFields
<1>2. m \in Nat /\ StateUnit \in Nat \ {0}
  BY Products DEF Words
<1> QED
  BY <1>1, <1>2, DivModSplit DEF Divides, State, Low

LEMMA LowMoves ==
  ASSUME NEW st \in 0 .. 7, NEW low \in 0 .. StateUnit - 1, NEW w,
         w = StateUnit * st + low
  PROVE  w \in Words /\ State(w) = st /\ Low(w) = low
<1>1. StateUnit \in Nat \ {0} /\ MetaMod = 8 * StateUnit
  BY Products
<1>2. StateUnit * st \in 0 .. 7 * StateUnit
  BY <1>1
<1>3. w \in Words
  BY <1>1, <1>2 DEF Words
<1>4. Divides(w, StateUnit, st, low)
  BY <1>1 DEF Divides
<1> QED
  BY <1>3, <1>4, DivModUnique DEF State, Low

LEMMA LowUp ==
  ASSUME NEW m \in Words, Low(m) # StateUnit - 1
  PROVE  LET w == Add(m, 1)
         IN  w \in Words /\ State(w) = State(m) /\ Low(w) = Low(m) + 1
<1>1. StateUnit \in Nat \ {0}
  BY Products
<1>2. StateUnit * State(m) \in Nat /\ m = StateUnit * State(m) + Low(m)
  BY <1>1, LowSplit DEF Divides
<1>3. Low(m) + 1 \in 0 .. StateUnit - 1 /\ m + 1 = StateUnit * State(m) + (Low(m) + 1)
  BY <1>1, <1>2, LowSplit
<1>4. m + 1 \in Words /\ State(m + 1) = State(m) /\ Low(m + 1) = Low(m) + 1
  BY <1>3, LowSplit, LowMoves
<1> QED
  BY <1>4, AddUp

LEMMA LowDown ==
  ASSUME NEW m \in Words, Low(m) >= 1
  PROVE  LET w == Add(m, MetaMod - 1)
         IN  w \in Words /\ State(w) = State(m) /\ Low(w) = Low(m) - 1
<1>1. StateUnit \in Nat \ {0}
  BY Products
<1>2. StateUnit * State(m) \in Nat /\ m = StateUnit * State(m) + Low(m)
  BY <1>1, LowSplit DEF Divides
<1>3. Low(m) - 1 \in 0 .. StateUnit - 1 /\ m - 1 = StateUnit * State(m) + (Low(m) - 1) /\ m >= 1
  BY <1>1, <1>2, LowSplit
<1>4. m - 1 \in Words /\ State(m - 1) = State(m) /\ Low(m - 1) = Low(m) - 1
  BY <1>3, LowSplit, LowMoves
<1> QED
  BY <1>3, <1>4, AddDown

LEMMA Occupied ==
  ASSUME NEW m \in Words
  PROVE  LET w == SetOccupied(m)
         IN  /\ w \in Words
             /\ State(m) < 4 => State(w) = State(m) + 4 /\ Low(w) = Low(m)
             /\ State(m) >= 4 => w = m
<1>1. StateUnit \in Nat \ {0}
  BY Products
<1>2. CASE State(m) < 4
  <2>1. State(m) + 4 \in 0 .. 7
    BY <1>2, LowSplit
  <2>2. m = StateUnit * State(m) + Low(m)
    BY LowSplit DEF Divides
  <2>3. StateUnit * State(m) \in Nat /\ StateUnit * (State(m) + 4) = StateUnit * State(m) + 4 * StateUnit
    <3>1. \A x \in Nat : StateUnit * x \in Nat /\ StateUnit * (x + 4) = StateUnit * x + 4 * StateUnit
      BY <1>1
    <3> QED
      BY <3>1, LowSplit
  <2>4. m + 4 * StateUnit = StateUnit * (State(m) + 4) + Low(m)
    BY <1>1, <2>2, <2>3, LowSplit
  <2> QED
    BY <1>2, <2>1, <2>4, LowSplit, LowMoves DEF SetOccupied
<1>3. CASE ~(State(m) < 4)
  BY <1>3, LowSplit DEF SetOccupied
<1> QED
  BY <1>2, <1>3

LEMMA Unseen ==
  ASSUME NEW m \in Words, State(m) \in {6, 7}
  PROVE  LET w == ClearVisible(m)
         IN  /\ w \in Words /\ State(w) = 6 /\ HitBit(w) = HitBit(m)
             /\ HitCount(w) = HitCount(m) /\ RefCount(w) = RefCount(m)
<1>1. CASE State(m) = 6
  BY <1>1 DEF ClearVisible
<1>2. CASE State(m) = 7
  <2>1. m = Pack(7, HitBit(m), HitCount(m), RefCount(m))
    BY <1>2, WordFields
  <2>2. /\ StateUnit * 7 \in Nat /\ (CounterMod * CounterMod) * HitBit(m) \in Nat
        /\ CounterMod * HitCount(m) \in Nat /\ RefCount(m) \in Nat
    BY WordFields, PackTypes
  <2>3. StateUnit \in Nat /\ StateUnit * 7 - StateUnit = StateUnit * 6
    BY Products
  <2>4. m - StateUnit = Pack(6, HitBit(m), HitCount(m), RefCount(m))
    BY <2>1, <2>2, <2>3 DEF Pack
  <2>5. ClearVisible(m) = m - StateUnit
    BY <1>2 DEF ClearVisible
  <2> QED
    BY <2>4, <2>5, WordFields, PackFields
<1> QED
  BY <1>1, <1>2

LEMMA MetaFields ==
  ASSUME NEW st \in 0 .. 7, NEW h \in 0 .. CounterMod - 1
  PROVE  LET w == Meta(st, h)
         IN  /\ w \in Words /\ State(w) = st /\ HitBit(w) = 0
             /\ HitCount(w) = h /\ RefCount(w) = 0
<1>1. Meta(st, h) = Pack(st, 0, h, 0)
  <2>1. /\ StateUnit * st \in Nat /\ CounterMod * h \in Nat
    BY PackTypes, CounterAssumption
  <2>2. st * StateUnit = StateUnit * st /\ h * CounterMod = CounterMod * h
    BY Products, CounterAssumption
  <2>3. (CounterMod * CounterMod) * 0 = 0
    BY Products
  <2> QED
    BY <2>1, <2>2, <2>3 DEF Meta, Pack, HitIncrement
<1>2. 0 \in 0 .. CounterMod - 1
  BY CounterAssumption
<1> QED
  BY <1>1, <1>2, PackFields

LEMMA EmptyMeta ==
  \A st \in 0 .. 7 : Low(Meta(st, 0)) = 0
<1>1. TAKE st \in 0 .. 7
<1>2. StateUnit \in Nat \ {0} /\ CounterMod \in Nat
  BY Products, CounterAssumption
<1>3. Meta(st, 0) = StateUnit * st + 0
  BY <1>2 DEF Meta, HitIncrement
<1> QED
  BY <1>2, <1>3, LowMoves

-----------------------------------------------------------------------------
(***************************************************************************)
(* A step of thread t, and the slots and threads it leaves alone.          *)
(***************************************************************************)
StepOf(t) ==
  \A u \in Threads \ {t} : frame'[u] = frame[u] /\ held'[u] = held[u] /\ todo'[u] = todo[u]

\* t means the same to slot s as before.
SameView(t, s) ==
  /\ t \in Holders(s)' <=> t \in Holders(s)
  /\ t \in Probers(s)' <=> t \in Probers(s)
  /\ t \in Correcting(s)' <=> t \in Correcting(s)
  /\ Owns(t, s)' <=> Owns(t, s)
  /\ t \in Probers(s) /\ frame[t].pc = "eraseUnref" => frame'[t].pc = "eraseUnref"

LEMMA OtherOwns ==
  ASSUME NEW t \in Threads, StepOf(t), NEW u \in Threads \ {t}, NEW s \in Slots
  PROVE  Owns(u, s)' <=> Owns(u, s)
BY DEF StepOf, Owns, Cur, At, ClockSlot

\* Who refers to s, but for t.
LEMMA OtherViews ==
  ASSUME NEW t \in Threads, StepOf(t), NEW s \in Slots, NEW u \in Threads \ {t}
  PROVE  /\ u \in Holders(s)' <=> u \in Holders(s)
         /\ u \in Probers(s)' <=> u \in Probers(s)
         /\ u \in Correcting(s)' <=> u \in Correcting(s)
BY DEF StepOf, Holders, Probers, Correcting, Cur, At

LEMMA StoredState ==
  ASSUME NEW s \in Slots
  PROVE  s \in Stored <=> State(meta[s]) \in {6, 7}
BY DEF Stored, StateInvisible, StateVisible

\* A slot that t does not touch.
LEMMA SameSlot ==
  ASSUME CInv, NEW t \in Threads, StepOf(t), NEW s \in Slots,
         meta'[s] = meta[s], entry'[s].key = entry[s].key, SameView(t, s)
  PROVE  SlotInv(s)'
<1>1. Holders(s)' = Holders(s)
  BY OtherViews DEF SameView, Holders
<1>2. Probers(s)' = Probers(s)
  BY OtherViews DEF SameView, Probers
<1>3. Correcting(s)' = Correcting(s)
  BY OtherViews DEF SameView, Correcting
<1>4. SlotInv(s)
  BY DEF CInv
<1>5. s \in Stored' <=> s \in Stored
  BY DEF Stored
<1>6. (\E u \in Threads : Owns(u, s)) => (\E u \in Threads : Owns(u, s)')
  BY OtherOwns DEF SameView
<1>7. StoredInv(s) => StoredInv(s)'
  BY <1>1, <1>2, <1>3 DEF StoredInv
<1>8. VacantInv(s) => VacantInv(s)'
  <2>1. ASSUME NEW u \in Probers(s), VacantInv(s)
        PROVE  At(u, "eraseUnref")'
    <3>1. frame[u].pc = "eraseUnref" /\ u \in Threads
      BY <2>1 DEF VacantInv, At, Probers
    <3>2. CASE u = t
      BY <3>1, <3>2, <2>1 DEF SameView, At
    <3>3. CASE u # t
      BY <3>1, <3>3 DEF StepOf, At
    <3> QED
      BY <3>2, <3>3
  <2> QED
    BY <1>1, <1>2, <2>1 DEF VacantInv
<1> QED
  BY <1>4, <1>5, <1>6, <1>7, <1>8 DEF SlotInv

\* What the other threads know survives the step of t, if t leaves the slots
\* that others own and the entries that others hold alone.
LEMMA OtherThreads ==
  ASSUME CInv, NEW t \in Threads, StepOf(t),
         \A s \in Slots : Owns(t, s)' => Owns(t, s) \/ State(meta[s]) # StateConstruction,
         \A s \in Slots : State(meta[s]) = StateConstruction /\ ~Owns(t, s) =>
                            State(meta'[s]) = StateConstruction,
         \A s \in Slots : entry'[s] = entry[s] \/ Owns(t, s)
  PROVE  \A u \in Threads \ {t} : ThreadInv(u)' /\ OwnerInv(u)' /\ HandleInv(u)'
<1> SUFFICES ASSUME NEW u \in Threads, u # t
             PROVE  ThreadInv(u)' /\ OwnerInv(u)' /\ HandleInv(u)'
  OBVIOUS
<1>1. frame'[u] = frame[u] /\ held'[u] = held[u] /\ todo'[u] = todo[u]
  BY DEF StepOf
<1>2. ThreadInv(u) /\ OwnerInv(u) /\ HandleInv(u)
  BY DEF CInv
<1>3. ThreadInv(u)'
  BY <1>1, <1>2 DEF ThreadInv
<1>4. OwnerInv(u)'
  <2> SUFFICES ASSUME NEW s \in Slots, Owns(u, s)'
               PROVE  /\ State(meta'[s]) = StateConstruction
                      /\ frame'[u].pc \in {"rollback", "evictFree"} => entry'[s].key \in Keys
                      /\ \A w \in Threads : Owns(w, s)' => w = u
    BY DEF OwnerInv
  <2>1. Owns(u, s)
    BY OtherOwns
  <2>2. /\ State(meta[s]) = StateConstruction
        /\ frame[u].pc \in {"rollback", "evictFree"} => entry[s].key \in Keys
        /\ \A w \in Threads : Owns(w, s) => w = u
    BY <1>2, <2>1 DEF OwnerInv
  <2>3. ~Owns(t, s)
    BY <2>2
  <2>4. ~Owns(t, s)'
    BY <2>2, <2>3
  <2>5. \A w \in Threads : Owns(w, s)' => w = u
    BY <2>2, <2>4, OtherOwns
  <2> QED
    BY <1>1, <2>2, <2>3, <2>5
<1>5. HandleInv(u)'
  <2> SUFFICES ASSUME held[u] # None
               PROVE  entry'[held[u].slot] = held[u].e
    BY <1>1 DEF HandleInv
  <2>1. held[u].slot \in Slots
    BY DEF CInv, StateType, HeldHandles
  <2>2. u \in Holders(held[u].slot)
    BY DEF Holders
  <2>3. held[u].slot \in Stored
    BY <2>1, <2>2 DEF CInv, SlotInv, VacantInv
  <2>4. State(meta[held[u].slot]) # StateConstruction
    BY <2>1, <2>3, StoredState DEF StateConstruction
  <2>5. ~Owns(t, held[u].slot)
    BY <2>1, <2>4 DEF CInv, OwnerInv
  <2> QED
    BY <1>2, <2>1, <2>5 DEF HandleInv
<1> QED
  BY <1>3, <1>4, <1>5

\* A frame that neither refers to a slot nor owns one.
Detached(f) ==
  /\ f.pc \notin RefLabels \cup {"fill", "eraseFree", "evictFree"}
  /\ f.pc = "rollback" => f.to # "evictFree"

LEMMA DetachedViews ==
  ASSUME NEW t \in Threads, NEW s \in Slots, Detached(frame[t])
  PROVE  t \notin Probers(s) /\ t \notin Correcting(s) /\ ~Owns(t, s)
BY DEF Detached, Probers, Correcting, Owns, At, RefLabels

LEMMA Assemble ==
  ASSUME CInv, NEW t \in Threads, StepOf(t), StateType',
         \A s \in Slots : Owns(t, s)' => Owns(t, s) \/ State(meta[s]) # StateConstruction,
         \A s \in Slots : State(meta[s]) = StateConstruction /\ ~Owns(t, s) =>
                            State(meta'[s]) = StateConstruction,
         \A s \in Slots : entry'[s] = entry[s] \/ Owns(t, s),
         ThreadInv(t)', OwnerInv(t)', HandleInv(t)',
         \A s \in Slots : SlotInv(s)'
  PROVE  CInv'
<1>1. \A u \in Threads \ {t} : ThreadInv(u)' /\ OwnerInv(u)' /\ HandleInv(u)'
  BY OtherThreads
<1> QED
  BY <1>1 DEF CInv

\* t changes nothing but its frame and the counters.
FrameMove(t, g) ==
  /\ g \in Frames
  /\ frame' = [frame EXCEPT ![t] = g]
  /\ todo' \in [Threads -> SUBSET Calls]
  /\ \A u \in Threads \ {t} : todo'[u] = todo[u]
  /\ displacements' \in [Slots -> Int]
  /\ occupancy' \in Int
  /\ usage' \in Int
  /\ clock_pointer' \in Nat
  /\ hit_decr_delta' \in Nat
  /\ alive' = alive

LEMMA FrameMoves ==
  ASSUME CInv, NEW t \in Threads, NEW g, FrameMove(t, g)
  PROVE  /\ frame' \in [Threads -> Frames] /\ frame'[t] = g
         /\ \A u \in Threads \ {t} : frame'[u] = frame[u]
         /\ meta' \in [Slots -> Words] /\ entry' \in [Slots -> Entries]
              /\ held' \in [Threads -> HeldHandles \cup {None}] => StateType'
<1>1. frame \in [Threads -> Frames] /\ alive \in BOOLEAN
  BY DEF CInv, StateType
<1>2. frame' \in [Threads -> Frames] /\ frame'[t] = g
  BY <1>1 DEF FrameMove
<1>3. \A u \in Threads \ {t} : frame'[u] = frame[u]
  BY <1>1 DEF FrameMove
<1> QED
  BY <1>1, <1>2, <1>3 DEF FrameMove, StateType

\* No slot changes, and t means the same to all of them.
LEMMA StillStep ==
  ASSUME CInv, NEW t \in Threads, NEW g, FrameMove(t, g), UNCHANGED <<meta, entry, held>>,
         LocalInv(t, g, todo'[t], held[t]),
         \A s \in Slots : SameView(t, s),
         g.pc \in {"rollback", "evictFree"} => frame[t].pc \in {"rollback", "evictFree"} \/ Detached(g)
  PROVE  CInv'
<1>1. frame'[t] = g /\ StateType' /\ StepOf(t)
  BY FrameMoves DEF StepOf, FrameMove, CInv, StateType
<1>2. \A s \in Slots : SlotInv(s)'
  BY <1>1, SameSlot
<1>3. ThreadInv(t)'
  BY <1>1 DEF ThreadInv
<1>4. HandleInv(t)'
  BY DEF CInv, HandleInv
<1>5. OwnerInv(t)'
  <2> SUFFICES ASSUME NEW s \in Slots, Owns(t, s)'
               PROVE  /\ State(meta'[s]) = StateConstruction
                      /\ g.pc \in {"rollback", "evictFree"} => entry'[s].key \in Keys
                      /\ \A u \in Threads : Owns(u, s)' => u = t
    BY <1>1 DEF OwnerInv
  <2>1. Owns(t, s)
    BY DEF SameView
  <2>2. /\ State(meta[s]) = StateConstruction
        /\ frame[t].pc \in {"rollback", "evictFree"} => entry[s].key \in Keys
        /\ \A u \in Threads : Owns(u, s) => u = t
    BY <2>1 DEF CInv, OwnerInv
  <2>3. \A u \in Threads : Owns(u, s)' => u = t
    BY <1>1, <2>2, OtherOwns
  <2>4. ~Detached(g)
    BY <1>1 DEF Detached, Owns, At
  <2> QED
    BY <2>2, <2>3, <2>4
<1>6. /\ \A s \in Slots : Owns(t, s)' => Owns(t, s)
      /\ \A s \in Slots : State(meta'[s]) = State(meta[s]) /\ entry'[s] = entry[s]
  BY DEF SameView
<1> QED
  BY <1>1, <1>2, <1>3, <1>4, <1>5, <1>6, Assemble

LEMMA QuietStep ==
  ASSUME CInv, NEW t \in Threads, NEW g, FrameMove(t, g), UNCHANGED <<meta, entry, held>>,
         LocalInv(t, g, todo'[t], held[t]), Detached(frame[t]), Detached(g)
  PROVE  CInv'
<1>1. frame'[t] = g
  BY FrameMoves
<1>2. ASSUME NEW s \in Slots
      PROVE  SameView(t, s)
  <2>1. t \notin Probers(s) /\ t \notin Correcting(s) /\ ~Owns(t, s)
    BY DetachedViews
  <2>2. t \notin Probers(s)' /\ t \notin Correcting(s)' /\ ~Owns(t, s)'
    BY <1>1 DEF Detached, Probers, Correcting, Owns, At, RefLabels
  <2>3. t \in Holders(s)' <=> t \in Holders(s)
    BY DEF Holders
  <2> QED
    BY <2>1, <2>2, <2>3 DEF SameView
<1> QED
  BY <1>2, StillStep

-----------------------------------------------------------------------------
(***************************************************************************)
(* The steps that change no meta word, no entry and no handle.             *)
(***************************************************************************)
LEMMA Actor ==
  ASSUME CInv, NEW t \in Threads
  PROVE  /\ frame[t] \in Frames /\ frame \in [Threads -> Frames]
         /\ LocalInv(t, frame[t], todo[t], held[t])
         /\ todo[t] \subseteq Calls /\ Workload[t] \subseteq Calls
         /\ frame[t].pc # "idle" => frame[t].call.h \in Handles
         /\ frame[t].pc # "idle" => Key(t) \in Keys /\ Charge(t) \in Nat
<1>1. /\ frame[t] \in Frames /\ frame \in [Threads -> Frames]
      /\ LocalInv(t, frame[t], todo[t], held[t])
      /\ todo[t] \subseteq Calls
  BY DEF CInv, StateType, ThreadInv
<1>2. Workload[t] \subseteq Calls
  BY ClientAssumption
<1>3. frame[t].pc # "idle" => frame[t].call \in Calls
  BY <1>1, <1>2 DEF LocalInv
<1>4. frame[t].pc # "idle" => frame[t].call.h \in Handles
  BY <1>3 DEF Calls
<1>5. frame[t].pc # "idle" => Key(t) \in Keys /\ Charge(t) \in Nat
  BY <1>4 DEF Handles, Key, Charge
<1> QED
  BY <1>1, <1>2, <1>4, <1>5

LEMMA SlotFacts ==
  /\ 0 \in Slots /\ 0 \in Words /\ Length \in Nat \ {0}
  /\ \A k \in Keys : Base[k] \in Slots
  /\ \A k \in Keys, s \in Slots : NextSlot(k, s) \in Slots
  /\ \A n \in Nat : n % Length \in Slots
<1>1. Length \in Nat \ {0} /\ Base \in [Keys -> 0 .. Length - 1] /\ Increment \in [Keys -> Nat]
  BY TableAssumption
<1>2. 0 \in Words
  BY Products DEF Words, MetaMod
<1>3. \A n \in Nat : n % Length \in Slots
  BY <1>1 DEF Slots
<1>4. ASSUME NEW k \in Keys, NEW s \in Slots
      PROVE  NextSlot(k, s) \in Slots
  BY <1>1, <1>3 DEF NextSlot, Slots
<1> QED
  BY <1>1, <1>2, <1>3, <1>4 DEF Slots

LEMMA IdleFrame == Idle \in Frames /\ Detached(Idle)
<1>1. "idle" \in Labels /\ NoCall \in Calls \cup {NoCall}
  BY DEF Labels
<1>2. Idle \in Frames
  BY <1>1, SlotFacts DEF Idle, Frames
<1> QED
  BY <1>2 DEF Idle, Detached, RefLabels

\* A call that ends leaves nothing behind in its frame.
LEMMA Returns ==
  ASSUME CInv, NEW t \in Threads, LocalInv(t, frame[t], todo[t], held[t])
  PROVE  \A h : LocalInv(t, Idle, todo[t], h)
BY DEF LocalInv, Idle, LookupLabels

LEMMA LookupBeginKeeps ==
  ASSUME CInv, NEW t \in Threads, NEW c \in todo[t], LookupBegin(t, c)
  PROVE  CInv'
<1> DEFINE f == frame[t]
           g == [f EXCEPT !.call = c, !.cur = Base[c.h.key], !.pc = "lookupRef"]
<1>1. f \in Frames /\ frame \in [Threads -> Frames] /\ c \in Calls /\ c \in Workload[t]
  BY Actor DEF LocalInv
<1>2. c.h.key \in Keys /\ c.op = "lookup" /\ held[t] = None /\ f.pc = "idle"
  BY <1>1 DEF Calls, Handles, LookupBegin, Take, At
<1>3. Base[c.h.key] \in Slots /\ "lookupRef" \in Labels
  BY <1>2, SlotFacts DEF Labels
<1>4. g \in Frames
  BY <1>1, <1>3 DEF Frames
<1>5. frame' = [frame EXCEPT ![t] = g]
  BY <1>1 DEF LookupBegin
<1>6. FrameMove(t, g)
  BY <1>4, <1>5 DEF FrameMove, LookupBegin, Take, shared, CInv, StateType
<1>7. g.pc = "lookupRef" /\ g.call = c
  BY <1>1 DEF Frames
<1>8. todo'[t] \subseteq todo[t]
  BY DEF LookupBegin, Take, CInv, StateType
<1>9. LocalInv(t, g, todo'[t], held[t])
  <2> HIDE DEF g
  <2> QED
    BY <1>1, <1>2, <1>7, <1>8, Actor DEF LocalInv, LookupLabels
<1>10. Detached(f) /\ Detached(g)
  <2> HIDE DEF g
  <2> QED
    BY <1>2, <1>7 DEF Detached, RefLabels
<1> QED
  BY <1>6, <1>9, <1>10, QuietStep DEF LookupBegin, shared

\* Labels at which a call of Insert or Erase has no slot of its own.
PlainLabels ==
  {"rollback", "reserve", "undoOccupancy", "fail", "failUsage", "evict", "clockLoad",
   "evictOccupancy", "evictUsage", "slot", "slotRef", "slotNext", "eraseFirst",
   "eraseRef", "eraseOccupancy", "eraseUsage", "eraseNext"}

CountersTyped ==
  /\ displacements' \in [Slots -> Int]
  /\ occupancy' \in Int
  /\ usage' \in Int
  /\ clock_pointer' \in Nat
  /\ hit_decr_delta' \in Nat

LEMMA PlainLocal ==
  ASSUME NEW t, NEW f, NEW g, NEW calls, NEW handle, LocalInv(t, f, calls, handle),
         f.pc \notin LookupLabels \cup {"idle"}, g.call = f.call,
         g.pc \notin LookupLabels \cup {"idle", "clockAge", "clockTake"},
         g.pc = "rollback" => g.to \in {"evictFree", "fail", "eraseFirst", "eraseNext"}
  PROVE  LocalInv(t, g, calls, handle)
BY DEF LocalInv, LookupLabels

\* One plain label to the next.
LEMMA PlainStep ==
  ASSUME CInv, NEW t \in Threads, NEW g \in Frames, frame' = [frame EXCEPT ![t] = g],
         UNCHANGED <<meta, entry, held, todo, alive>>, CountersTyped,
         frame[t].pc \notin LookupLabels \cup {"idle"}, Detached(frame[t]),
         g.call = frame[t].call, g.pc \in PlainLabels,
         g.pc = "rollback" => g.to \in {"fail", "eraseFirst", "eraseNext"}
  PROVE  CInv'
<1>1. FrameMove(t, g)
  BY DEF FrameMove, CountersTyped, CInv, StateType
<1>2. LocalInv(t, g, todo'[t], held[t])
  <2>1. g.pc \notin LookupLabels \cup {"idle", "clockAge", "clockTake"}
    BY DEF PlainLabels, LookupLabels
  <2> QED
    BY <2>1, PlainLocal, Actor
<1>3. Detached(g)
  BY DEF Detached, PlainLabels, RefLabels
<1> QED
  BY <1>1, <1>2, <1>3, QuietStep

LEMMA EndStep ==
  ASSUME CInv, NEW t \in Threads, frame' = [frame EXCEPT ![t] = Idle],
         UNCHANGED <<meta, entry, held, todo, alive>>, CountersTyped, Detached(frame[t])
  PROVE  CInv'
<1>1. FrameMove(t, Idle)
  BY IdleFrame DEF FrameMove, CountersTyped, CInv, StateType
<1>2. LocalInv(t, Idle, todo'[t], held[t])
  BY Returns, Actor
<1> QED
  BY <1>1, <1>2, IdleFrame, QuietStep

LEMMA RollbackFrame ==
  ASSUME NEW f \in Frames, NEW k \in Keys, NEW h, NEW l \in Labels
  PROVE  LET g == RollbackTo(f, k, h, l)
         IN  /\ g \in Frames /\ g.call = f.call /\ g.cur = f.cur /\ g.ptr = f.ptr /\ g.i = f.i
             /\ g.pc = l \/ (g.pc = "rollback" /\ g.to = l)
<1>1. Base[k] \in Slots /\ "rollback" \in Labels
  BY SlotFacts DEF Labels
<1>2. CASE Base[k] = h
  <2>1. RollbackTo(f, k, h, l) = [f EXCEPT !.pc = l]
    BY <1>2 DEF RollbackTo
  <2> QED
    BY <2>1 DEF Frames
<1>3. CASE Base[k] # h
  <2>1. RollbackTo(f, k, h, l) = [f EXCEPT !.rb = Base[k], !.to = l, !.pc = "rollback"]
    BY <1>3 DEF RollbackTo
  <2> QED
    BY <1>1, <2>1 DEF Frames
<1> QED
  BY <1>2, <1>3

LEMMA LookupNextKeeps ==
  ASSUME CInv, NEW t \in Threads, LookupNext(t)
  PROVE  CInv'
<1> DEFINE f == frame[t]
           next == NextSlot(Key(t), Cur(t))
           g == [f EXCEPT !.cur = next, !.pc = "lookupRef"]
<1>1. f \in Frames /\ frame \in [Threads -> Frames] /\ f.pc = "lookupNext"
  BY Actor DEF LookupNext, At
<1>2. UNCHANGED <<meta, entry, held, todo, alive>> /\ CountersTyped
  BY DEF LookupNext, shared, CInv, StateType, CountersTyped
<1>3. Detached(f)
  BY <1>1 DEF Detached, RefLabels
<1>4. CASE frame' = [frame EXCEPT ![t] = Idle]
  BY <1>2, <1>3, <1>4, EndStep
<1>5. CASE frame' = [frame EXCEPT ![t].cur = next, ![t].pc = "lookupRef"]
  <2>1. next \in Slots /\ "lookupRef" \in Labels
    BY <1>1, Actor, SlotFacts DEF Labels, Cur, Frames
  <2>2. g \in Frames /\ g.pc = "lookupRef" /\ g.call = f.call
    BY <1>1, <2>1 DEF Frames
  <2>3. frame' = [frame EXCEPT ![t] = g]
    BY <1>1, <1>5
  <2> HIDE DEF g
  <2>4. FrameMove(t, g)
    BY <1>2, <2>2, <2>3 DEF FrameMove, CountersTyped, CInv, StateType
  <2>5. LocalInv(t, g, todo'[t], held[t])
    BY <1>1, <1>2, <2>2, Actor DEF LocalInv, LookupLabels
  <2>6. Detached(g)
    BY <2>2 DEF Detached, RefLabels
  <2> QED
    BY <1>2, <1>3, <2>4, <2>5, <2>6, QuietStep
<1> QED
  BY <1>4, <1>5 DEF LookupNext, Probe, Return

LEMMA InsertBeginKeeps ==
  ASSUME CInv, NEW t \in Threads, NEW c \in todo[t], InsertBegin(t, c)
  PROVE  CInv'
<1> DEFINE f == frame[t]
           b == (occupancy + 1 > OccupancyLimit)
           g == [f EXCEPT !.call = c, !.occ = b, !.pc = "reserve"]
<1>1. f \in Frames /\ frame \in [Threads -> Frames] /\ c \in Calls /\ c \in Workload[t]
  BY Actor DEF LocalInv
<1>2. c.op = "insert" /\ f.pc = "idle" /\ "reserve" \in Labels
  BY <1>1 DEF InsertBegin, Take, At, Labels
<1>3. g \in Frames /\ g.pc = "reserve" /\ g.call = c
  <2>1. b \in BOOLEAN
    OBVIOUS
  <2> HIDE DEF b
  <2> QED
    BY <1>1, <1>2, <2>1 DEF Frames
<1>4. frame' = [frame EXCEPT ![t] = g]
  BY <1>1 DEF InsertBegin
<1> HIDE DEF g
<1>5. FrameMove(t, g)
  <2>1. /\ occupancy' = occupancy + 1 /\ todo' = [todo EXCEPT ![t] = @ \ {c}]
        /\ UNCHANGED <<displacements, usage, clock_pointer, hit_decr_delta, alive>>
    BY DEF InsertBegin, Take
  <2>2. /\ displacements \in [Slots -> Int] /\ occupancy \in Int /\ usage \in Int
        /\ clock_pointer \in Nat /\ hit_decr_delta \in Nat /\ todo \in [Threads -> SUBSET Calls]
    BY DEF CInv, StateType
  <2> QED
    BY <1>3, <1>4, <2>1, <2>2 DEF FrameMove
<1>6. todo'[t] \subseteq todo[t]
  BY DEF InsertBegin, Take, CInv, StateType
<1>7. LocalInv(t, g, todo'[t], held[t])
  BY <1>1, <1>2, <1>3, <1>6, Actor DEF LocalInv, LookupLabels
<1>8. Detached(f) /\ Detached(g)
  BY <1>2, <1>3 DEF Detached, RefLabels
<1> QED
  BY <1>5, <1>7, <1>8, QuietStep DEF InsertBegin

LEMMA EraseBeginKeeps ==
  ASSUME CInv, NEW t \in Threads, NEW c \in todo[t], EraseBegin(t, c)
  PROVE  CInv'
<1> DEFINE f == frame[t]
           g == [f EXCEPT !.call = c, !.cur = Base[c.h.key], !.pc = "eraseRef"]
<1>1. f \in Frames /\ frame \in [Threads -> Frames] /\ c \in Calls /\ c \in Workload[t]
  BY Actor DEF LocalInv
<1>2. c.op = "erase" /\ f.pc = "idle" /\ "eraseRef" \in Labels /\ Base[c.h.key] \in Slots
  BY <1>1, SlotFacts DEF EraseBegin, Take, At, Labels, Calls, Handles
<1>3. g \in Frames /\ g.pc = "eraseRef" /\ g.call = c
  BY <1>1, <1>2 DEF Frames
<1>4. frame' = [frame EXCEPT ![t] = g]
  BY <1>1 DEF EraseBegin
<1> HIDE DEF g
<1>5. FrameMove(t, g)
  BY <1>3, <1>4 DEF FrameMove, EraseBegin, Take, shared, CInv, StateType
<1>6. todo'[t] \subseteq todo[t]
  BY DEF EraseBegin, Take, CInv, StateType
<1>7. LocalInv(t, g, todo'[t], held[t])
  BY <1>1, <1>2, <1>3, <1>6, Actor DEF LocalInv, LookupLabels
<1>8. Detached(f) /\ Detached(g)
  BY <1>2, <1>3 DEF Detached, RefLabels
<1> QED
  BY <1>5, <1>7, <1>8, QuietStep DEF EraseBegin, shared

LEMMA MaxMin ==
  ASSUME NEW a \in Int, NEW b \in Int
  PROVE  /\ Max({a, b}) \in {a, b} /\ Max({a, b}) >= a /\ Max({a, b}) >= b
         /\ Min({a, b}) \in {a, b} /\ Min({a, b}) <= a /\ Min({a, b}) <= b
<1>1. \E x \in {a, b} : \A y \in {a, b} : x >= y
  <2>1. CASE a >= b
    BY <2>1
  <2>2. CASE b >= a
    BY <2>2
  <2> QED
    BY <2>1, <2>2
<1>2. \E x \in {a, b} : \A y \in {a, b} : x <= y
  <2>1. CASE a >= b
    BY <2>1
  <2>2. CASE b >= a
    BY <2>2
  <2> QED
    BY <2>1, <2>2
<1>3. Max({a, b}) \in {a, b} /\ \A y \in {a, b} : Max({a, b}) >= y
  BY <1>1 DEF Max
<1>4. Min({a, b}) \in {a, b} /\ \A y \in {a, b} : Min({a, b}) <= y
  BY <1>2 DEF Min
<1> QED
  BY <1>3, <1>4

LEMMA ReserveKeeps ==
  ASSUME CInv, NEW t \in Threads, Reserve(t)
  PROVE  CInv'
<1> DEFINE f == frame[t]
           need == usage + Charge(t) - usage'
           res == usage' - usage
           l == IF need > 0 \/ f.occ THEN "evict" ELSE "slot"
           g == [f EXCEPT !.res = res, !.need = need, !.cur = Base[Key(t)], !.pc = l]
<1>1. f \in Frames /\ frame \in [Threads -> Frames] /\ f.pc = "reserve"
  BY Actor DEF Reserve, At
<1>2. Base[Key(t)] \in Slots /\ Charge(t) \in Nat /\ usage \in Int
  BY <1>1, Actor, SlotFacts DEF CInv, StateType
<1>3. usage' \in Int
  <2>1. Capacity \in Int /\ usage + Charge(t) \in Int
    BY <1>2, CounterAssumption
  <2>2. Min({Capacity, usage + Charge(t)}) \in {Capacity, usage + Charge(t)}
    BY <2>1, MaxMin
  <2> QED
    BY <2>1, <2>2 DEF Reserve
<1>4. need \in Int /\ res \in Int /\ l \in {"evict", "slot"}
  BY <1>2, <1>3
<1>5. frame' = [frame EXCEPT ![t].res = res, ![t].need = need, ![t].cur = Base[Key(t)], ![t].pc = l]
  BY DEF Reserve
<1> HIDE DEF need, res, l
<1>6. frame' = [frame EXCEPT ![t] = g]
  BY <1>1, <1>5
<1>7. g \in Frames /\ g.call = f.call /\ g.pc = l
  BY <1>1, <1>2, <1>4 DEF Frames, Labels, EvictLabels, ProbeLabels
<1>8. UNCHANGED <<meta, entry, held, todo, alive>> /\ CountersTyped
  BY <1>3 DEF Reserve, OnlyUsage, CountersTyped, CInv, StateType
<1>9. Detached(f) /\ f.pc \notin LookupLabels \cup {"idle"}
  BY <1>1 DEF Detached, RefLabels, LookupLabels
<1>10. g.pc \in PlainLabels /\ g.pc # "rollback"
  BY <1>4, <1>7 DEF PlainLabels
<1> HIDE DEF g
<1> QED
  BY <1>6, <1>7, <1>8, <1>9, <1>10, PlainStep

LEMMA EvictStartKeeps ==
  ASSUME CInv, NEW t \in Threads, EvictStart(t)
  PROVE  CInv'
<1> DEFINE f == frame[t]
           max == clock_pointer + MaxCountdown * Length
           g == [f EXCEPT !.ptr = clock_pointer, !.max = max, !.delta = hit_decr_delta,
                          !.pc = "clockLoad"]
<1>1. f \in Frames /\ frame \in [Threads -> Frames] /\ f.pc = "evict"
  BY Actor DEF EvictStart, At
<1>2. clock_pointer \in Nat /\ hit_decr_delta \in Nat /\ StepSize \in Nat
  BY CounterAssumption DEF CInv, StateType
<1>3. max \in Nat
  <2>1. MaxCountdown \in Nat /\ Length \in Nat
    BY CounterAssumption, TableAssumption
  <2>2. MaxCountdown * Length \in Nat
    BY <2>1
  <2> QED
    BY <1>2, <2>2
<1>4. frame' = [frame EXCEPT ![t].ptr = clock_pointer, ![t].max = max,
                             ![t].delta = hit_decr_delta, ![t].pc = "clockLoad"]
  BY DEF EvictStart
<1> HIDE DEF max
<1>5. frame' = [frame EXCEPT ![t] = g]
  BY <1>1, <1>4
<1>6. g \in Frames /\ g.call = f.call /\ g.pc = "clockLoad"
  BY <1>1, <1>2, <1>3 DEF Frames, Labels, EvictLabels
<1>7. UNCHANGED <<meta, entry, held, todo, alive>> /\ CountersTyped
  BY <1>2 DEF EvictStart, CountersTyped, CInv, StateType
<1>8. Detached(f) /\ f.pc \notin LookupLabels \cup {"idle"}
  BY <1>1 DEF Detached, RefLabels, LookupLabels
<1>9. g.pc \in PlainLabels /\ g.pc # "rollback"
  BY <1>6 DEF PlainLabels
<1> HIDE DEF g
<1> QED
  BY <1>5, <1>6, <1>7, <1>8, <1>9, PlainStep

\* An action that only moves on to another plain label.
LEMMA GotoKeeps ==
  ASSUME CInv, NEW t \in Threads, NEW l \in PlainLabels \ {"rollback"}, Goto(t, l),
         UNCHANGED <<meta, entry, held, todo, alive>>, CountersTyped,
         frame[t].pc \notin LookupLabels \cup {"idle"}, Detached(frame[t])
  PROVE  CInv'
<1> DEFINE g == [frame[t] EXCEPT !.pc = l]
<1>1. frame[t] \in Frames /\ frame \in [Threads -> Frames]
  BY Actor
<1>2. frame' = [frame EXCEPT ![t] = g]
  BY <1>1 DEF Goto
<1>3. l \in Labels
  BY DEF PlainLabels, Labels, EvictLabels, ProbeLabels
<1>4. g \in Frames /\ g.call = frame[t].call /\ g.pc = l
  BY <1>1, <1>3 DEF Frames
<1> HIDE DEF g
<1> QED
  BY <1>2, <1>4, PlainStep

LEMMA FailKeeps ==
  ASSUME CInv, NEW t \in Threads,
         EvictOccupancy(t) \/ EvictUsage(t) \/ UndoOccupancy(t) \/ FailOccupancy(t)
           \/ FailUsage(t) \/ EraseOccupancy(t)
  PROVE  CInv'
<1>1. /\ frame[t] \in Frames /\ displacements \in [Slots -> Int] /\ occupancy \in Int
      /\ usage \in Int /\ clock_pointer \in Nat /\ hit_decr_delta \in Nat
  BY DEF CInv, StateType
<1>2. /\ frame[t].count \in Nat /\ frame[t].freed \in Nat /\ frame[t].need \in Int
      /\ frame[t].res \in Int /\ frame[t].amount \in Nat
  BY <1>1 DEF Frames
<1>3. CASE EvictOccupancy(t)
  <2>1. frame[t].pc = "evictOccupancy"
    BY <1>3 DEF EvictOccupancy, At
  <2>2. \E l \in {"slot", "evictUsage"} : Goto(t, l)
    BY <1>3 DEF EvictOccupancy
  <2>3. UNCHANGED <<meta, entry, held, todo, alive>> /\ CountersTyped
    BY <1>1, <1>2, <1>3 DEF EvictOccupancy, OnlyOccupancy, CountersTyped
  <2>4. frame[t].pc \notin LookupLabels \cup {"idle"} /\ Detached(frame[t])
    BY <2>1 DEF LookupLabels, Detached, RefLabels
  <2>5. {"slot", "evictUsage"} \subseteq PlainLabels \ {"rollback"}
    BY DEF PlainLabels
  <2> QED
    BY <2>2, <2>3, <2>4, <2>5, GotoKeeps
<1>4. CASE EvictUsage(t)
  <2>1. frame[t].pc = "evictUsage"
    BY <1>4 DEF EvictUsage, At
  <2>2. \E l \in {"slot", "undoOccupancy"} : Goto(t, l)
    BY <1>4 DEF EvictUsage
  <2>3. UNCHANGED <<meta, entry, held, todo, alive>> /\ CountersTyped
    BY <1>1, <1>2, <1>4 DEF EvictUsage, OnlyUsage, CountersTyped
  <2>4. frame[t].pc \notin LookupLabels \cup {"idle"} /\ Detached(frame[t])
    BY <2>1 DEF LookupLabels, Detached, RefLabels
  <2>5. {"slot", "undoOccupancy"} \subseteq PlainLabels \ {"rollback"}
    BY DEF PlainLabels
  <2> QED
    BY <2>2, <2>3, <2>4, <2>5, GotoKeeps
<1>5. CASE UndoOccupancy(t)
  <2>1. frame[t].pc = "undoOccupancy" /\ frame' = [frame EXCEPT ![t] = Idle]
    BY <1>5 DEF UndoOccupancy, At, Return
  <2>2. UNCHANGED <<meta, entry, held, todo, alive>> /\ CountersTyped
    BY <1>1, <1>5 DEF UndoOccupancy, OnlyOccupancy, CountersTyped
  <2>3. Detached(frame[t])
    BY <2>1 DEF Detached, RefLabels
  <2> QED
    BY <2>1, <2>2, <2>3, EndStep
<1>6. CASE FailOccupancy(t)
  <2>1. frame[t].pc = "fail" /\ Goto(t, "failUsage")
    BY <1>6 DEF FailOccupancy, At
  <2>2. UNCHANGED <<meta, entry, held, todo, alive>> /\ CountersTyped
    BY <1>1, <1>6 DEF FailOccupancy, OnlyOccupancy, CountersTyped
  <2>3. frame[t].pc \notin LookupLabels \cup {"idle"} /\ Detached(frame[t])
    BY <2>1 DEF LookupLabels, Detached, RefLabels
  <2> QED
    BY <2>1, <2>2, <2>3, GotoKeeps, "failUsage" \in PlainLabels \ {"rollback"} DEF PlainLabels
<1>7. CASE FailUsage(t)
  <2>1. frame[t].pc = "failUsage" /\ frame' = [frame EXCEPT ![t] = Idle]
    BY <1>7 DEF FailUsage, At, Return
  <2>2. Charge(t) \in Nat
    BY <2>1, Actor
  <2>3. UNCHANGED <<meta, entry, held, todo, alive>> /\ CountersTyped
    BY <1>1, <1>7, <2>2 DEF FailUsage, OnlyUsage, CountersTyped
  <2>4. Detached(frame[t])
    BY <2>1 DEF Detached, RefLabels
  <2> QED
    BY <2>1, <2>3, <2>4, EndStep
<1>8. CASE EraseOccupancy(t)
  <2>1. frame[t].pc = "eraseOccupancy" /\ Goto(t, "eraseUsage")
    BY <1>8 DEF EraseOccupancy, At
  <2>2. UNCHANGED <<meta, entry, held, todo, alive>> /\ CountersTyped
    BY <1>1, <1>8 DEF EraseOccupancy, OnlyOccupancy, CountersTyped
  <2>3. frame[t].pc \notin LookupLabels \cup {"idle"} /\ Detached(frame[t])
    BY <2>1 DEF LookupLabels, Detached, RefLabels
  <2> QED
    BY <2>1, <2>2, <2>3, GotoKeeps, "eraseUsage" \in PlainLabels \ {"rollback"} DEF PlainLabels
<1> QED
  BY <1>3, <1>4, <1>5, <1>6, <1>7, <1>8

LEMMA ClockSlots ==
  ASSUME CInv, NEW t \in Threads
  PROVE  ClockSlot(t) \in Slots /\ meta[ClockSlot(t)] \in Words
<1>1. frame[t] \in Frames
  BY Actor
<1>2. frame[t].ptr \in Nat /\ frame[t].i \in Nat
  BY <1>1 DEF Frames
<1>3. ClockSlot(t) \in Slots
  BY <1>2, SlotFacts DEF ClockSlot
<1> QED
  BY <1>3 DEF CInv, StateType

LEMMA ClockLoadKeeps ==
  ASSUME CInv, NEW t \in Threads, ClockLoad(t)
  PROVE  CInv'
<1> DEFINE f == frame[t]
           s == ClockSlot(t)
           m == meta[s]
<1>1. f \in Frames /\ frame \in [Threads -> Frames] /\ f.pc = "clockLoad"
  BY Actor DEF ClockLoad, At
<1>2. s \in Slots /\ m \in Words
  BY ClockSlots
<1>3. UNCHANGED <<meta, entry, held, todo, alive>> /\ CountersTyped
  BY DEF ClockLoad, shared, CInv, StateType, CountersTyped
<1>4. Detached(f) /\ f.pc \notin LookupLabels \cup {"idle"}
  BY <1>1 DEF Detached, RefLabels, LookupLabels
<1>5. CASE frame' = [frame EXCEPT ![t].i = @ + 1]
  <2> DEFINE g == [f EXCEPT !.i = @ + 1]
  <2>1. frame' = [frame EXCEPT ![t] = g]
    BY <1>1, <1>5
  <2>2. g \in Frames /\ g.call = f.call /\ g.pc = "clockLoad"
    <3>1. f.i + 1 \in Nat /\ f.pinned + 1 \in Nat
      BY <1>1 DEF Frames
    <3> QED
      BY <1>1, <3>1 DEF Frames
  <2> HIDE DEF g
  <2> QED
    BY <1>3, <1>4, <2>1, <2>2, PlainStep, "clockLoad" \in PlainLabels DEF PlainLabels
<1>6. CASE frame' = [frame EXCEPT ![t].pinned = @ + 1, ![t].i = @ + 1]
  <2> DEFINE g == [f EXCEPT !.pinned = @ + 1, !.i = @ + 1]
  <2>1. frame' = [frame EXCEPT ![t] = g]
    BY <1>1, <1>6
  <2>2. g \in Frames /\ g.call = f.call /\ g.pc = "clockLoad"
    <3>1. f.i + 1 \in Nat /\ f.pinned + 1 \in Nat
      BY <1>1 DEF Frames
    <3> QED
      BY <1>1, <3>1 DEF Frames
  <2> HIDE DEF g
  <2> QED
    BY <1>3, <1>4, <2>1, <2>2, PlainStep, "clockLoad" \in PlainLabels DEF PlainLabels
<1>7. CASE /\ IsShareable(m) /\ RefCount(m) = 0
           /\ frame' = [frame EXCEPT ![t].m = m,
                          ![t].pc = IF State(m) = StateVisible /\ HitCount(m) > 0
                                    THEN "clockAge" ELSE "clockTake"]
  <2> DEFINE l == IF State(m) = StateVisible /\ HitCount(m) > 0 THEN "clockAge" ELSE "clockTake"
             g == [f EXCEPT !.m = m, !.pc = l]
  <2>1. l \in {"clockAge", "clockTake"} /\ (l = "clockAge" => State(m) = StateVisible)
    OBVIOUS
  <2>2. frame' = [frame EXCEPT ![t].m = m, ![t].pc = l]
    BY <1>7
  <2> HIDE DEF l
  <2>3. frame' = [frame EXCEPT ![t] = g]
    BY <1>1, <2>2
  <2>4. g \in Frames /\ g.call = f.call /\ g.pc = l /\ g.m = m
    BY <1>1, <1>2, <2>1 DEF Frames, Labels, EvictLabels
  <2> HIDE DEF g
  <2>5. FrameMove(t, g)
    BY <1>3, <2>3, <2>4 DEF FrameMove, CountersTyped, CInv, StateType
  <2>6. LocalInv(t, g, todo'[t], held[t])
    BY <1>1, <1>3, <1>7, <2>1, <2>4, Actor DEF LocalInv, LookupLabels
  <2>7. Detached(g)
    BY <2>1, <2>4 DEF Detached, RefLabels
  <2> QED
    BY <1>3, <1>4, <2>5, <2>6, <2>7, QuietStep
<1> QED
  BY <1>5, <1>6, <1>7 DEF ClockLoad

LEMMA EvictStepKeeps ==
  ASSUME CInv, NEW t \in Threads, EvictStep(t)
  PROVE  CInv'
<1> DEFINE f == frame[t]
<1>1. f \in Frames /\ frame \in [Threads -> Frames] /\ f.pc = "clockLoad"
  BY Actor DEF EvictStep, At
<1>2. /\ clock_pointer \in Nat /\ hit_decr_delta \in Nat /\ StepSize \in Nat
      /\ HitDecrDeltaMin \in Nat /\ f.delta \in Nat
  BY <1>1, CounterAssumption DEF CInv, StateType, Frames
<1>3. UNCHANGED <<meta, entry, held, todo, alive>> /\ CountersTyped
  BY <1>2 DEF EvictStep, CInv, StateType, CountersTyped
<1>4. Detached(f) /\ f.pc \notin LookupLabels \cup {"idle"}
  BY <1>1 DEF Detached, RefLabels, LookupLabels
<1>5. CASE Goto(t, "evictOccupancy")
  BY <1>3, <1>4, <1>5, GotoKeeps, "evictOccupancy" \in PlainLabels \ {"rollback"} DEF PlainLabels
<1>6. CASE frame' = [frame EXCEPT ![t].ptr = clock_pointer, ![t].i = 0, ![t].off = @ + StepSize,
                                  ![t].delta = NextDelta(frame[t])]
  <2> DEFINE d == NextDelta(f)
             g == [f EXCEPT !.ptr = clock_pointer, !.i = 0, !.off = @ + StepSize, !.delta = d]
  <2>1. d \in Nat
    <3>1. Max({1, HitDecrDeltaMin}) \in {1, HitDecrDeltaMin}
      <4>1. 1 \in Int /\ HitDecrDeltaMin \in Int
        BY <1>2
      <4> QED
        BY <4>1, MaxMin, Zenon
    <3>2. d = Max({1, HitDecrDeltaMin}) \/ d = f.delta
      BY DEF NextDelta
    <3> QED
      BY <1>2, <3>1, <3>2
  <2>2. frame' = [frame EXCEPT ![t].ptr = clock_pointer, ![t].i = 0, ![t].off = @ + StepSize,
                               ![t].delta = d]
    BY <1>6
  <2> HIDE DEF d
  <2>3. frame' = [frame EXCEPT ![t] = g]
    BY <1>1, <2>2
  <2>4. g \in Frames /\ g.call = f.call /\ g.pc = "clockLoad"
    <3>1. f.off + StepSize \in Nat
      BY <1>1, <1>2 DEF Frames
    <3> QED
      BY <1>1, <1>2, <2>1, <3>1 DEF Frames
  <2> HIDE DEF g
  <2> QED
    BY <1>3, <1>4, <2>3, <2>4, PlainStep, "clockLoad" \in PlainLabels DEF PlainLabels
<1> QED
  BY <1>5, <1>6 DEF EvictStep

LEMMA InsertNextKeeps ==
  ASSUME CInv, NEW t \in Threads, InsertNext(t)
  PROVE  CInv'
<1> DEFINE f == frame[t]
           next == NextSlot(Key(t), Cur(t))
<1>1. f \in Frames /\ frame \in [Threads -> Frames] /\ f.pc = "slotNext"
  BY Actor DEF InsertNext, At
<1>2. Key(t) \in Keys /\ Cur(t) \in Slots /\ next \in Slots
  BY <1>1, Actor, SlotFacts DEF Cur, Frames
<1>3. UNCHANGED <<meta, entry, held, todo, alive>> /\ CountersTyped
  BY <1>2 DEF InsertNext, OnlyDisplacements, CInv, StateType, CountersTyped
<1>4. Detached(f) /\ f.pc \notin LookupLabels \cup {"idle"}
  BY <1>1 DEF Detached, RefLabels, LookupLabels
<1>5. CASE frame' = [frame EXCEPT ![t] = RollbackTo(@, Key(t), Cur(t), "fail")]
  <2> DEFINE g == RollbackTo(f, Key(t), Cur(t), "fail")
  <2>1. frame' = [frame EXCEPT ![t] = g]
    BY <1>5
  <2>2. g \in Frames /\ g.call = f.call /\ (g.pc = "fail" \/ (g.pc = "rollback" /\ g.to = "fail"))
    BY <1>1, <1>2, RollbackFrame, "fail" \in Labels DEF Labels
  <2> HIDE DEF g
  <2> QED
    BY <1>3, <1>4, <2>1, <2>2, PlainStep, {"fail", "rollback"} \subseteq PlainLabels DEF PlainLabels
<1>6. CASE frame' = [frame EXCEPT ![t].cur = next, ![t].pc = "slot"]
  <2> DEFINE g == [f EXCEPT !.cur = next, !.pc = "slot"]
  <2>1. frame' = [frame EXCEPT ![t] = g]
    BY <1>1, <1>6
  <2>2. g \in Frames /\ g.call = f.call /\ g.pc = "slot"
    BY <1>1, <1>2 DEF Frames, Labels, ProbeLabels
  <2> HIDE DEF g
  <2> QED
    BY <1>3, <1>4, <2>1, <2>2, PlainStep, "slot" \in PlainLabels DEF PlainLabels
<1> QED
  BY <1>5, <1>6 DEF InsertNext

LEMMA EraseUsageKeeps ==
  ASSUME CInv, NEW t \in Threads, EraseUsage(t)
  PROVE  CInv'
<1> DEFINE f == frame[t]
           e == [f EXCEPT !.amount = 0]
           g == RollbackTo(e, Key(t), Cur(t), "eraseNext")
<1>1. f \in Frames /\ frame \in [Threads -> Frames] /\ f.pc = "eraseUsage"
  BY Actor DEF EraseUsage, At
<1>2. Key(t) \in Keys /\ e \in Frames /\ e.call = f.call /\ f.amount \in Nat
  BY <1>1, Actor DEF Frames
<1>3. UNCHANGED <<meta, entry, held, todo, alive>> /\ CountersTyped
  BY <1>2 DEF EraseUsage, OnlyUsage, CInv, StateType, CountersTyped
<1>4. Detached(f) /\ f.pc \notin LookupLabels \cup {"idle"}
  BY <1>1 DEF Detached, RefLabels, LookupLabels
<1>5. frame' = [frame EXCEPT ![t] = g]
  BY DEF EraseUsage
<1>6. g \in Frames /\ g.call = f.call /\ (g.pc = "eraseNext" \/ (g.pc = "rollback" /\ g.to = "eraseNext"))
  <2> HIDE DEF e
  <2> QED
    BY <1>2, RollbackFrame, "eraseNext" \in Labels DEF Labels
<1> HIDE DEF g
<1> QED
  BY <1>3, <1>4, <1>5, <1>6, PlainStep, {"eraseNext", "rollback"} \subseteq PlainLabels DEF PlainLabels

LEMMA EraseNextKeeps ==
  ASSUME CInv, NEW t \in Threads, EraseNext(t)
  PROVE  CInv'
<1> DEFINE f == frame[t]
           next == NextSlot(Key(t), Cur(t))
<1>1. f \in Frames /\ frame \in [Threads -> Frames] /\ f.pc = "eraseNext"
  BY Actor DEF EraseNext, At
<1>2. Key(t) \in Keys /\ Cur(t) \in Slots /\ next \in Slots /\ Base[Key(t)] \in Slots
  BY <1>1, Actor, SlotFacts DEF Cur, Frames
<1>3. UNCHANGED <<meta, entry, held, todo, alive>> /\ CountersTyped
  BY <1>2 DEF EraseNext, shared, CInv, StateType, CountersTyped
<1>4. Detached(f) /\ f.pc \notin LookupLabels \cup {"idle"}
  BY <1>1 DEF Detached, RefLabels, LookupLabels
<1>5. CASE frame' = [frame EXCEPT ![t] = Idle]
  BY <1>3, <1>4, <1>5, EndStep
<1>6. CASE frame' = [frame EXCEPT ![t].cur = next, ![t].pc = "eraseRef"]
  <2> DEFINE g == [f EXCEPT !.cur = next, !.pc = "eraseRef"]
  <2>1. frame' = [frame EXCEPT ![t] = g]
    BY <1>1, <1>6
  <2>2. g \in Frames /\ g.call = f.call /\ g.pc = "eraseRef"
    BY <1>1, <1>2 DEF Frames, Labels
  <2> HIDE DEF g
  <2> QED
    BY <1>3, <1>4, <2>1, <2>2, PlainStep, "eraseRef" \in PlainLabels DEF PlainLabels
<1>7. ASSUME NEW l \in {"slot", "fail"},
             frame' = [frame EXCEPT ![t].again = TRUE, ![t].cur = Base[Key(t)], ![t].pc = l]
      PROVE  CInv'
  <2> DEFINE g == [f EXCEPT !.again = TRUE, !.cur = Base[Key(t)], !.pc = l]
  <2>1. frame' = [frame EXCEPT ![t] = g]
    BY <1>1, <1>7
  <2>2. g \in Frames /\ g.call = f.call /\ g.pc = l
    BY <1>1, <1>2 DEF Frames, Labels, ProbeLabels
  <2> HIDE DEF g
  <2> QED
    BY <1>3, <1>4, <2>1, <2>2, PlainStep, {"slot", "fail"} \subseteq PlainLabels DEF PlainLabels
<1> QED
  BY <1>5, <1>6, <1>7 DEF EraseNext, Probe, EraseEnd, Return

LEMMA RollbackKeeps ==
  ASSUME CInv, NEW t \in Threads, Rollback(t)
  PROVE  CInv'
<1> DEFINE f == frame[t]
           next == NextSlot(RollbackKey(t), f.rb)
           g == IF next = RollbackSlot(t) THEN [f EXCEPT !.rb = 0, !.to = "idle", !.pc = f.to]
                ELSE [f EXCEPT !.rb = next]
<1>1. f \in Frames /\ frame \in [Threads -> Frames] /\ f.pc = "rollback"
  BY Actor DEF Rollback, At
<1>2. f.to \in {"evictFree", "fail", "eraseFirst", "eraseNext"} /\ f.rb \in Slots
  BY <1>1, Actor DEF LocalInv, Frames
<1>3. f.to = "evictFree" => Owns(t, ClockSlot(t)) /\ RollbackSlot(t) = ClockSlot(t)
  BY <1>1 DEF Owns, At, RollbackSlot, ClockSlot
<1>4. RollbackKey(t) \in Keys
  <2>1. CASE f.to = "evictFree"
    <3>1. entry[ClockSlot(t)].key \in Keys
      BY <1>1, <1>3, <2>1, ClockSlots DEF CInv, OwnerInv
    <3> QED
      BY <1>3, <2>1, <3>1 DEF RollbackKey
  <2>2. CASE f.to # "evictFree"
    BY <1>1, <2>2, Actor DEF RollbackKey
  <2> QED
    BY <2>1, <2>2
<1>5. next \in Slots
  BY <1>2, <1>4, SlotFacts
<1>6. frame' = [frame EXCEPT ![t] = g]
  <2>1. CASE next = RollbackSlot(t)
    BY <1>1, <2>1 DEF Rollback
  <2>2. CASE next # RollbackSlot(t)
    BY <1>1, <2>2 DEF Rollback
  <2> QED
    BY <2>1, <2>2
<1>7. /\ g \in Frames /\ g.call = f.call /\ g.ptr = f.ptr /\ g.i = f.i
      /\ g.pc = f.to \/ (g.pc = "rollback" /\ g.to = f.to)
  <2> HIDE DEF next
  <2>1. CASE next = RollbackSlot(t)
    <3>1. g = [f EXCEPT !.rb = 0, !.to = "idle", !.pc = f.to]
      BY <2>1
    <3>2. "idle" \in Labels /\ 0 \in Slots /\ f.to \in Labels
      BY <1>1, SlotFacts DEF Labels, Frames
    <3> QED
      BY <1>1, <3>1, <3>2 DEF Frames
  <2>2. CASE next # RollbackSlot(t)
    <3>1. g = [f EXCEPT !.rb = next]
      BY <2>2
    <3> QED
      BY <1>1, <1>5, <3>1 DEF Frames
  <2> QED
    BY <2>1, <2>2
<1> HIDE DEF g
<1>8. UNCHANGED <<meta, entry, held, todo, alive>> /\ CountersTyped
  BY <1>2 DEF Rollback, OnlyDisplacements, CInv, StateType, CountersTyped
<1>9. f.pc \notin LookupLabels \cup {"idle"}
  BY <1>1 DEF LookupLabels
<1>10. CASE f.to # "evictFree"
  <2>1. Detached(f)
    BY <1>1, <1>10 DEF Detached, RefLabels
  <2>2. g.pc \in PlainLabels /\ (g.pc = "rollback" => g.to \in {"fail", "eraseFirst", "eraseNext"})
    BY <1>2, <1>7, <1>10 DEF PlainLabels
  <2> QED
    BY <1>6, <1>7, <1>8, <1>9, <2>1, <2>2, PlainStep
<1>11. CASE f.to = "evictFree"
  <2>1. g.pc = "evictFree" \/ (g.pc = "rollback" /\ g.to = "evictFree")
    BY <1>7, <1>11
  <2>2. FrameMove(t, g)
    BY <1>6, <1>7, <1>8 DEF FrameMove, CountersTyped, CInv, StateType
  <2>3. LocalInv(t, g, todo'[t], held[t])
    BY <1>7, <1>8, <1>9, <2>1, Actor, PlainLocal DEF LookupLabels
  <2>4. ASSUME NEW s \in Slots
        PROVE  SameView(t, s)
    <3>1. frame'[t] = g
      BY <2>2, FrameMoves
    <3>2. t \in Holders(s)' <=> t \in Holders(s)
      BY <1>8 DEF Holders
    <3>3. t \notin Probers(s) /\ t \notin Correcting(s)
      BY <1>1 DEF Probers, Correcting, At, RefLabels
    <3>4. t \notin Probers(s)' /\ t \notin Correcting(s)'
      BY <2>1, <3>1 DEF Probers, Correcting, At, RefLabels
    <3>5. Owns(t, s) <=> s = ClockSlot(t)
      BY <1>1, <1>11 DEF Owns, At
    <3>6. Owns(t, s)' <=> s = ClockSlot(t)
      BY <1>7, <2>1, <3>1 DEF Owns, At, ClockSlot
    <3> QED
      BY <3>2, <3>3, <3>4, <3>5, <3>6 DEF SameView
  <2> QED
    BY <1>1, <1>8, <2>2, <2>3, <2>4, StillStep
<1> QED
  BY <1>10, <1>11

\* A CAS of Evict that fails leaves the slot alone.
LEMMA ClockMissKeeps ==
  ASSUME CInv, NEW t \in Threads, frame[t].pc \in {"clockAge", "clockTake"},
         frame' = [frame EXCEPT ![t].i = @ + 1, ![t].m = 0, ![t].pc = "clockLoad"],
         UNCHANGED meta, OnlyMeta
  PROVE  CInv'
<1> DEFINE f == frame[t]
           g == [f EXCEPT !.i = @ + 1, !.m = 0, !.pc = "clockLoad"]
<1>1. f \in Frames /\ frame \in [Threads -> Frames]
  BY Actor
<1>2. frame' = [frame EXCEPT ![t] = g]
  BY <1>1
<1>3. g \in Frames /\ g.call = f.call /\ g.pc = "clockLoad"
  <2>1. f.i + 1 \in Nat /\ 0 \in Words /\ "clockLoad" \in Labels
    BY <1>1, SlotFacts DEF Frames, Labels, EvictLabels
  <2> QED
    BY <1>1, <2>1 DEF Frames
<1> HIDE DEF g
<1>4. UNCHANGED <<meta, entry, held, todo, alive>> /\ CountersTyped
  BY DEF OnlyMeta, CInv, StateType, CountersTyped
<1>5. Detached(f) /\ f.pc \notin LookupLabels \cup {"idle"}
  BY DEF Detached, RefLabels, LookupLabels
<1> QED
  BY <1>2, <1>3, <1>4, <1>5, PlainStep, "clockLoad" \in PlainLabels DEF PlainLabels

\* Erase reads the meta word again after a CAS that failed.
LEMMA EraseRetryKeeps ==
  ASSUME CInv, NEW t \in Threads, frame[t].pc = "eraseOwn",
         frame' = [frame EXCEPT ![t].m = meta[Cur(t)]],
         UNCHANGED meta, OnlyMeta
  PROVE  CInv'
<1> DEFINE f == frame[t]
           g == [f EXCEPT !.m = meta[Cur(t)]]
<1>1. f \in Frames /\ frame \in [Threads -> Frames]
  BY Actor
<1>2. frame' = [frame EXCEPT ![t] = g]
  BY <1>1
<1>3. meta[Cur(t)] \in Words
  BY <1>1 DEF Cur, Frames, CInv, StateType
<1>4. g \in Frames /\ g.call = f.call /\ g.pc = "eraseOwn" /\ g.cur = f.cur
  BY <1>1, <1>3 DEF Frames
<1> HIDE DEF g
<1>5. FrameMove(t, g)
  BY <1>2, <1>4 DEF FrameMove, OnlyMeta, CInv, StateType
<1>6. LocalInv(t, g, todo'[t], held[t])
  BY <1>4, Actor, PlainLocal DEF LookupLabels, OnlyMeta
<1>7. ASSUME NEW s \in Slots
      PROVE  SameView(t, s)
  <2>1. frame'[t] = g
    BY <1>5, FrameMoves
  <2> QED
    BY <1>4, <2>1 DEF SameView, Holders, Probers, Correcting, Owns, At, Cur, OnlyMeta
<1> QED
  BY <1>4, <1>5, <1>6, <1>7, StillStep DEF OnlyMeta

-----------------------------------------------------------------------------
(***************************************************************************)
(* The steps that change one slot.                                         *)
(***************************************************************************)
\* Adding t to a finite set of threads, or taking it out.
LEMMA CountChange ==
  ASSUME NEW S, NEW R, NEW t, IsFiniteSet(S), S \ {t} = R \ {t}
  PROVE  /\ IsFiniteSet(R) /\ Cardinality(S) \in Nat /\ Cardinality(R) \in Nat
         /\ t \in S /\ t \in R => Cardinality(R) = Cardinality(S)
         /\ t \notin S /\ t \notin R => Cardinality(R) = Cardinality(S)
         /\ t \notin S /\ t \in R => Cardinality(R) = Cardinality(S) + 1
         /\ t \in S /\ t \notin R => Cardinality(R) = Cardinality(S) - 1
<1>1. (t \in S <=> t \in R) => R = S
  OBVIOUS
<1>2. t \notin S /\ t \in R => R = S \cup {t}
  OBVIOUS
<1>3. t \in S /\ t \notin R => R = S \ {t}
  OBVIOUS
<1>4. /\ IsFiniteSet(S \cup {t})
      /\ t \notin S => Cardinality(S \cup {t}) = Cardinality(S) + 1
  BY FS_AddElement
<1>5. /\ IsFiniteSet(S \ {t})
      /\ t \in S => Cardinality(S \ {t}) = Cardinality(S) - 1
  BY FS_RemoveElement
<1>6. IsFiniteSet(R)
  BY <1>1, <1>2, <1>3, <1>4, <1>5
<1>7. Cardinality(S) \in Nat /\ Cardinality(R) \in Nat
  BY <1>6, FS_CardinalityType
<1> QED
  BY <1>1, <1>2, <1>3, <1>4, <1>5, <1>6, <1>7

\* How many can refer to a slot.
LEMMA CountBounds ==
  ASSUME NEW s \in Slots
  PROVE  /\ IsFiniteSet(Holders(s)) /\ Cardinality(Holders(s)) \in Nat
         /\ IsFiniteSet(Probers(s)) /\ Cardinality(Probers(s)) \in Nat
         /\ IsFiniteSet(Correcting(s)) /\ Cardinality(Correcting(s)) \in Nat
         /\ Cardinality(Threads) \in Nat
         /\ Cardinality(Holders(s)) <= Cardinality(Threads)
         /\ Cardinality(Probers(s)) <= Cardinality(Threads)
         /\ \A t \in Threads : t \notin Probers(s) => Cardinality(Probers(s)) + 1 <= Cardinality(Threads)
<1>1. IsFiniteSet(Threads)
  BY ClientAssumption
<1>2. Holders(s) \subseteq Threads /\ Probers(s) \subseteq Threads /\ Correcting(s) \subseteq Threads
  BY DEF Holders, Probers, Correcting
<1>3. ASSUME NEW t \in Threads, t \notin Probers(s)
      PROVE  Cardinality(Probers(s)) + 1 <= Cardinality(Threads)
  <2>1. Probers(s) \cup {t} \subseteq Threads
    BY <1>2
  <2>2. IsFiniteSet(Probers(s))
    BY <1>1, <1>2, FS_Subset
  <2>3. Cardinality(Probers(s) \cup {t}) = Cardinality(Probers(s)) + 1
    BY <1>3, <2>2, FS_AddElement
  <2> QED
    BY <1>1, <2>1, <2>3, FS_Subset
<1> QED
  BY <1>1, <1>2, <1>3, FS_Subset, FS_CardinalityType

LEMMA StepCounts ==
  ASSUME CInv, NEW t \in Threads, StepOf(t), NEW s \in Slots
  PROVE  /\ Holders(s) \ {t} = Holders(s)' \ {t}
         /\ Probers(s) \ {t} = Probers(s)' \ {t}
         /\ Correcting(s) \ {t} = Correcting(s)' \ {t}
BY OtherViews DEF Holders, Probers, Correcting

\* A frame that refers to no slot but s, and owns no other.
Attached(f, s) ==
  /\ f.pc \in RefLabels \cup {"fill", "eraseFree"} => f.cur = s
  /\ f.pc = "evictFree" \/ (f.pc = "rollback" /\ f.to = "evictFree") => (f.ptr + f.i) % Length = s

LEMMA AttachedViews ==
  ASSUME NEW t \in Threads, NEW s \in Slots, Attached(frame[t], s), NEW x \in Slots, x # s
  PROVE  t \notin Probers(x) /\ t \notin Correcting(x) /\ ~Owns(t, x)
BY DEF Attached, Probers, Correcting, Owns, At, RefLabels, Cur, ClockSlot

LEMMA SlotStep ==
  ASSUME CInv, NEW t \in Threads, NEW g, NEW s \in Slots, NEW w \in Words,
         FrameMove(t, g), Attached(frame[t], s), Attached(g, s),
         meta' = [meta EXCEPT ![s] = w],
         entry' \in [Slots -> Entries],
         \A x \in Slots \ {s} : entry'[x] = entry[x],
         entry'[s] = entry[s] \/ Owns(t, s),
         held' \in [Threads -> HeldHandles \cup {None}],
         \A u \in Threads \ {t} : held'[u] = held[u],
         \A x \in Slots \ {s} : t \in Holders(x)' <=> t \in Holders(x),
         State(meta[s]) = StateConstruction /\ ~Owns(t, s) => State(w) = StateConstruction,
         Owns(t, s)' => /\ State(w) = StateConstruction /\ State(meta[s]) # StateConstruction
                        /\ g.pc \in {"rollback", "evictFree"} => entry'[s].key \in Keys,
         LocalInv(t, g, todo'[t], held'[t]), HandleInv(t)', SlotInv(s)'
  PROVE  CInv'
<1>1. frame'[t] = g /\ StateType' /\ StepOf(t)
  BY FrameMoves DEF StepOf, FrameMove, CInv, StateType
<1>2. \A x \in Slots \ {s} : meta'[x] = meta[x] /\ meta'[s] = w
  BY DEF CInv, StateType
<1>3. meta'[s] = w
  BY DEF CInv, StateType
<1>4. ASSUME NEW x \in Slots, x # s
      PROVE  SameView(t, x) /\ ~Owns(t, x)'
  <2>1. t \notin Probers(x) /\ t \notin Correcting(x) /\ ~Owns(t, x)
    BY <1>4, AttachedViews
  <2>2. t \notin Probers(x)' /\ t \notin Correcting(x)' /\ ~Owns(t, x)'
    BY <1>1, <1>4 DEF Attached, Probers, Correcting, Owns, At, RefLabels, Cur, ClockSlot
  <2> QED
    BY <1>4, <2>1, <2>2 DEF SameView
<1>5. \A x \in Slots : SlotInv(x)'
  <2>1. ASSUME NEW x \in Slots, x # s
        PROVE  SlotInv(x)'
    BY <1>1, <1>2, <1>4, <2>1, SameSlot
  <2> QED
    BY <2>1
<1>6. ThreadInv(t)'
  BY <1>1 DEF ThreadInv
<1>7. OwnerInv(t)'
  <2> SUFFICES ASSUME NEW x \in Slots, Owns(t, x)'
               PROVE  /\ State(meta'[x]) = StateConstruction
                      /\ g.pc \in {"rollback", "evictFree"} => entry'[x].key \in Keys
                      /\ \A u \in Threads : Owns(u, x)' => u = t
    BY <1>1 DEF OwnerInv
  <2>1. x = s
    BY <1>4
  <2>2. \A u \in Threads : ~Owns(u, s)
    BY <2>1 DEF CInv, OwnerInv
  <2>3. \A u \in Threads : Owns(u, x)' => u = t
    BY <1>1, <2>1, <2>2, OtherOwns
  <2> QED
    BY <1>3, <2>1, <2>3
<1>8. \A x \in Slots : Owns(t, x)' => Owns(t, x) \/ State(meta[x]) # StateConstruction
  BY <1>4
<1>9. \A x \in Slots : State(meta[x]) = StateConstruction /\ ~Owns(t, x) =>
                         State(meta'[x]) = StateConstruction
  BY <1>2, <1>3
<1>10. \A x \in Slots : entry'[x] = entry[x] \/ Owns(t, x)
  OBVIOUS
<1> QED
  BY <1>1, <1>5, <1>6, <1>7, <1>8, <1>9, <1>10, Assemble

\* A frame that owns a slot.
Owner(f) == \/ f.pc \in {"fill", "eraseFree", "evictFree"}
            \/ f.pc = "rollback" /\ f.to = "evictFree"

\* The number of elements of S and R, which differ at most by t.
Differ(S, R, t) ==
  /\ Cardinality(S) \in Nat /\ Cardinality(R) \in Nat
  /\ (t \in S <=> t \in R) => Cardinality(R) = Cardinality(S) /\ R = S
  /\ t \notin S /\ t \in R => Cardinality(R) = Cardinality(S) + 1
  /\ t \in S /\ t \notin R => Cardinality(R) = Cardinality(S) - 1

LEMMA MovedCounts ==
  ASSUME CInv, NEW t \in Threads, NEW g, NEW s \in Slots, FrameMove(t, g),
         \A u \in Threads \ {t} : held'[u] = held[u]
  PROVE  /\ frame'[t] = g /\ StepOf(t)
         /\ t \in Probers(s) <=> frame[t].cur = s /\ frame[t].pc \in RefLabels
         /\ t \in Probers(s)' <=> g.cur = s /\ g.pc \in RefLabels
         /\ t \in Correcting(s) <=> frame[t].cur = s /\ frame[t].pc = "lookupHitDecr"
         /\ t \in Correcting(s)' <=> g.cur = s /\ g.pc = "lookupHitDecr"
         /\ Differ(Holders(s), Holders(s)', t)
         /\ Differ(Probers(s), Probers(s)', t)
         /\ Differ(Correcting(s), Correcting(s)', t)
<1>1. frame'[t] = g /\ StepOf(t)
  BY FrameMoves DEF StepOf, FrameMove
<1>2. /\ Holders(s) \ {t} = Holders(s)' \ {t}
      /\ Probers(s) \ {t} = Probers(s)' \ {t}
      /\ Correcting(s) \ {t} = Correcting(s)' \ {t}
  BY <1>1, StepCounts
<1>3. IsFiniteSet(Holders(s)) /\ IsFiniteSet(Probers(s)) /\ IsFiniteSet(Correcting(s))
  BY CountBounds
<1>4. \A S, R : IsFiniteSet(S) /\ S \ {t} = R \ {t} => Differ(S, R, t)
  <2> SUFFICES ASSUME NEW S, NEW R, IsFiniteSet(S), S \ {t} = R \ {t}
               PROVE  Differ(S, R, t)
    OBVIOUS
  <2>1. (t \in S <=> t \in R) => R = S
    OBVIOUS
  <2> QED
    BY <2>1, CountChange DEF Differ
<1>5. /\ t \in Probers(s) <=> frame[t].cur = s /\ frame[t].pc \in RefLabels
      /\ t \in Correcting(s) <=> frame[t].cur = s /\ frame[t].pc = "lookupHitDecr"
  BY DEF Probers, Correcting, Cur, At
<1>6. /\ t \in Probers(s)' <=> g.cur = s /\ g.pc \in RefLabels
      /\ t \in Correcting(s)' <=> g.cur = s /\ g.pc = "lookupHitDecr"
  BY <1>1 DEF Probers, Correcting, Cur, At
<1>7. Differ(Holders(s), Holders(s)', t)
  BY <1>2, <1>3, <1>4
<1>8. Differ(Probers(s), Probers(s)', t)
  BY <1>2, <1>3, <1>4
<1>9. Differ(Correcting(s), Correcting(s)', t)
  BY <1>2, <1>3, <1>4
<1> QED
  BY <1>1, <1>5, <1>6, <1>7, <1>8, <1>9

LEMMA OwnerOwns ==
  ASSUME CInv, NEW t \in Threads, NEW g, NEW s \in Slots, FrameMove(t, g)
  PROVE  /\ Owns(t, s) => Owner(frame[t])
         /\ Owns(t, s)' => Owner(g)
<1>1. frame'[t] = g
  BY FrameMoves
<1> QED
  BY <1>1 DEF Owns, Owner, At

\* An entry stays, and so does what its slot counts.
LEMMA StoredMove ==
  ASSUME CInv, NEW t \in Threads, NEW g, NEW s \in Slots, NEW w \in Words,
         FrameMove(t, g), Attached(frame[t], s), Attached(g, s), ~Owner(g),
         meta' = [meta EXCEPT ![s] = w], s \in Stored, State(w) \in {6, 7}, HitBit(w) = 0,
         UNCHANGED entry,
         held' \in [Threads -> HeldHandles \cup {None}],
         \A u \in Threads \ {t} : held'[u] = held[u],
         \A x \in Slots \ {s} : t \in Holders(x)' <=> t \in Holders(x),
         LocalInv(t, g, todo'[t], held'[t]), HandleInv(t)',
         RefCount(w) = Cardinality(Holders(s)') + Cardinality(Probers(s)'),
         HitCount(w) <= MaxHitCount + Cardinality(Correcting(s)'),
         HitCount(w) >= Cardinality(Readers) * Cardinality(Correcting(s)')
  PROVE  CInv'
<1>1. meta'[s] = w
  BY DEF CInv, StateType
<1>2. s \in Stored'
  BY <1>1 DEF Stored, StateInvisible, StateVisible
<1>3. entry[s].key \in Keys
  BY DEF CInv, SlotInv, StoredInv
<1>4. StoredInv(s)'
  BY <1>1, <1>3 DEF StoredInv, Readers
<1>5. SlotInv(s)'
  BY <1>1, <1>2, <1>4 DEF SlotInv, StateEmpty, StateConstruction, StateInvisible, StateVisible
<1>6. ~Owns(t, s)'
  BY OwnerOwns
<1>7. State(meta[s]) # StateConstruction
  BY StoredState DEF StateConstruction
<1>8. entry' \in [Slots -> Entries]
  BY DEF CInv, StateType
<1> QED
  BY <1>5, <1>6, <1>7, <1>8, SlotStep

\* A slot without an entry stays so.
LEMMA VacantMove ==
  ASSUME CInv, NEW t \in Threads, NEW g, NEW s \in Slots, NEW w \in Words,
         FrameMove(t, g), Attached(frame[t], s), Attached(g, s), ~Owner(g), ~Owner(frame[t]),
         meta' = [meta EXCEPT ![s] = w], s \notin Stored, State(w) = State(meta[s]),
         UNCHANGED <<entry, held>>,
         LocalInv(t, g, todo'[t], held[t]),
         t \in Probers(s)' => g.pc = "eraseUnref",
         Low(w) >= Cardinality(Probers(s)')
  PROVE  CInv'
<1>1. meta'[s] = w
  BY DEF CInv, StateType
<1>2. s \notin Stored'
  BY <1>1, StoredState DEF Stored, StateInvisible, StateVisible
<1>3. SlotInv(s) /\ VacantInv(s)
  BY DEF CInv, SlotInv
<1>4. frame'[t] = g /\ StepOf(t)
  BY FrameMoves DEF StepOf, FrameMove
<1>5. Holders(s)' = {}
  BY <1>3 DEF VacantInv, Holders
<1>6. ASSUME NEW u \in Probers(s)'
      PROVE  At(u, "eraseUnref")'
  <2>1. CASE u = t
    BY <1>4, <1>6, <2>1 DEF At
  <2>2. CASE u # t
    <3>1. u \in Threads \ {t} /\ u \in Probers(s)
      BY <1>4, <1>6, <2>2, OtherViews DEF Probers
    <3> QED
      BY <1>3, <1>4, <3>1 DEF VacantInv, StepOf, At
  <2> QED
    BY <2>1, <2>2
<1>7. VacantInv(s)'
  BY <1>1, <1>5, <1>6 DEF VacantInv
<1>8. ~Owns(t, s)' /\ ~Owns(t, s)
  BY OwnerOwns
<1>9. State(meta[s]) = StateConstruction => \E u \in Threads : Owns(u, s)'
  BY <1>3, <1>4, <1>8, OtherOwns DEF SlotInv
<1>10. SlotInv(s)'
  BY <1>1, <1>2, <1>3, <1>7, <1>9 DEF SlotInv
<1>11. HandleInv(t)' /\ entry' \in [Slots -> Entries] /\ held' \in [Threads -> HeldHandles \cup {None}]
  BY DEF CInv, HandleInv, StateType
<1>12. \A x \in Slots : t \in Holders(x)' <=> t \in Holders(x)
  BY DEF Holders
<1> QED
  BY <1>8, <1>10, <1>11, <1>12, SlotStep

\* A call takes a reference; on a slot without an entry only Erase counts it.
LEMMA RefGain ==
  ASSUME CInv, CountersWide, NoCarry, NEW t \in Threads, NEW g, NEW s \in Slots,
         FrameMove(t, g), Detached(frame[t]), g.cur = s,
         s \in Stored => g.pc \in RefLabels \ {"lookupHitDecr"},
         s \notin Stored => g.pc = "eraseUnref" \/ Detached(g),
         RefIncr(s), UNCHANGED <<entry, held>>,
         LocalInv(t, g, todo'[t], held[t])
  PROVE  CInv'
<1> DEFINE m == meta[s]
           w == Add(m, 1)
<1>1. m \in Words /\ meta' = [meta EXCEPT ![s] = w]
  BY DEF CInv, StateType, RefIncr, SetMeta
<1>2. SlotInv(s)
  BY DEF CInv
<1>3. ~Owner(frame[t]) /\ Attached(frame[t], s) /\ t \notin Probers(s)
  BY DetachedViews DEF Detached, Owner, Attached
<1>4. ~Owner(g) /\ Attached(g, s)
  BY DEF Detached, Owner, Attached, RefLabels
<1>5. /\ Differ(Holders(s), Holders(s)', t) /\ Differ(Probers(s), Probers(s)', t)
      /\ Differ(Correcting(s), Correcting(s)', t)
      /\ t \notin Correcting(s)
      /\ t \in Correcting(s)' <=> g.pc = "lookupHitDecr"
      /\ t \in Probers(s)' <=> g.pc \in RefLabels
  BY MovedCounts, DetachedViews
<1>6. \A x \in Slots : t \in Holders(x)' <=> t \in Holders(x)
  BY DEF Holders
<1>7. HandleInv(t)' /\ held' \in [Threads -> HeldHandles \cup {None}]
  BY DEF CInv, HandleInv, StateType
<1> HIDE DEF w, m
<1>8. CASE s \in Stored
  <2>1. /\ RefCount(m) = Cardinality(Holders(s)) + Cardinality(Probers(s)) /\ HitBit(m) = 0
        /\ HitCount(m) <= MaxHitCount + Cardinality(Correcting(s))
        /\ HitCount(m) >= Cardinality(Readers) * Cardinality(Correcting(s))
        /\ State(m) \in {6, 7}
    BY <1>2, <1>8, StoredState DEF SlotInv, StoredInv, m
  <2>2. RefCount(m) + 1 < CounterMod
    <3>1. /\ Cardinality(Threads) \in Nat /\ CounterMod \in Nat
          /\ Cardinality(Holders(s)) <= Cardinality(Threads)
          /\ Cardinality(Probers(s)) + 1 <= Cardinality(Threads)
          /\ Cardinality(Holders(s)) \in Nat /\ Cardinality(Probers(s)) \in Nat
      BY <1>3, CountBounds, CounterAssumption
    <3>2. 2 * Cardinality(Threads) < CounterMod
      BY DEF CountersWide
    <3> QED
      BY <2>1, <3>1, <3>2
  <2>3. /\ w \in Words /\ State(w) = State(m) /\ HitBit(w) = HitBit(m)
        /\ HitCount(w) = HitCount(m) /\ RefCount(w) = RefCount(m) + 1
    BY <1>1, <2>2, RefUp DEF w
  <2>4. /\ Cardinality(Holders(s)') = Cardinality(Holders(s))
        /\ Cardinality(Probers(s)') = Cardinality(Probers(s)) + 1
        /\ Cardinality(Correcting(s)') = Cardinality(Correcting(s))
    BY <1>3, <1>5, <1>6, <1>8 DEF Differ
  <2>5. RefCount(w) = Cardinality(Holders(s)') + Cardinality(Probers(s)')
    BY <1>5, <2>1, <2>3, <2>4 DEF Differ
  <2> QED
    BY <1>1, <1>3, <1>4, <1>6, <1>7, <1>8, <2>1, <2>3, <2>4, <2>5, StoredMove
<1>9. CASE s \notin Stored
  <2>1. Low(m) >= Cardinality(Probers(s)) /\ Low(m) # StateUnit - 1 /\ Low(m) \in Nat
    BY <1>1, <1>2, <1>9, LowSplit DEF SlotInv, VacantInv, NoCarry, m
  <2>2. w \in Words /\ State(w) = State(m) /\ Low(w) = Low(m) + 1
    BY <1>1, <2>1, LowUp DEF w
  <2>3. Low(w) >= Cardinality(Probers(s)')
    BY <1>3, <1>5, <2>1, <2>2 DEF Differ
  <2>4. t \in Probers(s)' => g.pc = "eraseUnref"
    BY <1>5, <1>9 DEF Detached
  <2> QED
    BY <1>1, <1>3, <1>4, <1>9, <2>2, <2>3, <2>4, VacantMove DEF m
<1> QED
  BY <1>8, <1>9

\* A call gives its reference back.
LEMMA RefLoss ==
  ASSUME CInv, NEW t \in Threads, NEW g, NEW s \in Slots,
         FrameMove(t, g), frame[t].cur = s, frame[t].pc \in RefLabels \ {"lookupHitDecr"},
         Detached(g), RefDecr(s), UNCHANGED <<entry, held>>,
         LocalInv(t, g, todo'[t], held[t])
  PROVE  CInv'
<1> DEFINE m == meta[s]
           w == Add(m, MetaMod - 1)
<1>1. m \in Words /\ meta' = [meta EXCEPT ![s] = w]
  BY DEF CInv, StateType, RefDecr, SetMeta
<1>2. SlotInv(s)
  BY DEF CInv
<1>3. ~Owner(g) /\ Attached(g, s)
  BY DEF Detached, Owner, Attached
<1>4. ~Owner(frame[t]) /\ Attached(frame[t], s)
  BY DEF Owner, Attached, RefLabels
<1>5. /\ Differ(Holders(s), Holders(s)', t) /\ Differ(Probers(s), Probers(s)', t)
      /\ Differ(Correcting(s), Correcting(s)', t)
      /\ t \notin Correcting(s) /\ t \notin Correcting(s)'
      /\ t \in Probers(s) /\ t \notin Probers(s)'
  BY MovedCounts DEF Detached, RefLabels
<1>6. \A x \in Slots : t \in Holders(x)' <=> t \in Holders(x)
  BY DEF Holders
<1>7. HandleInv(t)' /\ held' \in [Threads -> HeldHandles \cup {None}]
  BY DEF CInv, HandleInv, StateType
<1>8. Cardinality(Probers(s)) >= 1
  BY <1>5 DEF Differ
<1> HIDE DEF w, m
<1>9. CASE s \in Stored
  <2>1. /\ RefCount(m) = Cardinality(Holders(s)) + Cardinality(Probers(s)) /\ HitBit(m) = 0
        /\ HitCount(m) <= MaxHitCount + Cardinality(Correcting(s))
        /\ HitCount(m) >= Cardinality(Readers) * Cardinality(Correcting(s))
        /\ State(m) \in {6, 7}
    BY <1>2, <1>9, StoredState DEF SlotInv, StoredInv, m
  <2>2. RefCount(m) >= 1
    BY <1>5, <1>8, <2>1 DEF Differ
  <2>3. /\ w \in Words /\ State(w) = State(m) /\ HitBit(w) = HitBit(m)
        /\ HitCount(w) = HitCount(m) /\ RefCount(w) = RefCount(m) - 1
    BY <1>1, <2>2, RefDown DEF w
  <2>4. /\ Cardinality(Holders(s)') = Cardinality(Holders(s))
        /\ Cardinality(Probers(s)') = Cardinality(Probers(s)) - 1
        /\ Cardinality(Correcting(s)') = Cardinality(Correcting(s))
    BY <1>5, <1>6 DEF Differ
  <2>5. RefCount(w) = Cardinality(Holders(s)') + Cardinality(Probers(s)')
    BY <1>5, <2>1, <2>3, <2>4 DEF Differ
  <2> QED
    BY <1>1, <1>3, <1>4, <1>6, <1>7, <1>9, <2>1, <2>3, <2>4, <2>5, StoredMove
<1>10. CASE s \notin Stored
  <2>1. Low(m) >= Cardinality(Probers(s)) /\ Low(m) \in Nat
    BY <1>1, <1>2, <1>10, LowSplit DEF SlotInv, VacantInv, m
  <2>2. w \in Words /\ State(w) = State(m) /\ Low(w) = Low(m) - 1
    <3>1. Low(m) >= 1
      BY <1>5, <1>8, <2>1 DEF Differ
    <3> QED
      BY <1>1, <3>1, LowDown DEF w
  <2>3. Low(w) >= Cardinality(Probers(s)')
    BY <1>5, <2>1, <2>2 DEF Differ
  <2> QED
    BY <1>1, <1>3, <1>4, <1>5, <1>10, <2>2, <2>3, VacantMove DEF m
<1> QED
  BY <1>9, <1>10

\* A step that only writes a meta word and moves to label l.
LEMMA MetaGoto ==
  ASSUME CInv, NEW t \in Threads, NEW l \in Labels, Goto(t, l), OnlyMeta
  PROVE  \E g \in Frames : /\ FrameMove(t, g) /\ g = [frame[t] EXCEPT !.pc = l]
                           /\ g.pc = l /\ g.cur = frame[t].cur /\ g.call = frame[t].call
<1> DEFINE f == frame[t]
           g == [f EXCEPT !.pc = l]
<1>1. f \in Frames /\ frame \in [Threads -> Frames]
  BY Actor
<1>2. frame' = [frame EXCEPT ![t] = g]
  BY <1>1 DEF Goto
<1>3. g \in Frames /\ g.pc = l /\ g.cur = f.cur /\ g.call = f.call
  BY <1>1 DEF Frames
<1>4. FrameMove(t, g)
  BY <1>2, <1>3 DEF FrameMove, OnlyMeta, CInv, StateType
<1> QED
  BY <1>3, <1>4

\* One label of a lookup to another.
LEMMA LookupLocal ==
  ASSUME NEW t, NEW f, NEW g, NEW calls, NEW handle, LocalInv(t, f, calls, handle),
         f.pc \in LookupLabels, g.call = f.call, g.pc \in LookupLabels \ {"lookupHitDecr"}
  PROVE  LocalInv(t, g, calls, handle)
BY DEF LocalInv, LookupLabels

LEMMA LookupRefKeeps ==
  ASSUME CInv, CountersWide, NoCarry, NEW t \in Threads, LookupRef(t)
  PROVE  CInv'
<1> DEFINE f == frame[t]
           s == Cur(t)
           l == CASE State(meta[s]) = StateVisible   -> "lookupMatch"
                  [] State(meta[s]) = StateInvisible -> "lookupUnref"
                  [] OTHER                           -> "lookupNext"
<1>1. f \in Frames /\ f.pc = "lookupRef" /\ s \in Slots /\ s = f.cur
  BY Actor DEF LookupRef, At, Cur, Frames
<1>2. /\ l \in {"lookupMatch", "lookupUnref", "lookupNext"}
      /\ s \in Stored => l \in {"lookupMatch", "lookupUnref"}
      /\ s \notin Stored => l = "lookupNext"
  <2>1. s \in Stored <=> State(meta[s]) \in {6, 7}
    BY <1>1, StoredState
  <2> QED
    BY <2>1 DEF StateVisible, StateInvisible
<1>3. Goto(t, l) /\ RefIncr(s) /\ OnlyMeta
  BY DEF LookupRef
<1> HIDE DEF l
<1>4. PICK g \in Frames : FrameMove(t, g) /\ g.pc = l /\ g.cur = f.cur /\ g.call = f.call
  BY <1>2, <1>3, MetaGoto DEF Labels
<1>5. LocalInv(t, g, todo'[t], held[t])
  BY <1>1, <1>2, <1>3, <1>4, Actor, LookupLocal DEF LookupLabels, OnlyMeta
<1>6. Detached(f)
  BY <1>1 DEF Detached, RefLabels
<1>7. /\ s \in Stored => g.pc \in RefLabels \ {"lookupHitDecr"}
      /\ s \notin Stored => Detached(g)
  BY <1>2, <1>4 DEF Detached, RefLabels
<1> QED
  BY <1>1, <1>3, <1>4, <1>5, <1>6, <1>7, RefGain DEF OnlyMeta

LEMMA InsertRefKeeps ==
  ASSUME CInv, CountersWide, NoCarry, NEW t \in Threads, InsertRef(t)
  PROVE  CInv'
<1> DEFINE f == frame[t]
           s == Cur(t)
           l == CASE State(meta[s]) = StateVisible   -> "slotMatch"
                  [] State(meta[s]) = StateInvisible -> "slotUnref"
                  [] OTHER                           -> "slotNext"
<1>1. f \in Frames /\ f.pc = "slotRef" /\ s \in Slots /\ s = f.cur
  BY Actor DEF InsertRef, At, Cur, Frames
<1>2. /\ l \in {"slotMatch", "slotUnref", "slotNext"}
      /\ s \in Stored => l \in {"slotMatch", "slotUnref"}
      /\ s \notin Stored => l = "slotNext"
  <2>1. s \in Stored <=> State(meta[s]) \in {6, 7}
    BY <1>1, StoredState
  <2> QED
    BY <2>1 DEF StateVisible, StateInvisible
<1>3. Goto(t, l) /\ RefIncr(s) /\ OnlyMeta
  BY DEF InsertRef
<1> HIDE DEF l
<1>4. PICK g \in Frames : FrameMove(t, g) /\ g.pc = l /\ g.cur = f.cur /\ g.call = f.call
  BY <1>2, <1>3, MetaGoto DEF Labels, ProbeLabels
<1>5. LocalInv(t, g, todo'[t], held[t])
  BY <1>1, <1>2, <1>3, <1>4, Actor, PlainLocal DEF LookupLabels, OnlyMeta
<1>6. Detached(f)
  BY <1>1 DEF Detached, RefLabels
<1>7. /\ s \in Stored => g.pc \in RefLabels \ {"lookupHitDecr"}
      /\ s \notin Stored => Detached(g)
  BY <1>2, <1>4 DEF Detached, RefLabels
<1> QED
  BY <1>1, <1>3, <1>4, <1>5, <1>6, <1>7, RefGain DEF OnlyMeta

LEMMA EraseRefKeeps ==
  ASSUME CInv, CountersWide, NoCarry, NEW t \in Threads, EraseRef(t)
  PROVE  CInv'
<1> DEFINE f == frame[t]
           s == IF At(t, "eraseFirst") THEN Base[Key(t)] ELSE Cur(t)
           l == IF State(meta[s]) = StateVisible THEN "eraseMatch" ELSE "eraseUnref"
           g == [f EXCEPT !.cur = s, !.pc = l]
<1>1. f \in Frames /\ frame \in [Threads -> Frames] /\ f.pc \in {"eraseRef", "eraseFirst"}
  BY Actor DEF EraseRef, At
<1>2. s \in Slots
  BY <1>1, Actor, SlotFacts DEF Cur, Frames
<1>3. l \in {"eraseMatch", "eraseUnref"} /\ (s \notin Stored => l = "eraseUnref")
  <2>1. s \in Stored <=> State(meta[s]) \in {6, 7}
    BY <1>2, StoredState
  <2> QED
    BY <2>1 DEF StateVisible
<1>4. RefIncr(s) /\ OnlyMeta /\ frame' = [frame EXCEPT ![t].cur = s, ![t].pc = l]
  BY DEF EraseRef
<1> HIDE DEF l, s
<1>5. frame' = [frame EXCEPT ![t] = g]
  BY <1>1, <1>4
<1>6. g \in Frames /\ g.pc = l /\ g.cur = s /\ g.call = f.call
  BY <1>1, <1>2, <1>3 DEF Frames, Labels
<1> HIDE DEF g
<1>7. FrameMove(t, g)
  BY <1>4, <1>5, <1>6 DEF FrameMove, OnlyMeta, CInv, StateType
<1>8. LocalInv(t, g, todo'[t], held[t])
  BY <1>1, <1>3, <1>4, <1>6, Actor, PlainLocal DEF LookupLabels, OnlyMeta
<1>9. Detached(f)
  BY <1>1 DEF Detached, RefLabels
<1>10. g.pc \in RefLabels \ {"lookupHitDecr"}
  BY <1>3, <1>6 DEF RefLabels
<1> QED
  BY <1>2, <1>3, <1>4, <1>6, <1>7, <1>8, <1>9, <1>10, RefGain DEF OnlyMeta

LEMMA LookupUnrefKeeps ==
  ASSUME CInv, NEW t \in Threads, LookupUnref(t)
  PROVE  CInv'
<1> DEFINE f == frame[t]
<1>1. f \in Frames /\ f.pc \in {"lookupUnref", "lookupMatch"} /\ Cur(t) \in Slots /\ Cur(t) = f.cur
  BY Actor DEF LookupUnref, At, Cur, Frames
<1>2. Goto(t, "lookupNext") /\ RefDecr(Cur(t)) /\ OnlyMeta /\ "lookupNext" \in Labels
  BY DEF LookupUnref, Labels
<1>3. PICK g \in Frames : FrameMove(t, g) /\ g.pc = "lookupNext" /\ g.cur = f.cur /\ g.call = f.call
  BY <1>2, MetaGoto
<1>4. LocalInv(t, g, todo'[t], held[t])
  BY <1>1, <1>2, <1>3, Actor, LookupLocal DEF LookupLabels, OnlyMeta
<1>5. Detached(g) /\ f.pc \in RefLabels \ {"lookupHitDecr"}
  BY <1>1, <1>3 DEF Detached, RefLabels
<1> QED
  BY <1>1, <1>2, <1>3, <1>4, <1>5, RefLoss DEF OnlyMeta

LEMMA InsertUnrefKeeps ==
  ASSUME CInv, NEW t \in Threads, InsertUnref(t)
  PROVE  CInv'
<1> DEFINE f == frame[t]
<1>1. f \in Frames /\ f.pc \in {"slotUnref", "slotMatch"} /\ Cur(t) \in Slots /\ Cur(t) = f.cur
  BY Actor DEF InsertUnref, At, Cur, Frames
<1>2. Goto(t, "slotNext") /\ RefDecr(Cur(t)) /\ OnlyMeta /\ "slotNext" \in Labels
  BY DEF InsertUnref, Labels, ProbeLabels
<1>3. PICK g \in Frames : FrameMove(t, g) /\ g.pc = "slotNext" /\ g.cur = f.cur /\ g.call = f.call
  BY <1>2, MetaGoto
<1>4. LocalInv(t, g, todo'[t], held[t])
  BY <1>1, <1>2, <1>3, Actor, PlainLocal DEF LookupLabels, OnlyMeta
<1>5. Detached(g) /\ f.pc \in RefLabels \ {"lookupHitDecr"}
  BY <1>1, <1>3 DEF Detached, RefLabels
<1> QED
  BY <1>1, <1>2, <1>3, <1>4, <1>5, RefLoss DEF OnlyMeta

LEMMA EraseUnrefKeeps ==
  ASSUME CInv, NEW t \in Threads, EraseUnref(t)
  PROVE  CInv'
<1> DEFINE f == frame[t]
<1>1. f \in Frames /\ f.pc \in {"eraseUnref", "eraseMatch"} /\ Cur(t) \in Slots /\ Cur(t) = f.cur
  BY Actor DEF EraseUnref, At, Cur, Frames
<1>2. Goto(t, "eraseNext") /\ RefDecr(Cur(t)) /\ OnlyMeta /\ "eraseNext" \in Labels
  BY DEF EraseUnref, Labels
<1>3. PICK g \in Frames : FrameMove(t, g) /\ g.pc = "eraseNext" /\ g.cur = f.cur /\ g.call = f.call
  BY <1>2, MetaGoto
<1>4. LocalInv(t, g, todo'[t], held[t])
  BY <1>1, <1>2, <1>3, Actor, PlainLocal DEF LookupLabels, OnlyMeta
<1>5. Detached(g) /\ f.pc \in RefLabels \ {"lookupHitDecr"}
  BY <1>1, <1>3 DEF Detached, RefLabels
<1> QED
  BY <1>1, <1>2, <1>3, <1>4, <1>5, RefLoss DEF OnlyMeta

LEMMA InsertMatchKeeps ==
  ASSUME CInv, NEW t \in Threads, InsertMatch(t)
  PROVE  CInv'
<1> DEFINE f == frame[t]
           l == IF f.again THEN "fail" ELSE "eraseFirst"
           g == RollbackTo(f, Key(t), Cur(t), l)
<1>1. f \in Frames /\ f.pc = "slotMatch" /\ Cur(t) \in Slots /\ Cur(t) = f.cur /\ Key(t) \in Keys
  BY Actor DEF InsertMatch, At, Cur, Frames
<1>2. l \in {"fail", "eraseFirst"} /\ l \in Labels
  BY DEF Labels
<1>3. RefDecr(Cur(t)) /\ OnlyMeta /\ frame' = [frame EXCEPT ![t] = g]
  BY DEF InsertMatch
<1> HIDE DEF l
<1>4. g \in Frames /\ g.call = f.call /\ (g.pc = l \/ (g.pc = "rollback" /\ g.to = l))
  BY <1>1, <1>2, RollbackFrame
<1> HIDE DEF g
<1>5. FrameMove(t, g)
  BY <1>3, <1>4 DEF FrameMove, OnlyMeta, CInv, StateType
<1>6. LocalInv(t, g, todo'[t], held[t])
  BY <1>1, <1>2, <1>3, <1>4, Actor, PlainLocal DEF LookupLabels, OnlyMeta
<1>7. Detached(g) /\ f.pc \in RefLabels \ {"lookupHitDecr"}
  BY <1>1, <1>2, <1>4 DEF Detached, RefLabels
<1> QED
  BY <1>1, <1>3, <1>5, <1>6, <1>7, RefLoss DEF OnlyMeta

-----------------------------------------------------------------------------
(***************************************************************************)
(* Handles and hits.                                                       *)
(***************************************************************************)
LEMMA HolderStored ==
  ASSUME CInv, NEW t \in Threads, held[t] # None
  PROVE  /\ held[t] \in HeldHandles /\ held[t].slot \in Slots /\ held[t].slot \in Stored
         /\ t \in Holders(held[t].slot)
<1>1. held[t] \in HeldHandles
  BY DEF CInv, StateType
<1>2. held[t].slot \in Slots /\ t \in Holders(held[t].slot)
  BY <1>1 DEF HeldHandles, Holders
<1> QED
  BY <1>1, <1>2 DEF CInv, SlotInv, VacantInv

\* A call with a reference, other than an Erase about to leave, has an entry there.
LEMMA ProberStored ==
  ASSUME CInv, NEW t \in Threads, frame[t].pc \in RefLabels \ {"eraseUnref"}
  PROVE  Cur(t) \in Slots /\ Cur(t) \in Stored /\ t \in Probers(Cur(t))
<1>1. Cur(t) \in Slots
  BY Actor DEF Cur, Frames
<1>2. t \in Probers(Cur(t))
  BY DEF Probers
<1>3. ~At(t, "eraseUnref")
  BY DEF At
<1> QED
  BY <1>1, <1>2, <1>3 DEF CInv, SlotInv, VacantInv

LEMMA ReaderCounts ==
  ASSUME CInv, NEW s \in Slots
  PROVE  /\ Cardinality(Readers) \in Nat /\ Cardinality(Correcting(s)) \in Nat
         /\ \A t \in Threads : frame[t].pc \in LookupLabels => t \in Readers
         /\ \A t \in Readers \ Correcting(s) :
              Cardinality(Correcting(s)) + 1 <= Cardinality(Readers)
<1>1. IsFiniteSet(Readers) /\ Cardinality(Readers) \in Nat
  BY ClientAssumption, FS_Subset, FS_CardinalityType DEF Readers
<1>2. ASSUME NEW t \in Threads, frame[t].pc \in LookupLabels
      PROVE  t \in Readers
  <2>1. LocalInv(t, frame[t], todo[t], held[t])
    BY Actor
  <2>2. frame[t].call \in Workload[t] /\ frame[t].call.op = "lookup"
    BY <1>2, <2>1 DEF LocalInv, LookupLabels
  <2> QED
    BY <2>2 DEF Readers
<1>3. Correcting(s) \subseteq Readers
  BY <1>2 DEF Correcting, At, LookupLabels
<1>4. IsFiniteSet(Correcting(s)) /\ Cardinality(Correcting(s)) \in Nat
  BY CountBounds
<1>5. ASSUME NEW t \in Readers \ Correcting(s)
      PROVE  Cardinality(Correcting(s)) + 1 <= Cardinality(Readers)
  <2>1. Correcting(s) \cup {t} \subseteq Readers
    BY <1>3
  <2>2. Cardinality(Correcting(s) \cup {t}) = Cardinality(Correcting(s)) + 1
    BY <1>4, <1>5, FS_AddElement
  <2> QED
    BY <1>1, <2>1, <2>2, FS_Subset
<1> QED
  BY <1>1, <1>2, <1>4, <1>5

LEMMA ReleaseKeeps ==
  ASSUME CInv, NEW t \in Threads, Release(t)
  PROVE  CInv'
<1> PICK s : s = held[t].slot
  OBVIOUS
<1> DEFINE f == frame[t]
           m == meta[s]
           w == Add(m, MetaMod - 1)
<1>1. f \in Frames /\ frame \in [Threads -> Frames] /\ f.pc = "idle" /\ held[t] # None
  BY Actor DEF Release, At
<1>2. s \in Slots /\ s \in Stored /\ t \in Holders(s)
  BY <1>1, HolderStored
<1>3. FrameMove(t, f)
  BY <1>1 DEF FrameMove, Release, CInv, StateType
<1>4. held' = [held EXCEPT ![t] = None] /\ UNCHANGED <<entry, todo>> /\ meta' = [meta EXCEPT ![s] = w]
  BY DEF Release, RefDecr, SetMeta
<1>5. /\ held' \in [Threads -> HeldHandles \cup {None}] /\ held'[t] = None
      /\ \A u \in Threads \ {t} : held'[u] = held[u]
  BY <1>4 DEF CInv, StateType
<1>6. HandleInv(t)' /\ \A x \in Slots : t \notin Holders(x)'
  BY <1>5 DEF HandleInv, Holders
<1>7. \A x \in Slots \ {s} : t \notin Holders(x)
  BY DEF Holders
<1>8. LocalInv(t, f, todo'[t], held'[t])
  BY <1>4, <1>1, Actor DEF LocalInv, LookupLabels
<1>9. ~Owner(f) /\ Attached(f, s)
  BY <1>1 DEF Owner, Attached, RefLabels
<1>10. /\ Differ(Holders(s), Holders(s)', t) /\ Differ(Probers(s), Probers(s)', t)
       /\ Differ(Correcting(s), Correcting(s)', t)
       /\ t \notin Correcting(s) /\ t \notin Correcting(s)'
       /\ t \notin Probers(s) /\ t \notin Probers(s)'
  BY <1>1, <1>2, <1>3, <1>5, MovedCounts DEF RefLabels
<1>11. m \in Words /\ SlotInv(s)
  BY <1>2 DEF CInv, StateType
<1>12. /\ RefCount(m) = Cardinality(Holders(s)) + Cardinality(Probers(s)) /\ HitBit(m) = 0
       /\ HitCount(m) <= MaxHitCount + Cardinality(Correcting(s))
       /\ HitCount(m) >= Cardinality(Readers) * Cardinality(Correcting(s))
       /\ State(m) \in {6, 7}
  BY <1>2, <1>11, StoredState DEF SlotInv, StoredInv
<1> HIDE DEF w, m
<1>13. RefCount(m) >= 1
  BY <1>2, <1>6, <1>10, <1>12 DEF Differ
<1>14. /\ w \in Words /\ State(w) = State(m) /\ HitBit(w) = HitBit(m)
       /\ HitCount(w) = HitCount(m) /\ RefCount(w) = RefCount(m) - 1
  BY <1>11, <1>13, RefDown DEF w
<1>15. /\ Cardinality(Holders(s)') = Cardinality(Holders(s)) - 1
       /\ Cardinality(Probers(s)') = Cardinality(Probers(s))
       /\ Cardinality(Correcting(s)') = Cardinality(Correcting(s))
  BY <1>2, <1>6, <1>10 DEF Differ
<1>16. RefCount(w) = Cardinality(Holders(s)') + Cardinality(Probers(s)')
  BY <1>10, <1>12, <1>14, <1>15 DEF Differ
<1> QED
  BY <1>2, <1>3, <1>4, <1>5, <1>6, <1>7, <1>8, <1>9, <1>12, <1>14, <1>15, <1>16, StoredMove

\* Lookup returns the handle: its reference goes from the call to the client.
LEMMA HoldKeeps ==
  ASSUME CInv, NEW t \in Threads, NEW s \in Slots, NEW w \in Words, s = Cur(t),
         frame[t].pc \in {"lookupMatch", "lookupHitDecr"},
         Return(t), Hold(t), meta' = [meta EXCEPT ![s] = w],
         UNCHANGED <<entry, displacements, occupancy, usage, clock_pointer,
                     hit_decr_delta, todo, alive>>,
         State(w) = State(meta[s]), HitBit(w) = HitBit(meta[s]), RefCount(w) = RefCount(meta[s]),
         HitCount(w) <= MaxHitCount + Cardinality(Correcting(s) \ {t}),
         HitCount(w) >= Cardinality(Readers) * Cardinality(Correcting(s) \ {t})
  PROVE  CInv'
<1> DEFINE f == frame[t]
           m == meta[s]
           hd == [slot |-> s, e |-> entry[s]]
<1>1. f \in Frames /\ frame \in [Threads -> Frames] /\ held[t] = None
  BY Actor DEF LocalInv, LookupLabels
<1>2. s \in Stored /\ t \in Probers(s) /\ entry[s] \in Entries
  BY ProberStored DEF RefLabels, CInv, StateType
<1>3. FrameMove(t, Idle)
  BY IdleFrame DEF FrameMove, Return, CInv, StateType
<1>4. hd \in HeldHandles /\ hd # None
  <2>1. hd \in [slot : 0 .. Length - 1, e : Entries]
    BY <1>2 DEF Slots
  <2> QED
    BY <2>1, ClientAssumption DEF HeldHandles, Slots
<1>5. /\ held' \in [Threads -> HeldHandles \cup {None}] /\ held'[t] = hd
      /\ \A u \in Threads \ {t} : held'[u] = held[u]
  <2>1. held' = [held EXCEPT ![t] = hd]
    BY DEF Hold
  <2> HIDE DEF hd
  <2> QED
    BY <1>4, <2>1 DEF CInv, StateType
<1>6. HandleInv(t)' /\ t \in Holders(s)' /\ \A x \in Slots \ {s} : t \notin Holders(x)'
  BY <1>4, <1>5 DEF HandleInv, Holders
<1>7. \A x \in Slots : t \notin Holders(x)
  BY <1>1 DEF Holders
<1>8. LocalInv(t, Idle, todo'[t], held'[t])
  BY Actor, Returns
<1>9. ~Owner(Idle) /\ Attached(Idle, s) /\ Attached(f, s)
  BY DEF Owner, Attached, RefLabels, Idle, Cur
<1>10. /\ Differ(Holders(s), Holders(s)', t) /\ Differ(Probers(s), Probers(s)', t)
       /\ t \notin Correcting(s)' /\ t \notin Probers(s)'
  BY <1>3, <1>5, MovedCounts DEF RefLabels, Idle
<1>11. Correcting(s)' = Correcting(s) \ {t}
  <2>1. StepOf(t)
    BY <1>3, <1>5, MovedCounts
  <2> QED
    BY <1>10, <2>1, StepCounts
<1>12. /\ RefCount(m) = Cardinality(Holders(s)) + Cardinality(Probers(s)) /\ HitBit(m) = 0
       /\ State(m) \in {6, 7}
  BY <1>2, StoredState DEF CInv, SlotInv, StoredInv
<1> HIDE DEF m
<1>13. RefCount(w) = Cardinality(Holders(s)') + Cardinality(Probers(s)')
  <2>1. /\ Cardinality(Holders(s)') = Cardinality(Holders(s)) + 1
        /\ Cardinality(Probers(s)') = Cardinality(Probers(s)) - 1
    BY <1>2, <1>6, <1>7, <1>10 DEF Differ
  <2> QED
    BY <1>10, <1>12, <2>1 DEF Differ, m
<1>14. /\ HitCount(w) <= MaxHitCount + Cardinality(Correcting(s)')
       /\ HitCount(w) >= Cardinality(Readers) * Cardinality(Correcting(s)')
  BY <1>11
<1>15. State(w) \in {6, 7} /\ HitBit(w) = 0
  BY <1>12 DEF m
<1> QED
  BY <1>2, <1>3, <1>5, <1>6, <1>7, <1>8, <1>9, <1>13, <1>14, <1>15, StoredMove

\* What the slot of a lookup that found its key counts.
LEMMA HitFacts ==
  ASSUME CInv, CountersWide, NEW t \in Threads, NEW s \in Slots, s = Cur(t),
         frame[t].pc \in {"lookupMatch", "lookupHitDecr"}
  PROVE  /\ meta[s] \in Words /\ s \in Stored /\ t \in Probers(s) /\ t \in Readers
         /\ HitCount(meta[s]) \in Nat /\ Cardinality(Readers) \in Nat
         /\ Cardinality(Correcting(s)) \in Nat /\ IsFiniteSet(Correcting(s))
         /\ MaxHitCount \in Nat /\ CounterMod \in Nat
         /\ MaxHitCount + Cardinality(Readers) < CounterMod
         /\ Cardinality(Readers) * Cardinality(Readers) <= MaxHitCount + 1
         /\ HitCount(meta[s]) <= MaxHitCount + Cardinality(Correcting(s))
         /\ HitCount(meta[s]) >= Cardinality(Readers) * Cardinality(Correcting(s))
         /\ t \notin Correcting(s) => Cardinality(Correcting(s)) + 1 <= Cardinality(Readers)
<1>1. meta[s] \in Words /\ s \in Stored /\ t \in Probers(s)
  BY ProberStored DEF RefLabels, CInv, StateType
<1>2. HitCount(meta[s]) \in Nat
  BY <1>1, WordFields, CounterAssumption
<1>3. t \in Readers
  BY ReaderCounts DEF LookupLabels
<1>4. MaxHitCount \in Nat /\ CounterMod \in Nat
  BY CounterAssumption
<1>5. /\ HitCount(meta[s]) <= MaxHitCount + Cardinality(Correcting(s))
      /\ HitCount(meta[s]) >= Cardinality(Readers) * Cardinality(Correcting(s))
  BY <1>1 DEF CInv, SlotInv, StoredInv
<1> QED
  BY <1>1, <1>2, <1>3, <1>4, <1>5, ReaderCounts, CountBounds DEF CountersWide

LEMMA LookupMatchKeeps ==
  ASSUME CInv, CountersWide, NEW t \in Threads, LookupMatch(t)
  PROVE  CInv'
<1>1. frame[t] \in Frames /\ frame \in [Threads -> Frames] /\ frame[t].pc = "lookupMatch"
  BY Actor DEF LookupMatch, At
<1> PICK s \in Slots : s = Cur(t)
  BY <1>1 DEF Cur, Frames
<1> DEFINE f == frame[t]
           m == meta[s]
           w == Add(m, HitIncrement)
           h == HitCount(m)
           r == Cardinality(Readers)
           c == Cardinality(Correcting(s))
<1>2. /\ m \in Words /\ s \in Stored /\ t \in Probers(s)
      /\ h \in Nat /\ r \in Nat /\ c \in Nat /\ IsFiniteSet(Correcting(s))
      /\ MaxHitCount \in Nat /\ CounterMod \in Nat
      /\ MaxHitCount + r < CounterMod
      /\ r * r <= MaxHitCount + 1
      /\ h <= MaxHitCount + c /\ h >= r * c
  BY <1>1, HitFacts
<1>3. t \notin Correcting(s) /\ c + 1 <= r
  BY <1>1, HitFacts DEF Correcting, At
<1>4. meta' = [meta EXCEPT ![s] = w]
  BY DEF LookupMatch, SetMeta
<1>5. /\ w \in Words /\ State(w) = State(m) /\ HitBit(w) = HitBit(m)
      /\ HitCount(w) = h + 1 /\ RefCount(w) = RefCount(m)
  <2>1. h + 1 < CounterMod
    <3> HIDE DEF h, r, c
    <3> QED
      BY <1>2, <1>3
  <2> QED
    BY <1>2, <2>1, HitUp
<1>6. UNCHANGED <<entry, displacements, occupancy, usage, clock_pointer,
                  hit_decr_delta, todo, alive>>
  BY DEF LookupMatch
<1>7. CASE h + 1 - MaxHitCount <= 0 /\ Return(t) /\ Hold(t)
  <2>1. Correcting(s) \ {t} = Correcting(s)
    BY <1>3
  <2>2. h + 1 <= MaxHitCount + c /\ h + 1 >= r * c
    <3>1. r * c \in Nat
      BY <1>2
    <3> HIDE DEF h, r, c
    <3> QED
      BY <1>2, <1>7, <3>1
  <2> QED
    BY <1>1, <1>4, <1>5, <1>6, <1>7, <2>1, <2>2, HoldKeeps
<1>8. CASE /\ h + 1 - MaxHitCount > 0 /\ UNCHANGED held
           /\ frame' = [frame EXCEPT ![t].amount = h + 1 - MaxHitCount, ![t].pc = "lookupHitDecr"]
  <2> DEFINE a == h + 1 - MaxHitCount
             g == [f EXCEPT !.amount = a, !.pc = "lookupHitDecr"]
  <2>1. a \in Nat /\ a \in 1 .. r
    <3> HIDE DEF h, r, c
    <3> QED
      BY <1>2, <1>3, <1>8
  <2>2. frame' = [frame EXCEPT ![t].amount = a, ![t].pc = "lookupHitDecr"]
    BY <1>8
  <2> HIDE DEF a
  <2>3. frame' = [frame EXCEPT ![t] = g]
    BY <1>1, <2>2
  <2>4. g \in Frames /\ g.pc = "lookupHitDecr" /\ g.cur = f.cur /\ g.call = f.call /\ g.amount = a
    BY <1>1, <2>1 DEF Frames, Labels
  <2> HIDE DEF g
  <2>5. FrameMove(t, g)
    BY <1>6, <2>3, <2>4 DEF FrameMove, CInv, StateType
  <2>6. LocalInv(t, g, todo'[t], held'[t])
    BY <1>1, <1>6, <1>8, <2>1, <2>4, Actor DEF LocalInv, LookupLabels
  <2>7. ~Owner(g) /\ Attached(g, s) /\ Attached(f, s)
    BY <1>1, <2>4 DEF Owner, Attached, RefLabels, Cur
  <2>8. /\ HandleInv(t)' /\ held' \in [Threads -> HeldHandles \cup {None}]
        /\ \A x \in Slots : t \in Holders(x)' <=> t \in Holders(x)
    BY <1>6, <1>8 DEF CInv, HandleInv, StateType, Holders
  <2>9. /\ Differ(Holders(s), Holders(s)', t) /\ Differ(Probers(s), Probers(s)', t)
        /\ Differ(Correcting(s), Correcting(s)', t)
        /\ t \in Correcting(s)' /\ t \in Probers(s)'
    BY <1>8, <2>4, <2>5, MovedCounts DEF RefLabels, Cur
  <2>10. /\ Cardinality(Holders(s)') = Cardinality(Holders(s))
         /\ Cardinality(Probers(s)') = Cardinality(Probers(s))
         /\ Cardinality(Correcting(s)') = c + 1
    BY <1>2, <1>3, <2>8, <2>9 DEF Differ
  <2>11. /\ RefCount(m) = Cardinality(Holders(s)) + Cardinality(Probers(s)) /\ HitBit(m) = 0
         /\ State(m) \in {6, 7}
    BY <1>2, StoredState DEF CInv, SlotInv, StoredInv
  <2>12. h + 1 <= MaxHitCount + (c + 1) /\ h + 1 >= r * (c + 1)
    <3> HIDE DEF h, r, c
    <3>1. r * (c + 1) <= r * r
      BY <1>2, <1>3
    <3> QED
      BY <1>2, <1>8, <3>1
  <2>13. /\ RefCount(w) = Cardinality(Holders(s)') + Cardinality(Probers(s)')
         /\ HitCount(w) <= MaxHitCount + Cardinality(Correcting(s)')
         /\ HitCount(w) >= Cardinality(Readers) * Cardinality(Correcting(s)')
         /\ State(w) \in {6, 7} /\ HitBit(w) = 0
    BY <1>5, <2>10, <2>11, <2>12
  <2> QED
    BY <1>2, <1>4, <1>5, <1>6, <1>8, <2>5, <2>6, <2>7, <2>8, <2>13, StoredMove
<1> QED
  BY <1>7, <1>8 DEF LookupMatch

LEMMA LookupHitDecrKeeps ==
  ASSUME CInv, CountersWide, NEW t \in Threads, LookupHitDecr(t)
  PROVE  CInv'
<1>1. frame[t] \in Frames /\ frame[t].pc = "lookupHitDecr" /\ Return(t) /\ Hold(t)
  BY Actor DEF LookupHitDecr, At
<1> PICK s \in Slots : s = Cur(t)
  BY <1>1 DEF Cur, Frames
<1> DEFINE m == meta[s]
           a == frame[t].amount
           w == Add(m, MetaMod - a * HitIncrement)
           h == HitCount(m)
           r == Cardinality(Readers)
           c == Cardinality(Correcting(s))
           d == Cardinality(Correcting(s) \ {t})
<1>2. /\ m \in Words /\ h \in Nat /\ r \in Nat /\ c \in Nat /\ IsFiniteSet(Correcting(s))
      /\ MaxHitCount \in Nat /\ h <= MaxHitCount + c /\ h >= r * c
  BY <1>1, HitFacts
<1>3. t \in Correcting(s)
  BY <1>1 DEF Correcting, At
<1>4. d \in Nat /\ c = d + 1
  <2>1. IsFiniteSet(Correcting(s) \ {t}) /\ d = c - 1
    BY <1>2, <1>3, FS_RemoveElement
  <2>2. d \in Nat
    BY <2>1, FS_CardinalityType
  <2> QED
    BY <1>2, <2>1, <2>2
<1>5. a \in 1 .. r
  BY <1>1, Actor DEF LocalInv
<1> HIDE DEF a, h, r, c, d
<1>6. r * c = r * d + r /\ r * d \in Nat
  BY <1>2, <1>4
<1>7. a \in Nat /\ a <= h /\ h - a <= MaxHitCount + d /\ h - a >= r * d
  BY <1>2, <1>4, <1>5, <1>6
<1>8. /\ w \in Words /\ State(w) = State(m) /\ HitBit(w) = HitBit(m)
      /\ HitCount(w) = h - a /\ RefCount(w) = RefCount(m)
  BY <1>2, <1>7, HitDown DEF h
<1>9. meta' = [meta EXCEPT ![s] = w]
  BY DEF LookupHitDecr, SetMeta, a
<1>10. /\ HitCount(w) <= MaxHitCount + Cardinality(Correcting(s) \ {t})
       /\ HitCount(w) >= Cardinality(Readers) * Cardinality(Correcting(s) \ {t})
  BY <1>7, <1>8 DEF r, d
<1>11. UNCHANGED <<entry, displacements, occupancy, usage, clock_pointer,
                   hit_decr_delta, todo, alive>>
  BY DEF LookupHitDecr
<1> HIDE DEF w
<1> QED
  BY <1>1, <1>8, <1>9, <1>10, <1>11, HoldKeeps

-----------------------------------------------------------------------------
(***************************************************************************)
(* The state of a slot.                                                    *)
(***************************************************************************)
LEMMA EraseMatchKeeps ==
  ASSUME CInv, NEW t \in Threads, EraseMatch(t)
  PROVE  CInv'
<1>1. frame[t] \in Frames /\ frame \in [Threads -> Frames] /\ frame[t].pc = "eraseMatch" /\ OnlyMeta
  BY Actor DEF EraseMatch, At
<1> PICK s \in Slots : s = Cur(t)
  BY <1>1 DEF Cur, Frames
<1> DEFINE f == frame[t]
           m == meta[s]
           w == ClearVisible(m)
           g == [f EXCEPT !.found = TRUE, !.m = w, !.pc = "eraseOwn"]
<1>2. m \in Words /\ s \in Stored /\ t \in Probers(s)
  BY <1>1, ProberStored DEF RefLabels, CInv, StateType
<1>3. /\ RefCount(m) = Cardinality(Holders(s)) + Cardinality(Probers(s)) /\ HitBit(m) = 0
      /\ HitCount(m) <= MaxHitCount + Cardinality(Correcting(s))
      /\ HitCount(m) >= Cardinality(Readers) * Cardinality(Correcting(s))
      /\ State(m) \in {6, 7}
  BY <1>2, StoredState DEF CInv, SlotInv, StoredInv
<1>4. meta' = [meta EXCEPT ![s] = w]
  BY DEF EraseMatch, SetMeta
<1>5. frame' = [frame EXCEPT ![t].found = TRUE, ![t].m = w, ![t].pc = "eraseOwn"]
  BY DEF EraseMatch
<1>6. /\ w \in Words /\ State(w) = 6 /\ HitBit(w) = HitBit(m)
      /\ HitCount(w) = HitCount(m) /\ RefCount(w) = RefCount(m)
  BY <1>2, <1>3, Unseen
<1> HIDE DEF w
<1>7. frame' = [frame EXCEPT ![t] = g]
  BY <1>1, <1>5
<1>8. g \in Frames /\ g.pc = "eraseOwn" /\ g.cur = f.cur /\ g.call = f.call
  BY <1>1, <1>6 DEF Frames, Labels
<1> HIDE DEF g
<1>9. FrameMove(t, g)
  BY <1>1, <1>7, <1>8 DEF FrameMove, OnlyMeta, CInv, StateType
<1>10. LocalInv(t, g, todo'[t], held'[t])
  BY <1>1, <1>8, Actor, PlainLocal DEF LookupLabels, OnlyMeta
<1>11. ~Owner(g) /\ Attached(g, s) /\ Attached(f, s)
  BY <1>1, <1>8 DEF Owner, Attached, RefLabels, Cur
<1>12. /\ HandleInv(t)' /\ held' \in [Threads -> HeldHandles \cup {None}] /\ held' = held
       /\ \A x \in Slots : t \in Holders(x)' <=> t \in Holders(x)
  BY <1>1 DEF CInv, HandleInv, StateType, Holders, OnlyMeta
<1>13. /\ Differ(Holders(s), Holders(s)', t) /\ Differ(Probers(s), Probers(s)', t)
       /\ Differ(Correcting(s), Correcting(s)', t)
       /\ t \notin Correcting(s) /\ t \notin Correcting(s)' /\ t \in Probers(s)'
  BY <1>1, <1>8, <1>9, <1>12, MovedCounts DEF RefLabels, Cur
<1>14. /\ Cardinality(Holders(s)') = Cardinality(Holders(s))
       /\ Cardinality(Probers(s)') = Cardinality(Probers(s))
       /\ Cardinality(Correcting(s)') = Cardinality(Correcting(s))
  BY <1>2, <1>12, <1>13 DEF Differ
<1> QED
  BY <1>1, <1>2, <1>3, <1>4, <1>6, <1>9, <1>10, <1>11, <1>12, <1>14, StoredMove DEF OnlyMeta

\* Nobody refers to an entry whose reference counter is zero.
LEMMA Unreferred ==
  ASSUME CInv, NEW s \in Slots, s \in Stored, RefCount(meta[s]) = 0
  PROVE  Holders(s) = {} /\ Probers(s) = {} /\ Correcting(s) = {}
<1>1. RefCount(meta[s]) = Cardinality(Holders(s)) + Cardinality(Probers(s))
  BY DEF CInv, SlotInv, StoredInv
<1>2. /\ IsFiniteSet(Holders(s)) /\ Cardinality(Holders(s)) \in Nat
      /\ IsFiniteSet(Probers(s)) /\ Cardinality(Probers(s)) \in Nat
  BY CountBounds
<1>3. Cardinality(Holders(s)) = 0 /\ Cardinality(Probers(s)) = 0
  BY <1>1, <1>2
<1>4. Holders(s) = {} /\ Probers(s) = {}
  BY <1>2, <1>3, FS_EmptySet
<1>5. Correcting(s) \subseteq Probers(s)
  BY DEF Correcting, Probers, At, RefLabels
<1> QED
  BY <1>4, <1>5

\* The slot of a word that Evict took for an entry.
LEMMA TakenStored ==
  ASSUME CInv, NEW t \in Threads, frame[t].pc \in {"clockAge", "clockTake"},
         meta[ClockSlot(t)] = frame[t].m
  PROVE  ClockSlot(t) \in Slots /\ ClockSlot(t) \in Stored
<1> PICK s \in Slots : s = ClockSlot(t)
  BY ClockSlots
<1>1. IsShareable(meta[s])
  BY Actor DEF LocalInv
<1>2. State(meta[s]) \in {0, 4, 6, 7}
  BY DEF CInv, SlotInv, StateEmpty, StateConstruction, StateInvisible, StateVisible
<1>3. State(meta[s]) \in {6, 7}
  BY <1>1, <1>2 DEF IsShareable
<1> QED
  BY <1>3, StoredState

\* Its hit bit is clear, so what the two CASes install has a clear one too.
LEMMA TakenWord ==
  ASSUME CInv, NEW t \in Threads, frame[t].pc \in {"clockAge", "clockTake"},
         meta[ClockSlot(t)] = frame[t].m, NEW st \in 0 .. 7, NEW h \in 0 .. CounterMod - 1
  PROVE  MetaAfter(frame[t].m, st, h) = Meta(st, h)
<1>1. HitBit(frame[t].m) = 0
  BY TakenStored DEF CInv, SlotInv, StoredInv
<1>2. Meta(st, h) \in Nat
  BY MetaFields DEF Words
<1>3. 0 * (CounterMod * CounterMod) = 0
  BY Products
<1> QED
  BY <1>1, <1>2, <1>3 DEF MetaAfter

LEMMA AgedWord ==
  ASSUME CInv, NEW t \in Threads, ClockAge(t), meta[ClockSlot(t)] = frame[t].m
  PROVE  SetMeta(ClockSlot(t),
                 Meta(StateVisible, Max({HitCount(frame[t].m) - frame[t].delta, 0})))
<1> PICK h : h = Max({HitCount(frame[t].m) - frame[t].delta, 0})
  OBVIOUS
<1>1. frame[t].pc = "clockAge" /\ SetMeta(ClockSlot(t), MetaAfter(frame[t].m, StateVisible, h))
  BY DEF ClockAge, At
<1>2. h \in 0 .. CounterMod - 1
  <2>1. frame[t].m \in Words /\ frame[t].delta \in Nat
    BY Actor DEF Frames
  <2>2. HitCount(frame[t].m) \in 0 .. CounterMod - 1
    BY <2>1, WordFields
  <2>3. HitCount(frame[t].m) - frame[t].delta \in Int /\ 0 \in Int
    BY <2>1, <2>2
  <2>4. h \in {HitCount(frame[t].m) - frame[t].delta, 0} /\ h >= 0
    BY <2>3, MaxMin
  <2>5. CounterMod \in Nat \ {0}
    BY CounterAssumption
  <2> QED
    BY <2>1, <2>2, <2>4, <2>5
<1>3. StateVisible \in 0 .. 7
  BY DEF StateVisible
<1>4. MetaAfter(frame[t].m, StateVisible, h) = Meta(StateVisible, h)
  BY <1>1, <1>2, <1>3, TakenWord
<1> QED
  BY <1>1, <1>4

\* ClockTake with the word it installs worked out.
LEMMA TakeOutcome ==
  ASSUME CInv, NEW t \in Threads, ClockTake(t)
  PROVE  \/ /\ meta[ClockSlot(t)] = frame[t].m
            /\ SetMeta(ClockSlot(t), Meta(StateConstruction, 0))
            /\ frame' = [frame EXCEPT
                   ![t] = RollbackTo([frame[t] EXCEPT !.freed = @ + entry[ClockSlot(t)].charge,
                                                      !.count = @ + 1, !.m = 0],
                                     entry[ClockSlot(t)].key, ClockSlot(t), "evictFree")]
         \/ /\ frame' = [frame EXCEPT ![t].i = @ + 1, ![t].m = 0, ![t].pc = "clockLoad"]
            /\ UNCHANGED meta
<1>1. frame[t].pc = "clockTake" /\ StateConstruction \in 0 .. 7 /\ 0 \in 0 .. CounterMod - 1
  BY CounterAssumption DEF ClockTake, At, StateConstruction
<1>2. meta[ClockSlot(t)] = frame[t].m
        => MetaAfter(frame[t].m, StateConstruction, 0) = Meta(StateConstruction, 0)
  BY <1>1, TakenWord
<1> QED
  BY <1>2, Zenon DEF ClockTake, SetMeta

LEMMA ClockAgeKeeps ==
  ASSUME CInv, NEW t \in Threads, ClockAge(t)
  PROVE  CInv'
<1>1. frame[t] \in Frames /\ frame \in [Threads -> Frames] /\ frame[t].pc = "clockAge" /\ OnlyMeta
  BY Actor DEF ClockAge, At
<1>2. frame' = [frame EXCEPT ![t].i = @ + 1, ![t].m = 0, ![t].pc = "clockLoad"]
  BY DEF ClockAge
<1>3. CASE UNCHANGED meta
  BY <1>1, <1>2, <1>3, ClockMissKeeps
<1>4. CASE /\ meta[ClockSlot(t)] = frame[t].m
           /\ SetMeta(ClockSlot(t),
                      Meta(StateVisible, Max({HitCount(frame[t].m) - frame[t].delta, 0})))
  <2> PICK s \in Slots : s = ClockSlot(t)
    BY ClockSlots
  <2> DEFINE f == frame[t]
             m == meta[s]
             h == Max({HitCount(m) - f.delta, 0})
             w == Meta(7, h)
             g == [f EXCEPT !.i = @ + 1, !.m = 0, !.pc = "clockLoad"]
  <2>1. m \in Words /\ State(m) = 7 /\ RefCount(m) = 0
    BY <1>1, <1>4, Actor DEF LocalInv, StateVisible, CInv, StateType
  <2>2. s \in Stored
    BY <2>1, StoredState
  <2>3. Holders(s) = {} /\ Probers(s) = {} /\ Correcting(s) = {}
    BY <2>1, <2>2, Unreferred
  <2>4. HitCount(m) \in Nat /\ HitCount(m) <= MaxHitCount /\ MaxHitCount \in 0 .. CounterMod - 1
    <3>1. HitCount(m) <= MaxHitCount + Cardinality(Correcting(s))
      BY <2>2 DEF CInv, SlotInv, StoredInv
    <3>2. Cardinality(Correcting(s)) = 0
      BY <2>3, FS_EmptySet
    <3>3. HitCount(m) \in Nat /\ MaxHitCount \in 0 .. CounterMod - 1
      BY <2>1, WordFields, CounterAssumption
    <3> QED
      BY <3>1, <3>2, <3>3
  <2>5. h \in Nat /\ h <= MaxHitCount /\ h \in 0 .. CounterMod - 1
    <3>1. f.delta \in Nat
      BY <1>1 DEF Frames
    <3>2. HitCount(m) - f.delta \in Int /\ 0 \in Int /\ HitCount(m) - f.delta <= MaxHitCount
      BY <2>4, <3>1
    <3>3. h \in {HitCount(m) - f.delta, 0} /\ h >= 0
      BY <3>2, MaxMin
    <3> HIDE DEF h
    <3> QED
      BY <2>4, <3>2, <3>3, CounterAssumption
  <2>6. meta' = [meta EXCEPT ![s] = w]
    BY <1>4 DEF SetMeta, StateVisible
  <2> HIDE DEF h
  <2>7. w \in Words /\ State(w) = 7 /\ HitBit(w) = 0 /\ HitCount(w) = h /\ RefCount(w) = 0
    BY <2>5, MetaFields
  <2> HIDE DEF w
  <2>8. frame' = [frame EXCEPT ![t] = g]
    BY <1>1, <1>2
  <2>9. g \in Frames /\ g.call = f.call /\ g.pc = "clockLoad"
    <3>1. f.i + 1 \in Nat /\ 0 \in Words /\ "clockLoad" \in Labels
      BY <1>1, SlotFacts DEF Frames, Labels, EvictLabels
    <3> QED
      BY <1>1, <3>1 DEF Frames
  <2> HIDE DEF g
  <2>10. FrameMove(t, g)
    BY <1>1, <2>8, <2>9 DEF FrameMove, OnlyMeta, CInv, StateType
  <2>11. LocalInv(t, g, todo'[t], held'[t])
    BY <1>1, <2>9, Actor, PlainLocal DEF LookupLabels, OnlyMeta
  <2>12. ~Owner(g) /\ Attached(g, s) /\ Attached(f, s)
    BY <1>1, <2>9 DEF Owner, Attached, RefLabels
  <2>13. /\ HandleInv(t)' /\ held' \in [Threads -> HeldHandles \cup {None}] /\ held' = held
         /\ \A x \in Slots : t \in Holders(x)' <=> t \in Holders(x)
    BY <1>1 DEF CInv, HandleInv, StateType, Holders, OnlyMeta
  <2>14. /\ Differ(Holders(s), Holders(s)', t) /\ Differ(Probers(s), Probers(s)', t)
         /\ Differ(Correcting(s), Correcting(s)', t)
         /\ t \notin Correcting(s)' /\ t \notin Probers(s)'
    BY <2>9, <2>10, <2>13, MovedCounts DEF RefLabels
  <2>15. Holders(s)' = {} /\ Probers(s)' = {} /\ Correcting(s)' = {}
    BY <2>3, <2>13, <2>14 DEF Differ
  <2>16. /\ Cardinality(Holders(s)') = 0 /\ Cardinality(Probers(s)') = 0
         /\ Cardinality(Correcting(s)') = 0
    BY <2>15, FS_EmptySet
  <2>17. /\ RefCount(w) = Cardinality(Holders(s)') + Cardinality(Probers(s)')
         /\ HitCount(w) <= MaxHitCount + Cardinality(Correcting(s)')
         /\ HitCount(w) >= Cardinality(Readers) * Cardinality(Correcting(s)')
    BY <2>4, <2>5, <2>7, <2>16, ReaderCounts
  <2> QED
    BY <1>1, <2>2, <2>6, <2>7, <2>10, <2>11, <2>12, <2>13, <2>17, StoredMove DEF OnlyMeta
<1> QED
  BY <1>3, <1>4, AgedWord DEF ClockAge

\* A call takes a slot that nobody refers to, but for Erases about to leave.
LEMMA TakeSlot ==
  ASSUME CInv, NEW t \in Threads, NEW g, NEW s \in Slots, NEW w \in Words,
         FrameMove(t, g), Attached(frame[t], s), Attached(g, s), Owner(g),
         meta' = [meta EXCEPT ![s] = w], State(w) = 4, State(meta[s]) # 4,
         UNCHANGED <<entry, held>>,
         LocalInv(t, g, todo'[t], held[t]),
         g.pc \in {"rollback", "evictFree"} => entry[s].key \in Keys,
         Holders(s) = {},
         \A u \in Probers(s) \ {t} : At(u, "eraseUnref"),
         Low(w) >= Cardinality(Probers(s) \ {t})
  PROVE  CInv'
<1>1. meta'[s] = w
  BY DEF CInv, StateType
<1>2. s \notin Stored'
  BY <1>1 DEF Stored, StateInvisible, StateVisible
<1>3. frame'[t] = g /\ StepOf(t)
  BY FrameMoves DEF StepOf, FrameMove
<1>4. Holders(s)' = {}
  BY DEF Holders
<1>5. t \notin Probers(s)' /\ Probers(s)' = Probers(s) \ {t}
  <2>1. t \notin Probers(s)'
    BY <1>3 DEF Probers, Owner, RefLabels
  <2>2. Probers(s) \ {t} = Probers(s)' \ {t}
    BY <1>3, StepCounts
  <2> QED
    BY <2>1, <2>2
<1>6. ASSUME NEW u \in Probers(s)'
      PROVE  At(u, "eraseUnref")'
  <2>1. u \in Threads \ {t} /\ u \in Probers(s) \ {t}
    BY <1>5 DEF Probers
  <2> QED
    BY <1>3, <2>1 DEF StepOf, At
<1>7. VacantInv(s)'
  BY <1>1, <1>4, <1>5, <1>6 DEF VacantInv
<1>8. Owns(t, s)'
  BY <1>3 DEF Owns, Owner, Attached, At, Cur, ClockSlot
<1>9. SlotInv(s)'
  BY <1>1, <1>2, <1>7, <1>8 DEF SlotInv, StateConstruction
<1>10. HandleInv(t)' /\ entry' \in [Slots -> Entries] /\ held' \in [Threads -> HeldHandles \cup {None}]
  BY DEF CInv, HandleInv, StateType
<1>11. \A x \in Slots : t \in Holders(x)' <=> t \in Holders(x)
  BY DEF Holders
<1>12. StateConstruction = 4
  BY DEF StateConstruction
<1> QED
  BY <1>9, <1>10, <1>11, <1>12, SlotStep

\* An owner has the slot to itself, if no Erase is about to leave it.
LEMMA OwnerAlone ==
  ASSUME CInv, NoEraseRace, NEW t \in Threads, NEW s \in Slots, Owns(t, s)
  PROVE  /\ State(meta[s]) = 4 /\ s \notin Stored
         /\ Holders(s) = {} /\ Probers(s) = {}
         /\ \A u \in Threads : Owns(u, s) => u = t
         /\ frame[t].pc \in {"rollback", "evictFree"} => entry[s].key \in Keys
<1>1. /\ State(meta[s]) = 4
      /\ \A u \in Threads : Owns(u, s) => u = t
      /\ frame[t].pc \in {"rollback", "evictFree"} => entry[s].key \in Keys
  BY DEF CInv, OwnerInv, StateConstruction
<1>2. s \notin Stored
  BY <1>1, StoredState
<1>3. VacantInv(s)
  BY <1>2 DEF CInv, SlotInv
<1>4. ASSUME NEW u \in Probers(s)
      PROVE  FALSE
  <2>1. u \in Threads /\ At(u, "eraseUnref") /\ Cur(u) = s
    BY <1>3, <1>4 DEF VacantInv, Probers
  <2>2. u # t
    BY <2>1 DEF At, Owns
  <2> QED
    BY <2>1, <2>2 DEF NoEraseRace
<1> QED
  BY <1>1, <1>2, <1>3, <1>4 DEF VacantInv

\* An owner empties its slot.
LEMMA GiveSlot ==
  ASSUME CInv, NoEraseRace, NEW t \in Threads, NEW g, NEW s \in Slots,
         FrameMove(t, g), Attached(frame[t], s), Detached(g), Owns(t, s),
         FreeDataMarkEmpty(s), UNCHANGED held,
         LocalInv(t, g, todo'[t], held[t])
  PROVE  CInv'
<1> DEFINE w == Meta(0, 0)
           e == [entry[s] EXCEPT !.val = None]
<1>1. meta' = [meta EXCEPT ![s] = w]
  BY DEF FreeDataMarkEmpty, SetMeta, StateEmpty
<1>2. w \in Words /\ State(w) = 0 /\ Low(w) = 0
  BY MetaFields, EmptyMeta, CounterAssumption
<1> HIDE DEF w
<1>3. meta'[s] = w
  BY <1>1 DEF CInv, StateType
<1>4. s \notin Stored'
  BY <1>2, <1>3 DEF Stored, StateInvisible, StateVisible
<1>5. frame'[t] = g /\ StepOf(t)
  BY FrameMoves DEF StepOf, FrameMove
<1>6. Holders(s) = {} /\ Probers(s) = {} /\ State(meta[s]) = 4
  BY OwnerAlone
<1>7. Holders(s)' = {}
  BY <1>6 DEF Holders
<1>8. Probers(s)' = {}
  <2>1. t \notin Probers(s)'
    BY <1>5 DEF Detached, Probers
  <2>2. Probers(s) \ {t} = Probers(s)' \ {t}
    BY <1>5, StepCounts
  <2> QED
    BY <1>6, <2>1, <2>2
<1>9. VacantInv(s)'
  <2>1. Cardinality(Probers(s)') = 0
    BY <1>8, FS_EmptySet
  <2> QED
    BY <1>2, <1>3, <1>7, <1>8, <2>1 DEF VacantInv
<1>10. SlotInv(s)'
  BY <1>2, <1>3, <1>4, <1>9 DEF SlotInv, StateEmpty, StateConstruction
<1>11. /\ entry' \in [Slots -> Entries]
       /\ \A x \in Slots \ {s} : entry'[x] = entry[x]
  <2>1. entry \in [Slots -> Entries] /\ entry' = [entry EXCEPT ![s].val = None]
    BY DEF CInv, StateType, FreeDataMarkEmpty
  <2>2. [entry[s] EXCEPT !.val = None] \in Entries
    BY <2>1 DEF Entries
  <2> QED
    BY <2>1, <2>2
<1>12. \A u \in Threads : held[u] # None => held[u].slot # s /\ held[u].slot \in Slots
  BY <1>6, HolderStored DEF Holders
<1>13. HandleInv(t)'
  <2>1. HandleInv(t)
    BY DEF CInv
  <2> QED
    BY <1>11, <1>12, <2>1 DEF HandleInv
<1>14. held' \in [Threads -> HeldHandles \cup {None}]
  BY DEF CInv, StateType
<1>15. \A x \in Slots : t \in Holders(x)' <=> t \in Holders(x)
  BY DEF Holders
<1>16. ~Owns(t, s)' /\ Attached(g, s)
  BY <1>5 DEF Detached, Owns, At, Attached
<1> QED
  BY <1>1, <1>2, <1>10, <1>11, <1>13, <1>14, <1>15, <1>16, SlotStep

LEMMA EvictFreeKeeps ==
  ASSUME CInv, NoEraseRace, NEW t \in Threads, EvictFree(t)
  PROVE  CInv'
<1>1. frame[t] \in Frames /\ frame \in [Threads -> Frames] /\ frame[t].pc = "evictFree"
  BY Actor DEF EvictFree, At
<1> PICK s \in Slots : s = ClockSlot(t)
  BY ClockSlots
<1> DEFINE f == frame[t]
           g == [f EXCEPT !.i = @ + 1, !.pc = "clockLoad"]
<1>2. frame' = [frame EXCEPT ![t] = g]
  BY <1>1 DEF EvictFree
<1>3. g \in Frames /\ g.call = f.call /\ g.pc = "clockLoad"
  <2>1. f.i + 1 \in Nat /\ "clockLoad" \in Labels
    BY <1>1 DEF Frames, Labels, EvictLabels
  <2> QED
    BY <1>1, <2>1 DEF Frames
<1> HIDE DEF g
<1>4. FrameMove(t, g)
  BY <1>2, <1>3 DEF FrameMove, EvictFree, CInv, StateType
<1>5. LocalInv(t, g, todo'[t], held[t])
  BY <1>1, <1>3, Actor, PlainLocal DEF LookupLabels, EvictFree
<1>6. Attached(f, s) /\ Detached(g) /\ Owns(t, s)
  BY <1>1, <1>3 DEF Attached, Detached, Owns, At, ClockSlot, RefLabels
<1> QED
  BY <1>4, <1>5, <1>6, GiveSlot DEF EvictFree

LEMMA EraseFreeKeeps ==
  ASSUME CInv, NoEraseRace, NEW t \in Threads, EraseFree(t)
  PROVE  CInv'
<1>1. frame[t] \in Frames /\ frame \in [Threads -> Frames] /\ frame[t].pc = "eraseFree"
  BY Actor DEF EraseFree, At
<1> PICK s \in Slots : s = Cur(t)
  BY <1>1 DEF Cur, Frames
<1> DEFINE f == frame[t]
           c == entry[s].charge
           g == [f EXCEPT !.amount = c, !.succ = TRUE, !.pc = "eraseOccupancy"]
<1>2. c \in Nat
  BY DEF CInv, StateType, Entries
<1>3. frame' = [frame EXCEPT ![t] = g]
  BY <1>1 DEF EraseFree
<1> HIDE DEF c
<1>4. g \in Frames /\ g.call = f.call /\ g.pc = "eraseOccupancy"
  BY <1>1, <1>2 DEF Frames, Labels
<1> HIDE DEF g
<1>5. FrameMove(t, g)
  BY <1>3, <1>4 DEF FrameMove, EraseFree, CInv, StateType
<1>6. LocalInv(t, g, todo'[t], held[t])
  BY <1>1, <1>4, Actor, PlainLocal DEF LookupLabels, EraseFree
<1>7. Attached(f, s) /\ Detached(g) /\ Owns(t, s)
  BY <1>1, <1>4 DEF Attached, Detached, Owns, At, Cur, RefLabels
<1> QED
  BY <1>5, <1>6, <1>7, GiveSlot DEF EraseFree

LEMMA InsertFillKeeps ==
  ASSUME CInv, NoEraseRace, NEW t \in Threads, InsertFill(t)
  PROVE  CInv'
<1>1. frame[t] \in Frames /\ frame \in [Threads -> Frames] /\ frame[t].pc = "fill"
  BY Actor DEF InsertFill, At
<1> PICK s \in Slots : s = Cur(t)
  BY <1>1 DEF Cur, Frames
<1> DEFINE e == frame[t].call.h
           w == Meta(7, InitHitCount)
<1>2. e \in Handles /\ e \in Entries /\ e.key \in Keys
  <2>1. e \in Handles
    BY <1>1, Actor
  <2> QED
    BY <2>1 DEF Handles, Entries
<1>3. meta' = [meta EXCEPT ![s] = w] /\ entry' = [entry EXCEPT ![s] = e]
  BY DEF InsertFill, SetMeta, StateVisible
<1>4. /\ w \in Words /\ State(w) = 7 /\ HitBit(w) = 0 /\ HitCount(w) = InitHitCount
      /\ RefCount(w) = 0
  <2>1. InitHitCount \in 0 .. CounterMod - 1 /\ 7 \in 0 .. 7
    BY CounterAssumption
  <2> HIDE DEF e
  <2> QED
    BY <2>1, MetaFields, Zenon
<1> HIDE DEF w, e
<1>5. meta'[s] = w /\ entry'[s] = e
  BY <1>3 DEF CInv, StateType
<1>6. FrameMove(t, Idle)
  BY IdleFrame DEF FrameMove, InsertFill, Return, CInv, StateType
<1>7. frame'[t] = Idle /\ StepOf(t)
  BY <1>6, FrameMoves DEF StepOf, FrameMove, InsertFill
<1>8. Owns(t, s)
  BY <1>1 DEF Owns, At
<1>9. Holders(s) = {} /\ Probers(s) = {} /\ State(meta[s]) = 4
  BY <1>8, OwnerAlone
<1>10. Holders(s)' = {}
  BY <1>9 DEF Holders, InsertFill
<1>11. Probers(s)' = {} /\ Correcting(s)' = {}
  <2>1. t \notin Probers(s)'
    BY <1>7 DEF Idle, Probers, RefLabels
  <2>2. Probers(s) \ {t} = Probers(s)' \ {t}
    BY <1>7, StepCounts
  <2>3. Probers(s)' = {}
    BY <1>9, <2>1, <2>2
  <2> QED
    BY <2>3 DEF Correcting, Probers, At, RefLabels
<1>12. StoredInv(s)'
  <2>1. /\ Cardinality(Holders(s)') = 0 /\ Cardinality(Probers(s)') = 0
        /\ Cardinality(Correcting(s)') = 0
    BY <1>10, <1>11, FS_EmptySet
  <2>2. InitHitCount <= MaxHitCount /\ InitHitCount \in Nat /\ MaxHitCount \in Nat
    BY CounterAssumption
  <2>3. Cardinality(Readers) \in Nat
    BY ReaderCounts
  <2>4. Cardinality(Readers)' = Cardinality(Readers)
    BY DEF Readers
  <2> QED
    BY <1>2, <1>4, <1>5, <2>1, <2>2, <2>3, <2>4 DEF StoredInv
<1>13. SlotInv(s)'
  <2>1. s \in Stored'
    BY <1>4, <1>5 DEF Stored, StateVisible
  <2> QED
    BY <1>4, <1>5, <1>12, <2>1 DEF SlotInv, StateVisible, StateConstruction
<1>14. /\ entry' \in [Slots -> Entries]
       /\ \A x \in Slots \ {s} : entry'[x] = entry[x]
  BY <1>2, <1>3 DEF CInv, StateType
<1>15. \A u \in Threads : held[u] # None => held[u].slot # s /\ held[u].slot \in Slots
  BY <1>9, HolderStored DEF Holders
<1>16. HandleInv(t)'
  <2>1. HandleInv(t) /\ held' = held
    BY DEF CInv, InsertFill
  <2> QED
    BY <1>14, <1>15, <2>1 DEF HandleInv
<1>17. /\ held' \in [Threads -> HeldHandles \cup {None}] /\ held' = held /\ todo' = todo
       /\ \A x \in Slots : t \in Holders(x)' <=> t \in Holders(x)
  BY DEF Holders, InsertFill, CInv, StateType
<1>18. ~Owns(t, s)' /\ Attached(Idle, s) /\ Attached(frame[t], s)
  BY <1>1, <1>7 DEF Idle, Owns, At, Attached, RefLabels, Cur
<1>19. LocalInv(t, Idle, todo'[t], held'[t])
  BY <1>17, Actor, Returns
<1> QED
  BY <1>3, <1>4, <1>6, <1>8, <1>13, <1>14, <1>16, <1>17, <1>18, <1>19, SlotStep

LEMMA InsertSlotKeeps ==
  ASSUME CInv, NEW t \in Threads, InsertSlot(t)
  PROVE  CInv'
<1>1. frame[t] \in Frames /\ frame[t].pc = "slot" /\ OnlyMeta
  BY Actor DEF InsertSlot, At
<1> PICK s \in Slots : s = Cur(t)
  BY <1>1 DEF Cur, Frames
<1> DEFINE f == frame[t]
           m == meta[s]
           w == SetOccupied(m)
<1>2. m \in Words /\ State(m) \in {0, 4, 6, 7} /\ meta \in [Slots -> Words]
  BY DEF CInv, SlotInv, StateType, StateEmpty, StateConstruction, StateInvisible, StateVisible
<1>3. meta' = [meta EXCEPT ![s] = w]
  BY DEF InsertSlot, SetMeta
<1>4. /\ w \in Words
      /\ State(m) = 0 => State(w) = 4 /\ Low(w) = Low(m)
      /\ State(m) # 0 => w = m
  BY <1>2, Occupied
<1>5. Detached(f) /\ f.pc \notin LookupLabels \cup {"idle"}
  BY <1>1 DEF Detached, RefLabels, LookupLabels
<1> HIDE DEF w
<1>6. CASE State(m) = 0
  <2>1. Goto(t, "fill") /\ "fill" \in Labels
    BY <1>6 DEF InsertSlot, StateEmpty, StateVisible, Labels, ProbeLabels
  <2>2. PICK g \in Frames : FrameMove(t, g) /\ g.pc = "fill" /\ g.cur = f.cur /\ g.call = f.call
    BY <1>1, <2>1, MetaGoto
  <2>3. LocalInv(t, g, todo'[t], held[t])
    BY <1>1, <1>5, <2>2, Actor, PlainLocal DEF LookupLabels, OnlyMeta
  <2>4. Attached(f, s) /\ Attached(g, s) /\ Owner(g)
    BY <1>1, <2>2 DEF Attached, Owner, RefLabels, Cur
  <2>5. s \notin Stored
    BY <1>6, StoredState
  <2>6. VacantInv(s)
    BY <2>5 DEF CInv, SlotInv
  <2>7. Probers(s) \ {t} = Probers(s)
    BY <1>5, DetachedViews
  <2>8. /\ Holders(s) = {} /\ \A u \in Probers(s) \ {t} : At(u, "eraseUnref")
        /\ Low(w) >= Cardinality(Probers(s) \ {t})
    BY <1>4, <1>6, <2>6, <2>7 DEF VacantInv
  <2>9. State(m) # 4 /\ State(w) = 4 /\ g.pc \notin {"rollback", "evictFree"}
    BY <1>4, <1>6, <2>2
  <2>10. UNCHANGED <<entry, held>>
    BY <1>1 DEF OnlyMeta
  <2> QED
    BY <1>3, <1>4, <2>2, <2>3, <2>4, <2>8, <2>9, <2>10, TakeSlot
<1>7. CASE State(m) # 0
  <2>1. UNCHANGED <<meta, entry, held, todo, alive>> /\ CountersTyped
    BY <1>1, <1>2, <1>3, <1>4, <1>7 DEF OnlyMeta, CInv, StateType, CountersTyped
  <2>2. Goto(t, "slotRef") \/ Goto(t, "slotNext")
    BY <1>7 DEF InsertSlot, StateEmpty, StateVisible
  <2>3. "slotRef" \in PlainLabels \ {"rollback"} /\ "slotNext" \in PlainLabels \ {"rollback"}
    BY DEF PlainLabels
  <2>4. CASE Goto(t, "slotRef")
    BY <1>5, <2>1, <2>3, <2>4, GotoKeeps
  <2>5. CASE Goto(t, "slotNext")
    BY <1>5, <2>1, <2>3, <2>5, GotoKeeps
  <2> QED
    BY <2>2, <2>4, <2>5
<1> QED
  BY <1>6, <1>7

LEMMA ClockTakeKeeps ==
  ASSUME CInv, NEW t \in Threads, ClockTake(t)
  PROVE  CInv'
<1>1. frame[t] \in Frames /\ frame \in [Threads -> Frames] /\ frame[t].pc = "clockTake" /\ OnlyMeta
  BY Actor DEF ClockTake, At
<1> PICK s \in Slots : s = ClockSlot(t)
  BY ClockSlots
<1> DEFINE f == frame[t]
           m == meta[s]
           k == entry[ClockSlot(t)].key
           c == entry[ClockSlot(t)].charge
           w == Meta(4, 0)
           e == [f EXCEPT !.freed = @ + c, !.count = @ + 1, !.m = 0]
           g == RollbackTo(e, k, ClockSlot(t), "evictFree")
<1>2. CASE /\ frame' = [frame EXCEPT ![t].i = @ + 1, ![t].m = 0, ![t].pc = "clockLoad"]
           /\ UNCHANGED meta
  BY <1>1, <1>2, ClockMissKeeps
<1>3. CASE /\ m = f.m /\ meta' = [meta EXCEPT ![s] = w]
           /\ frame' = [frame EXCEPT ![t] = g]
  <2>1. IsShareable(m) /\ RefCount(m) = 0 /\ m \in Words
    BY <1>1, <1>3, Actor DEF LocalInv, CInv, StateType
  <2>2. State(m) \in {6, 7} /\ s \in Stored
    <3>1. State(m) \in {0, 4, 6, 7}
      BY DEF CInv, SlotInv, StateEmpty, StateConstruction, StateInvisible, StateVisible
    <3>2. State(m) \in {6, 7}
      BY <2>1, <3>1 DEF IsShareable
    <3> QED
      BY <3>2, StoredState
  <2>3. Holders(s) = {} /\ Probers(s) = {}
    BY <2>1, <2>2, Unreferred
  <2>4. k \in Keys /\ c \in Nat
    BY <2>2 DEF CInv, SlotInv, StoredInv, StateType, Entries
  <2>5. w \in Words /\ State(w) = 4 /\ Low(w) = 0
    BY MetaFields, EmptyMeta, CounterAssumption
  <2> HIDE DEF w, k, c
  <2>6. e \in Frames /\ e.call = f.call /\ e.ptr = f.ptr /\ e.i = f.i /\ e.pc = f.pc
    <3>1. f.freed + c \in Nat /\ f.count + 1 \in Nat /\ 0 \in Words
      BY <1>1, <2>4, SlotFacts DEF Frames
    <3> QED
      BY <1>1, <3>1 DEF Frames
  <2> HIDE DEF e
  <2>7. /\ g \in Frames /\ g.call = f.call /\ g.ptr = f.ptr /\ g.i = f.i
        /\ g.pc = "evictFree" \/ (g.pc = "rollback" /\ g.to = "evictFree")
    BY <2>4, <2>6, RollbackFrame, "evictFree" \in Labels DEF Labels, EvictLabels
  <2> HIDE DEF g
  <2>8. FrameMove(t, g)
    BY <1>1, <1>3, <2>7 DEF FrameMove, OnlyMeta, CInv, StateType
  <2>9. LocalInv(t, g, todo'[t], held[t])
    BY <1>1, <2>7, Actor, PlainLocal DEF LookupLabels, OnlyMeta
  <2>10. Attached(f, s) /\ Attached(g, s) /\ Owner(g)
    BY <1>1, <2>7 DEF Attached, Owner, RefLabels, ClockSlot
  <2>11. /\ \A u \in Probers(s) \ {t} : At(u, "eraseUnref")
         /\ Low(w) >= Cardinality(Probers(s) \ {t})
    <3>1. Probers(s) \ {t} = {}
      BY <2>3
    <3> QED
      BY <2>5, <3>1, FS_EmptySet
  <2>12. State(m) # 4
    BY <2>2
  <2> QED
    BY <1>1, <1>3, <2>3, <2>4, <2>5, <2>8, <2>9, <2>10, <2>11, <2>12, TakeSlot DEF OnlyMeta, k
<1>4. CASE /\ meta[ClockSlot(t)] = frame[t].m
           /\ SetMeta(ClockSlot(t), Meta(StateConstruction, 0))
           /\ frame' = [frame EXCEPT
               ![t] = RollbackTo([frame[t] EXCEPT !.freed = @ + entry[ClockSlot(t)].charge,
                                                  !.count = @ + 1, !.m = 0],
                                 entry[ClockSlot(t)].key, ClockSlot(t), "evictFree")]
  <2>1. m = f.m /\ meta' = [meta EXCEPT ![s] = w]
    BY <1>4 DEF SetMeta, StateConstruction
  <2>2. frame' = [frame EXCEPT ![t] = g]
    BY <1>4
  <2> HIDE DEF w, g
  <2> QED
    BY <1>3, <2>1, <2>2
<1> QED
  BY <1>2, <1>4, TakeOutcome, Zenon

LEMMA EraseOwnKeeps ==
  ASSUME CInv, NEW t \in Threads, EraseOwn(t)
  PROVE  CInv'
<1>1. frame[t] \in Frames /\ frame \in [Threads -> Frames] /\ frame[t].pc = "eraseOwn" /\ OnlyMeta
  BY Actor DEF EraseOwn, At
<1> PICK s \in Slots : s = Cur(t)
  BY <1>1 DEF Cur, Frames
<1> DEFINE f == frame[t]
           m == meta[s]
           w == Meta(4, 0)
<1>2. CASE /\ RefDecr(s)
           /\ frame' = [frame EXCEPT ![t].m = 0, ![t].pc = "eraseNext"]
  <2> DEFINE g == [f EXCEPT !.m = 0, !.pc = "eraseNext"]
  <2>1. frame' = [frame EXCEPT ![t] = g]
    BY <1>1, <1>2
  <2>2. g \in Frames /\ g.call = f.call /\ g.pc = "eraseNext"
    BY <1>1, SlotFacts DEF Frames, Labels
  <2> HIDE DEF g
  <2>3. FrameMove(t, g)
    BY <1>1, <2>1, <2>2 DEF FrameMove, OnlyMeta, CInv, StateType
  <2>4. LocalInv(t, g, todo'[t], held[t])
    BY <1>1, <2>2, Actor, PlainLocal DEF LookupLabels, OnlyMeta
  <2>5. Detached(g) /\ f.pc \in RefLabels \ {"lookupHitDecr"} /\ f.cur = s
    BY <1>1, <2>2 DEF Detached, RefLabels, Cur
  <2> QED
    BY <1>1, <1>2, <2>3, <2>4, <2>5, RefLoss DEF OnlyMeta
<1>3. CASE /\ RefCount(f.m) <= 1 /\ m = f.m /\ meta' = [meta EXCEPT ![s] = w]
           /\ frame' = [frame EXCEPT ![t].m = 0, ![t].pc = "eraseFree"]
  <2> DEFINE g == [f EXCEPT !.m = 0, !.pc = "eraseFree"]
  <2>1. frame' = [frame EXCEPT ![t] = g]
    BY <1>1, <1>3
  <2>2. g \in Frames /\ g.call = f.call /\ g.pc = "eraseFree" /\ g.cur = f.cur
    BY <1>1, SlotFacts DEF Frames, Labels
  <2> HIDE DEF g
  <2>3. FrameMove(t, g)
    BY <1>1, <2>1, <2>2 DEF FrameMove, OnlyMeta, CInv, StateType
  <2>4. LocalInv(t, g, todo'[t], held[t])
    BY <1>1, <2>2, Actor, PlainLocal DEF LookupLabels, OnlyMeta
  <2>5. Attached(f, s) /\ Attached(g, s) /\ Owner(g)
    BY <1>1, <2>2 DEF Attached, Owner, RefLabels, Cur
  <2>6. s \in Stored /\ t \in Probers(s)
    BY <1>1, ProberStored DEF RefLabels
  <2>7. /\ RefCount(m) = Cardinality(Holders(s)) + Cardinality(Probers(s))
        /\ IsFiniteSet(Holders(s)) /\ Cardinality(Holders(s)) \in Nat
        /\ IsFiniteSet(Probers(s)) /\ Cardinality(Probers(s)) \in Nat
    BY <2>6, CountBounds DEF CInv, SlotInv, StoredInv
  <2>8. /\ IsFiniteSet(Probers(s) \ {t}) /\ Cardinality(Probers(s) \ {t}) \in Nat
        /\ Cardinality(Probers(s) \ {t}) = Cardinality(Probers(s)) - 1
    BY <2>6, <2>7, FS_RemoveElement, FS_CardinalityType
  <2>9. Cardinality(Holders(s)) = 0 /\ Cardinality(Probers(s) \ {t}) = 0
    BY <1>3, <2>7, <2>8
  <2>10. Holders(s) = {} /\ Probers(s) \ {t} = {}
    BY <2>7, <2>8, <2>9, FS_EmptySet
  <2>11. w \in Words /\ State(w) = 4 /\ Low(w) = 0
    BY MetaFields, EmptyMeta, CounterAssumption
  <2>12. State(m) # 4 /\ g.pc \notin {"rollback", "evictFree"}
    BY <2>2, <2>6, StoredState
  <2>13. /\ \A u \in Probers(s) \ {t} : At(u, "eraseUnref")
         /\ Low(w) >= Cardinality(Probers(s) \ {t})
    BY <2>9, <2>10, <2>11
  <2>14. UNCHANGED <<entry, held>> /\ meta' = [meta EXCEPT ![s] = w]
    BY <1>1, <1>3 DEF OnlyMeta
  <2> HIDE DEF w
  <2> QED
    BY <2>3, <2>4, <2>5, <2>10, <2>11, <2>12, <2>13, <2>14, TakeSlot
<1>4. CASE frame' = [frame EXCEPT ![t].m = meta[Cur(t)]] /\ UNCHANGED meta
  BY <1>1, <1>4, EraseRetryKeeps
<1> QED
  BY <1>2, <1>3, <1>4 DEF EraseOwn, SetMeta, StateConstruction

-----------------------------------------------------------------------------
(***************************************************************************)
(* The invariance, while the cache lives and after its destructor.         *)
(***************************************************************************)
Safe == IF alive THEN CInv ELSE Quiescent /\ \A s \in Slots : SlotInv(s)

LEMMA InitSafe == Init => Safe
<1> SUFFICES ASSUME Init
             PROVE  CInv
  BY DEF Safe, Init
<1>1. 0 \in Words /\ State(0) = 0 /\ Low(0) = 0 /\ 0 \in Slots
  <2>1. StateUnit \in Nat \ {0}
    BY Products
  <2> QED
    BY <2>1, SlotFacts DEF State, Low
<1>2. NoEntry \in Entries
  BY DEF NoEntry, Entries
<1>3. StateType
  <2>1. todo \in [Threads -> SUBSET Calls]
    BY ClientAssumption DEF Init
  <2>2. frame \in [Threads -> Frames]
    BY IdleFrame DEF Init
  <2> QED
    BY <1>1, <1>2, <2>1, <2>2 DEF StateType, Init
<1>4. ASSUME NEW t \in Threads
      PROVE  ThreadInv(t) /\ OwnerInv(t) /\ HandleInv(t)
  <2>1. frame[t] = Idle /\ held[t] = None /\ todo[t] = Workload[t]
    BY DEF Init
  <2>2. ThreadInv(t)
    BY <2>1 DEF ThreadInv, LocalInv, Idle, LookupLabels
  <2>3. \A s \in Slots : ~Owns(t, s)
    BY <2>1 DEF Owns, Idle, At
  <2> QED
    BY <2>1, <2>2, <2>3 DEF OwnerInv, HandleInv
<1>5. ASSUME NEW s \in Slots
      PROVE  SlotInv(s)
  <2>1. meta[s] = 0 /\ s \notin Stored
    BY <1>1, StoredState DEF Init
  <2>2. Holders(s) = {} /\ Probers(s) = {}
    BY DEF Holders, Probers, Init, Idle, RefLabels
  <2>3. Cardinality(Probers(s)) = 0
    BY <2>2, FS_EmptySet
  <2> QED
    BY <1>1, <2>1, <2>2, <2>3 DEF SlotInv, VacantInv, StateEmpty, StateConstruction
<1> QED
  BY <1>3, <1>4, <1>5 DEF CInv

LEMMA DestroySafe ==
  ASSUME CInv, Destroy
  PROVE  Safe'
<1>1. ~alive' /\ Quiescent'
  BY DEF Destroy, Quiescent, At
<1>2. ASSUME NEW s \in Slots
      PROVE  SlotInv(s)'
  <2>1. entry[s] \in Entries
    BY DEF CInv, StateType
  <2>2. entry'[s].key = entry[s].key
    BY <2>1 DEF Destroy, Entries
  <2>3. SlotInv(s)
    BY DEF CInv
  <2>4. meta' = meta /\ held' = held /\ frame' = frame
    BY DEF Destroy
  <2>5. /\ Holders(s)' = Holders(s) /\ Probers(s)' = Probers(s) /\ Correcting(s)' = Correcting(s)
        /\ s \in Stored' <=> s \in Stored
        /\ \A t \in Threads : Owns(t, s)' <=> Owns(t, s)
    BY <2>4 DEF Holders, Probers, Correcting, Stored, Owns, At, Cur, ClockSlot
  <2>6. StoredInv(s) => StoredInv(s)'
    BY <2>2, <2>4, <2>5 DEF StoredInv
  <2>7. VacantInv(s) => VacantInv(s)'
    BY <2>4, <2>5 DEF VacantInv, At
  <2> QED
    BY <2>3, <2>4, <2>5, <2>6, <2>7 DEF SlotInv
<1> QED
  BY <1>1, <1>2 DEF Safe

LEMMA StepKeeps ==
  ASSUME CInv, CountersWide, NoEraseRace, NoCarry, NEW t \in Threads, Step(t)
  PROVE  CInv'
<1>1. CASE LookupRef(t) \/ LookupMatch(t) \/ LookupHitDecr(t) \/ LookupUnref(t) \/ LookupNext(t)
  BY <1>1, LookupRefKeeps, LookupMatchKeeps, LookupHitDecrKeeps, LookupUnrefKeeps, LookupNextKeeps
<1>2. CASE Reserve(t) \/ EvictStart(t) \/ ClockLoad(t) \/ ClockAge(t) \/ ClockTake(t)
  BY <1>2, ReserveKeeps, EvictStartKeeps, ClockLoadKeeps, ClockAgeKeeps, ClockTakeKeeps
<1>3. CASE \/ EvictOccupancy(t) \/ EvictUsage(t) \/ UndoOccupancy(t) \/ FailOccupancy(t)
           \/ FailUsage(t) \/ EraseOccupancy(t)
  BY <1>3, FailKeeps
<1>4. CASE EvictFree(t) \/ EvictStep(t) \/ Rollback(t)
  BY <1>4, EvictFreeKeeps, EvictStepKeeps, RollbackKeeps
<1>5. CASE \/ InsertSlot(t) \/ InsertRef(t) \/ InsertMatch(t) \/ InsertUnref(t) \/ InsertNext(t)
           \/ InsertFill(t)
  BY <1>5, InsertSlotKeeps, InsertRefKeeps, InsertMatchKeeps, InsertUnrefKeeps, InsertNextKeeps,
     InsertFillKeeps
<1>6. CASE \/ EraseRef(t) \/ EraseMatch(t) \/ EraseUnref(t) \/ EraseOwn(t) \/ EraseFree(t)
           \/ EraseUsage(t) \/ EraseNext(t)
  BY <1>6, EraseRefKeeps, EraseMatchKeeps, EraseUnrefKeeps, EraseOwnKeeps, EraseFreeKeeps,
     EraseUsageKeeps, EraseNextKeeps
<1> QED
  BY <1>1, <1>2, <1>3, <1>4, <1>5, <1>6, Zenon DEF Step

LEMMA BeginKeeps ==
  ASSUME CInv, NEW t \in Threads, Begin(t)
  PROVE  CInv'
BY LookupBeginKeeps, InsertBeginKeeps, EraseBeginKeeps DEF Begin

\* Only Destroy ends the life of the cache, and nothing happens after it.
LEMMA Alive ==
  /\ \A t \in Threads : Step(t) \/ Begin(t) \/ Release(t) => alive' = alive
  /\ \A t \in Threads : Quiescent => ~Step(t) /\ ~Release(t)
  /\ \A t \in Threads : Begin(t) => alive
<1>1. ASSUME NEW t \in Threads, Begin(t)
      PROVE  alive /\ alive' = alive
  BY <1>1 DEF Begin, LookupBegin, InsertBegin, EraseBegin, Take
<1>2. ASSUME NEW t \in Threads, Release(t)
      PROVE  alive' = alive /\ ~Quiescent
  BY <1>2 DEF Release, Quiescent
<1>3. ASSUME NEW t \in Threads, Step(t)
      PROVE  alive' = alive
  BY <1>3 DEF Step, LookupRef, LookupMatch, LookupHitDecr, LookupUnref, LookupNext, Reserve,
     EvictStart, ClockLoad, ClockAge, ClockTake, EvictFree, EvictStep, EvictOccupancy,
     EvictUsage, UndoOccupancy, InsertSlot, InsertRef, InsertMatch, InsertUnref, InsertNext,
     InsertFill, FailOccupancy, FailUsage, EraseRef, EraseMatch, EraseUnref, EraseOwn,
     EraseFree, EraseOccupancy, EraseUsage, EraseNext, Rollback,
     OnlyMeta, OnlyDisplacements, OnlyOccupancy, OnlyUsage
<1>4. ASSUME NEW t \in Threads, Step(t)
      PROVE  ~At(t, "idle")
  BY <1>4 DEF Step, LookupRef, LookupMatch, LookupHitDecr, LookupUnref, LookupNext, Reserve,
     EvictStart, ClockLoad, ClockAge, ClockTake, EvictFree, EvictStep, EvictOccupancy,
     EvictUsage, UndoOccupancy, InsertSlot, InsertRef, InsertMatch, InsertUnref, InsertNext,
     InsertFill, FailOccupancy, FailUsage, EraseRef, EraseMatch, EraseUnref, EraseOwn,
     EraseFree, EraseOccupancy, EraseUsage, EraseNext, Rollback, At
<1> QED
  BY <1>1, <1>2, <1>3, <1>4 DEF Quiescent

LEMMA StutterSafe ==
  ASSUME Safe, UNCHANGED vars
  PROVE  Safe'
<1>1. /\ UNCHANGED <<meta, entry, displacements, occupancy, usage, clock_pointer>>
      /\ UNCHANGED <<hit_decr_delta, todo, held, frame, alive>>
  BY DEF vars, shared
<1>2. \A s \in Slots : SlotInv(s) => SlotInv(s)'
  BY <1>1 DEF SlotInv, StoredInv, VacantInv, Holders, Probers, Correcting, Stored, Owns, At, Cur,
     ClockSlot
<1>3. \A t \in Threads : ThreadInv(t) /\ OwnerInv(t) /\ HandleInv(t)
                           => ThreadInv(t)' /\ OwnerInv(t)' /\ HandleInv(t)'
  BY <1>1 DEF ThreadInv, OwnerInv, HandleInv, Owns, At, Cur, ClockSlot
<1>4. StateType => StateType'
  BY <1>1 DEF StateType
<1>5. Quiescent => Quiescent'
  BY <1>1 DEF Quiescent, At
<1> QED
  BY <1>1, <1>2, <1>3, <1>4, <1>5 DEF Safe, CInv

LEMMA NextSafe ==
  ASSUME Safe, CountersWide, NoEraseRace, NoCarry, [Next]_vars
  PROVE  Safe'
<1>1. CASE UNCHANGED vars
  BY <1>1, StutterSafe
<1>2. CASE alive /\ Destroy
  BY <1>2, DestroySafe DEF Safe
<1>3. ASSUME alive, NEW t \in Threads, Begin(t) \/ Step(t) \/ Release(t)
      PROVE  Safe'
  <2>1. CInv'
    BY <1>3, BeginKeeps, StepKeeps, ReleaseKeeps DEF Safe
  <2>2. alive'
    BY <1>3, Alive
  <2> QED
    BY <2>1, <2>2 DEF Safe
<1>4. CASE ~alive /\ Next
  BY <1>4, Alive DEF Safe, Next, Destroy
<1> QED
  BY <1>1, <1>2, <1>3, <1>4 DEF Next, Destroy

-----------------------------------------------------------------------------
(***************************************************************************)
(* The slots are safe as long as no Erase has its reference on a slot that *)
(* another call owns, and as long as the references that probes leave on   *)
(* vacant slots stay below the state bits.                                 *)
(***************************************************************************)
THEOREM ClockInvariance ==
  CountersWide /\ Spec /\ [](NoEraseRace /\ NoCarry) => []Safe
<1>1. CountersWide /\ Safe /\ NoEraseRace /\ NoCarry /\ [Next]_vars => Safe'
  BY NextSafe
<1>2. SUFFICES ASSUME CountersWide
               PROVE  Spec /\ [](NoEraseRace /\ NoCarry) => []Safe
  OBVIOUS
<1>3. Safe /\ (NoEraseRace /\ NoCarry) /\ [Next]_vars => Safe'
  BY <1>1, <1>2
<1> QED
  BY <1>3, InitSafe, PTL DEF Spec

LEMMA SafeParts ==
  ASSUME Safe
  PROVE  /\ \A s \in Slots : SlotInv(s)
         /\ \A t, u \in Threads, s \in Slots : Owns(t, s) =>
              State(meta[s]) = StateConstruction /\ (Owns(u, s) => u = t)
         /\ \A t \in Threads : held[t] # None => held[t].slot \in Stored /\ HandleInv(t)
<1>1. CASE alive
  <2>1. CInv
    BY <1>1 DEF Safe
  <2>2. ASSUME NEW t \in Threads, held[t] # None
        PROVE  held[t].slot \in Stored /\ HandleInv(t)
    BY <2>1, <2>2, HolderStored DEF CInv
  <2> QED
    BY <2>1, <2>2 DEF CInv, OwnerInv
<1>2. CASE ~alive
  <2>1. Quiescent /\ \A s \in Slots : SlotInv(s)
    BY <1>2 DEF Safe
  <2>2. \A t \in Threads, s \in Slots : ~Owns(t, s)
    BY <2>1 DEF Quiescent, Owns, At
  <2> QED
    BY <2>1, <2>2 DEF Quiescent
<1> QED
  BY <1>1, <1>2

LEMMA OneOwner ==
  ASSUME Safe
  PROVE  SlotOwned
<1> SUFFICES ASSUME NEW s \in Slots
             PROVE  Cardinality({t \in Threads : Owns(t, s)})
                      = IF State(meta[s]) = StateConstruction THEN 1 ELSE 0
  BY DEF SlotOwned
<1>1. CASE State(meta[s]) = StateConstruction
  <2>1. PICK t \in Threads : Owns(t, s)
    BY <1>1, SafeParts DEF SlotInv
  <2>2. {u \in Threads : Owns(u, s)} = {t}
    BY <2>1, SafeParts
  <2> QED
    BY <1>1, <2>2, FS_Singleton
<1>2. CASE State(meta[s]) # StateConstruction
  <2>1. {u \in Threads : Owns(u, s)} = {}
    BY <1>2, SafeParts
  <2> QED
    BY <1>2, <2>1, FS_EmptySet
<1> QED
  BY <1>1, <1>2

LEMMA CountersSound ==
  ASSUME Safe
  PROVE  HeldIntact /\ RefExact /\ HitSound
<1>1. HeldIntact
  BY SafeParts DEF HeldIntact, HandleInv
<1>2. ASSUME NEW s \in Stored
      PROVE  StoredInv(s)
  BY <1>2, SafeParts DEF SlotInv, Stored
<1>3. RefExact
  BY <1>2 DEF RefExact, StoredInv, Holders, Probers
<1>4. HitSound
  BY <1>2 DEF HitSound, StoredInv, Correcting
<1> QED
  BY <1>1, <1>3, <1>4

\* At every instant a slot under construction has one owner, and no other slot
\* has any: insertion, eviction and erasure exclude one another on a slot,
\* although they take it with a fetch_or, a CAS on a word read earlier, and a CAS
\* in a loop.
THEOREM SlotsOwned ==
  CountersWide /\ Spec /\ [](NoEraseRace /\ NoCarry) => []SlotOwned
<1>1. Safe => SlotOwned
  BY OneOwner
<1> QED
  BY <1>1, ClockInvariance, PTL

\* The entry that a Lookup returned is neither freed nor replaced before its
\* client releases it, however many threads insert, evict and erase.
THEOREM HandlesIntact ==
  CountersWide /\ Spec /\ [](NoEraseRace /\ NoCarry) => []HeldIntact
<1>1. Safe => HeldIntact
  BY CountersSound
<1> QED
  BY <1>1, ClockInvariance, PTL

\* The reference counter of a stored entry is the number of handles and of probes
\* on it: no path of Lookup, Insert, Erase or Release loses or repeats one.
THEOREM ReferencesExact ==
  CountersWide /\ Spec /\ [](NoEraseRace /\ NoCarry) => []RefExact
<1>1. Safe => RefExact
  BY CountersSound
<1> QED
  BY <1>1, ClockInvariance, PTL

\* The hit counter of a stored entry stays within its bits, and above its maximum
\* only by the hits that lookups are about to take back.
THEOREM HitsSound ==
  CountersWide /\ Spec /\ [](NoEraseRace /\ NoCarry) => []HitSound
<1>1. Safe => HitSound
  BY CountersSound
<1> QED
  BY <1>1, ClockInvariance, PTL

-----------------------------------------------------------------------------
(***************************************************************************)
(* One thread inserts and erases, the others look up: then no Erase meets  *)
(* another owner, and the results need no premise about the behaviour but  *)
(* for the width of the word.                                              *)
(***************************************************************************)
SingleWriter ==
  \A t, u \in Threads :
    (\E c \in Workload[t] : c.op # "lookup") /\ (\E c \in Workload[u] : c.op # "lookup") => t = u

LEMMA WriterAlone ==
  ASSUME Safe, SingleWriter
  PROVE  NoEraseRace
<1> SUFFICES ASSUME NEW t \in Threads, NEW u \in Threads, t # u, At(t, "eraseUnref"), Owns(u, Cur(t))
             PROVE  FALSE
  BY DEF NoEraseRace
<1>1. CInv
  BY DEF Safe, Quiescent, At
<1>2. /\ LocalInv(t, frame[t], todo[t], held[t])
      /\ LocalInv(u, frame[u], todo[u], held[u])
  BY <1>1, Actor
<1>3. /\ frame[t].pc \notin LookupLabels \cup {"idle"}
      /\ frame[u].pc \notin LookupLabels \cup {"idle"}
  BY DEF At, Owns, LookupLabels
<1>4. /\ frame[t].call \in Workload[t] /\ frame[t].call.op # "lookup"
      /\ frame[u].call \in Workload[u] /\ frame[u].call.op # "lookup"
  BY <1>2, <1>3 DEF LocalInv
<1> QED
  BY <1>4 DEF SingleWriter

\* With one writer and the readers CountersWide allows, a slot has one owner at a
\* time, handles stay intact, and the counters of the meta word are exact.
THEOREM SingleWriterSafe ==
  CountersWide /\ SingleWriter /\ Spec /\ []NoCarry
    => [](SlotOwned /\ HeldIntact /\ RefExact /\ HitSound)
<1>1. SUFFICES ASSUME CountersWide, SingleWriter
               PROVE  Spec /\ []NoCarry => [](SlotOwned /\ HeldIntact /\ RefExact /\ HitSound)
  OBVIOUS
<1>2. Safe /\ NoCarry /\ [Next]_vars => Safe'
  BY <1>1, NextSafe, WriterAlone
<1>3. Safe => SlotOwned /\ HeldIntact /\ RefExact /\ HitSound
  BY OneOwner, CountersSound
<1> QED
  BY <1>2, <1>3, InitSafe, PTL DEF Spec
=============================================================================
