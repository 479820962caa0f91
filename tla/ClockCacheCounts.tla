-------------------------- MODULE ClockCacheCounts --------------------------
(***************************************************************************)
(* Proofs about the counters of ClockCache: usage_ and occupancy_ are the  *)
(* stored entries and what running calls owe, the stored entries respect   *)
(* the capacity and the load factor, and the displacement of a slot is the *)
(* number of entries and calls that passed it.                             *)
(*                                                                         *)
(* They rest on ClockCacheProofs: because a slot has one owner, an entry   *)
(* leaves the table once, and its share is settled by the call that took   *)
(* it.  A step changes what one thread owes; a sum with one changed term   *)
(* changes by that term.                                                   *)
(***************************************************************************)
EXTENDS ClockCacheProofs

(***************************************************************************)
(* The inductive invariant.                                                *)
(***************************************************************************)
\* The labels that only an Insert has.
InsertLabels == EvictLabels \cup ProbeLabels \cup
                {"reserve", "undoOccupancy", "fail", "failUsage", "eraseFirst"}

Evicting(f) == f.pc \in EvictLabels \/ (f.pc = "rollback" /\ f.to = "evictFree")

\* An Insert whose eviction, if it needed one, has succeeded.
Settled(f) == /\ f.call.op = "insert"
              /\ ~Evicting(f)
              /\ f.pc \notin {"reserve", "undoOccupancy"}

\* What is reserved and what is still needed make up the charge; an Insert above
\* the load factor goes on only if it has emptied a slot.
FrameInv(f) ==
  /\ f.pc = "idle" => f = Idle
  /\ f.pc \in InsertLabels => f.call.op = "insert"
  /\ f.pc = "rollback" /\ f.to # "eraseNext" => f.call.op = "insert"
  /\ f.pc = "reserve" => f.freed = 0 /\ f.count = 0
  /\ Evicting(f) => /\ f.need \in Nat /\ f.res \in Nat
                    /\ f.res + f.need = f.call.h.charge
                    /\ f.count = 0 => f.freed = 0
  /\ Settled(f) /\ f.occ => f.count >= 1

\* An Insert that may still fill a slot: it was counted below the load factor, or
\* it has emptied a slot.
Room(f) == /\ f.call.op = "insert"
           /\ f.pc \notin {"failUsage", "undoOccupancy"}
           /\ f.occ => f.count >= 1

Placing == {t \in Threads : Room(frame[t])}

SumsExact ==
  /\ usage = ChargeOf(Stored) + Total([t \in Threads |-> OwedUsage(t)], Threads)
  /\ occupancy = Cardinality(Stored) + Total([t \in Threads |-> OwedOccupancy(t)], Threads)

CountInv ==
  /\ \A t \in Threads : FrameInv(frame[t])
  /\ SumsExact
  /\ usage <= Capacity
  /\ Cardinality(Stored) + Cardinality(Placing) <= OccupancyLimit

\* Where a call has counted itself: the slots before its own, or those a rollback
\* has not reached yet.  e is the table of entries.
PathLabels == ProbeLabels \cup {"eraseFree", "eraseOccupancy", "eraseUsage"}

EndSlot(f) == IF f.to = "evictFree" THEN (f.ptr + f.i) % Length ELSE f.cur
EndKey(f, e) == IF f.to = "evictFree" THEN e[EndSlot(f)].key ELSE f.call.h.key

Way(f, e) ==
  IF f.pc \in PathLabels THEN Before(f.call.h.key, f.cur)
  ELSE IF f.pc = "rollback" THEN Before(EndKey(f, e), EndSlot(f)) \ Before(EndKey(f, e), f.rb)
  ELSE {}

\* A call that erases has found its key; one that rolls back is on its way to the
\* slot where it stops; one that evicts has not begun to probe.
PathInv(f, e) ==
  /\ f.pc \in {"eraseOwn", "eraseFree"} => e[f.cur].key = f.call.h.key
  /\ f.pc = "rollback" => f.rb \in Before(EndKey(f, e), EndSlot(f))
  /\ Evicting(f) => f.cur = Base[f.call.h.key]

Bearers(s) == {t \in Threads : s \in Way(frame[t], entry)}

PassedExact(s) == displacements[s] = Cardinality(Passing(s)) + Cardinality(Bearers(s))

PassInv ==
  /\ \A t \in Threads : PathInv(frame[t], entry)
  /\ \A s \in Slots : PassedExact(s)
-----------------------------------------------------------------------------
(***************************************************************************)
(* Sums.                                                                   *)
(***************************************************************************)
Units(f, S) == UNION {{x} \X (1 .. f[x]) : x \in S}

LEMMA TotalUnits ==
  ASSUME NEW S, NEW f
  PROVE  Total(f, S) = Cardinality(Units(f, S))
BY DEF Total, Units

LEMMA UnitsFinite ==
  ASSUME NEW S, NEW f, IsFiniteSet(S), \A x \in S : f[x] \in Nat
  PROVE  IsFiniteSet(Units(f, S)) /\ Total(f, S) \in Nat
<1> DEFINE bar == [x \in S |-> {x} \X (1 .. f[x])]
           bars == {{x} \X (1 .. f[x]) : x \in S}
<1>1. bar \in Surjection(S, bars)
  BY DEF Surjection
<1>2. IsFiniteSet(bars)
  BY <1>1, FS_Surjection
<1>3. ASSUME NEW x \in S
      PROVE  IsFiniteSet({x} \X (1 .. f[x]))
  <2>1. f[x] \in Int
    OBVIOUS
  <2>2. IsFiniteSet(1 .. f[x])
    BY <2>1, FS_Interval
  <2>3. IsFiniteSet({x})
    BY FS_Singleton
  <2> QED
    BY <2>2, <2>3, FS_Product
<1>4. IsFiniteSet(UNION bars)
  <2> HIDE DEF bar
  <2>1. \A T \in bars : IsFiniteSet(T)
    BY <1>3
  <2> HIDE DEF bars
  <2> QED
    BY <1>2, <2>1, FS_UNION
<1> QED
  BY <1>4, FS_CardinalityType DEF Units, Total

\* One more term.
LEMMA TotalAdd ==
  ASSUME NEW S, NEW f, NEW t, IsFiniteSet(S), t \notin S, f[t] \in Nat, \A x \in S : f[x] \in Nat
  PROVE  Total(f, S \cup {t}) = Total(f, S) + f[t]
<1> DEFINE bar == {t} \X (1 .. f[t])
           rest == Units(f, S)
<1>1. Units(f, S \cup {t}) = rest \cup bar
  BY DEF Units
<1>2. rest \cap bar = {}
  BY DEF Units
<1>3. IsFiniteSet(bar) /\ Cardinality(bar) = f[t]
  <2>1. IsFiniteSet({t}) /\ Cardinality({t}) = 1
    BY FS_Singleton
  <2>2. IsFiniteSet(1 .. f[t]) /\ Cardinality(1 .. f[t]) = f[t]
    BY FS_Interval
  <2>3. IsFiniteSet(bar) /\ Cardinality(bar) = Cardinality({t}) * Cardinality(1 .. f[t])
    BY <2>1, <2>2, FS_Product, Zenon
  <2> HIDE DEF bar
  <2> QED
    BY <2>1, <2>2, <2>3
<1>4. IsFiniteSet(rest) /\ Cardinality(rest) \in Nat
  BY UnitsFinite DEF Units, Total
<1> HIDE DEF bar, rest
<1>5. Cardinality(rest \cup bar) = Cardinality(rest) + f[t]
  <2>1. /\ IsFiniteSet(rest \cup bar)
        /\ Cardinality(rest \cup bar)
             = Cardinality(rest) + Cardinality(bar) - Cardinality(rest \cap bar)
    BY <1>3, <1>4, FS_Union, Zenon
  <2>2. Cardinality(rest \cap bar) = 0
    BY <1>2, FS_EmptySet, Zenon
  <2> QED
    BY <1>3, <1>4, <2>1, <2>2
<1>6. Total(f, S) = Cardinality(rest)
  BY TotalUnits DEF rest
<1>7. Total(f, S \cup {t}) = Cardinality(rest \cup bar)
  BY <1>1, TotalUnits, Zenon
<1> QED
  BY <1>5, <1>6, <1>7

LEMMA TotalSame ==
  ASSUME NEW S, NEW f, NEW g, \A x \in S : f[x] = g[x]
  PROVE  Total(f, S) = Total(g, S)
<1>1. Units(f, S) = Units(g, S)
  BY DEF Units
<1> QED
  BY <1>1 DEF Units, Total

\* One changed term.
LEMMA TotalChange ==
  ASSUME NEW S, NEW f, NEW g, NEW t \in S, IsFiniteSet(S),
         \A x \in S : f[x] \in Nat, g[t] \in Nat, \A x \in S \ {t} : g[x] = f[x]
  PROVE  /\ Total(f, S) \in Nat /\ Total(g, S) \in Nat
         /\ Total(g, S) = Total(f, S) + g[t] - f[t]
<1> PICK R : R = S \ {t}
  OBVIOUS
<1>1. IsFiniteSet(R) /\ t \notin R /\ S = R \cup {t}
  BY FS_RemoveElement
<1>2. \A x \in S : g[x] \in Nat
  OBVIOUS
<1>3. /\ Total(f, R \cup {t}) = Total(f, R) + f[t]
      /\ Total(g, R \cup {t}) = Total(g, R) + g[t]
  BY <1>1, <1>2, TotalAdd
<1>4. Total(f, R) = Total(g, R)
  BY TotalSame
<1>5. Total(f, R) \in Nat /\ f[t] \in Nat
  BY <1>1, UnitsFinite
<1> QED
  BY <1>1, <1>2, <1>3, <1>4, <1>5
-----------------------------------------------------------------------------
(***************************************************************************)
(* What a frame owes.  c is the charge of the entry at its current slot.   *)
(***************************************************************************)
UsageOf(f, c) ==
  (IF f.call.op # "insert" \/ f.pc \in {"reserve", "undoOccupancy"} THEN 0
   ELSE IF Evicting(f) THEN f.res + f.freed
   ELSE f.call.h.charge)
  + (IF f.pc = "eraseFree" THEN c
     ELSE IF f.pc \in {"eraseOccupancy", "eraseUsage"} THEN f.amount ELSE 0)

PlacesOf(f) ==
  (IF f.call.op # "insert" \/ f.pc = "failUsage" THEN 0 ELSE 1)
  + (IF Evicting(f) /\ f.pc # "evictUsage" THEN f.count ELSE 0)
  + (IF f.pc \in {"eraseFree", "eraseOccupancy"} THEN 1 ELSE 0)

LEMMA OwedOf ==
  ASSUME NEW t \in Threads
  PROVE  /\ OwedUsage(t) = UsageOf(frame[t], entry[frame[t].cur].charge)
         /\ OwedOccupancy(t) = PlacesOf(frame[t])
         /\ OwedUsage(t)' = UsageOf(frame'[t], entry'[frame'[t].cur].charge)
         /\ OwedOccupancy(t)' = PlacesOf(frame'[t])
BY DEF OwedUsage, OwedOccupancy, UsageOf, PlacesOf, InEvict, Evicting, At

LEMMA FrameFacts ==
  ASSUME NEW f \in Frames
  PROVE  /\ f.call.op = "insert" => f.call.h.key \in Keys /\ f.call.h.charge \in Nat
         /\ f.need \in Int /\ f.res \in Int /\ f.freed \in Nat /\ f.count \in Nat
         /\ f.amount \in Nat /\ f.occ \in BOOLEAN /\ f.cur \in Slots /\ f.rb \in Slots
<1>1. f.call \in Calls \cup {NoCall}
  BY DEF Frames
<1>2. f.call.op = "insert" => f.call \in Calls
  BY <1>1 DEF NoCall
<1>3. f.call.op = "insert" => f.call.h \in Handles
  BY <1>2 DEF Calls
<1>4. f.call.op = "insert" => f.call.h.key \in Keys /\ f.call.h.charge \in Nat
  BY <1>3 DEF Handles
<1> QED
  BY <1>4 DEF Frames

LEMMA OwedTypes ==
  ASSUME NEW f \in Frames, NEW c \in Nat, FrameInv(f)
  PROVE  /\ UsageOf(f, c) \in Nat /\ PlacesOf(f) \in Nat
         /\ Room(f) => PlacesOf(f) >= 1
<1>1. /\ f.call.op = "insert" => f.call.h.charge \in Nat
      /\ f.freed \in Nat /\ f.count \in Nat /\ f.amount \in Nat
  BY FrameFacts
<1>2. Evicting(f) => f.res \in Nat
  BY DEF FrameInv
<1>3. UsageOf(f, c) \in Nat
  BY <1>1, <1>2 DEF UsageOf
<1> QED
  BY <1>1, <1>3 DEF PlacesOf, Room

LEMMA StoredFinite ==
  /\ IsFiniteSet(Slots) /\ IsFiniteSet(Stored) /\ Cardinality(Stored) \in Nat
  /\ IsFiniteSet(Stored') /\ Cardinality(Stored') \in Nat
<1>1. IsFiniteSet(Slots)
  <2>1. 0 \in Int /\ Length - 1 \in Int
    BY TableAssumption
  <2> QED
    BY <2>1, FS_Interval DEF Slots
<1>2. Stored \subseteq Slots /\ Stored' \subseteq Slots
  BY DEF Stored
<1> QED
  BY <1>1, <1>2, FS_Subset, FS_CardinalityType

\* T is S and one element more; two functions are the same numbers on S.
OneMore(S, T, x) == x \notin S /\ T = S \cup {x}
Agree(f, g, S) == \A y \in S : f[y] \in Nat /\ g[y] = f[y]

LEMMA TotalMore ==
  ASSUME NEW S, NEW T, NEW f, NEW g, NEW x, IsFiniteSet(S), OneMore(S, T, x),
         Agree(f, g, S), g[x] \in Nat
  PROVE  /\ Total(f, S) \in Nat /\ Total(g, T) = Total(f, S) + g[x]
         /\ Cardinality(T) = Cardinality(S) + 1
<1>1. Total(f, S) \in Nat
  BY UnitsFinite DEF Agree
<1>2. Total(g, S \cup {x}) = Total(g, S) + g[x]
  <2>1. x \notin S /\ \A y \in S : g[y] \in Nat
    BY DEF Agree, OneMore
  <2> QED
    BY <2>1, TotalAdd
<1>3. Total(f, S) = Total(g, S)
  BY TotalSame DEF Agree
<1>4. Cardinality(S \cup {x}) = Cardinality(S) + 1
  BY FS_AddElement DEF OneMore
<1> QED
  BY <1>1, <1>2, <1>3, <1>4 DEF OneMore

\* The charge of what is stored, when the table changes by at most one slot.
LEMMA StoredCharge ==
  ASSUME CInv, CInv', NEW s \in Slots, \A x \in Stored : entry'[x] = entry[x]
  PROVE  /\ ChargeOf(Stored) \in Nat
         /\ Stored' = Stored => ChargeOf(Stored)' = ChargeOf(Stored)
         /\ s \in Stored /\ Stored' = Stored \ {s}
              => /\ ChargeOf(Stored)' = ChargeOf(Stored) - entry[s].charge
                 /\ Cardinality(Stored)' = Cardinality(Stored) - 1
         /\ s \notin Stored /\ Stored' = Stored \cup {s}
              => /\ ChargeOf(Stored)' = ChargeOf(Stored) + entry'[s].charge
                 /\ Cardinality(Stored)' = Cardinality(Stored) + 1
<1> DEFINE f == [x \in Slots |-> entry[x].charge]
           g == [x \in Slots |-> entry'[x].charge]
<1>1. \A x \in Slots : entry[x].charge \in Nat /\ entry'[x].charge \in Nat
  BY DEF CInv, StateType, Entries
<1>2. Stored \subseteq Slots /\ Stored' \subseteq Slots
  BY DEF Stored
<1>3. ChargeOf(Stored) = Total(f, Stored) /\ ChargeOf(Stored)' = Total(g, Stored')
  BY DEF ChargeOf
<1>4. \A x \in Slots : /\ f[x] = entry[x].charge /\ g[x] = entry'[x].charge
                       /\ f[x] \in Nat /\ g[x] \in Nat
  BY <1>1
<1> HIDE DEF f, g
<1>5. IsFiniteSet(Stored) /\ IsFiniteSet(Stored')
  BY StoredFinite
<1>6. \A x \in Stored : f[x] \in Nat /\ g[x] = f[x]
  BY <1>2, <1>4
<1>7. ChargeOf(Stored) \in Nat
  BY <1>3, <1>5, <1>6, UnitsFinite
<1>8. ASSUME Stored' = Stored
      PROVE  ChargeOf(Stored)' = ChargeOf(Stored)
  <2>1. Total(f, Stored) = Total(g, Stored)
    BY <1>6, TotalSame
  <2> QED
    BY <1>3, <1>8, <2>1
<1>9. ASSUME s \in Stored, Stored' = Stored \ {s}
      PROVE  /\ ChargeOf(Stored)' = ChargeOf(Stored) - entry[s].charge
             /\ Cardinality(Stored)' = Cardinality(Stored) - 1
  <2>1. OneMore(Stored', Stored, s)
    BY <1>9 DEF OneMore
  <2>2. Agree(g, f, Stored') /\ f[s] \in Nat
    BY <1>2, <1>4, <1>6, <1>9 DEF Agree
  <2>3. /\ Total(g, Stored') \in Nat /\ Total(f, Stored) = Total(g, Stored') + f[s]
        /\ Cardinality(Stored) = Cardinality(Stored') + 1
    BY <1>5, <2>1, <2>2, TotalMore
  <2> QED
    BY <1>3, <1>4, <2>3, StoredFinite
<1>10. ASSUME s \notin Stored, Stored' = Stored \cup {s}
       PROVE  /\ ChargeOf(Stored)' = ChargeOf(Stored) + entry'[s].charge
              /\ Cardinality(Stored)' = Cardinality(Stored) + 1
  <2>1. OneMore(Stored, Stored', s)
    BY <1>10 DEF OneMore
  <2>2. Agree(f, g, Stored) /\ g[s] \in Nat
    BY <1>4, <1>6 DEF Agree
  <2>3. /\ Total(g, Stored') = Total(f, Stored) + g[s]
        /\ Cardinality(Stored') = Cardinality(Stored) + 1
    BY <1>5, <2>1, <2>2, TotalMore
  <2> QED
    BY <1>3, <1>4, <2>3
<1> QED
  BY <1>7, <1>8, <1>9, <1>10
-----------------------------------------------------------------------------
(***************************************************************************)
(* A step of t changes the sums by what it changes for t.                  *)
(***************************************************************************)
LEMMA OthersOwe ==
  ASSUME CInv, NEW t \in Threads, StepOf(t),
         \A s \in Slots : entry'[s] = entry[s] \/ Owns(t, s), NEW u \in Threads \ {t}
  PROVE  OwedUsage(u)' = OwedUsage(u) /\ OwedOccupancy(u)' = OwedOccupancy(u)
<1>1. frame'[u] = frame[u] /\ frame[u] \in Frames
  BY DEF StepOf, CInv, StateType
<1>2. frame[u].cur \in Slots
  BY <1>1, FrameFacts
<1>3. frame[u].pc = "eraseFree" => entry'[frame[u].cur] = entry[frame[u].cur]
  <2> SUFFICES ASSUME frame[u].pc = "eraseFree"
               PROVE  entry'[frame[u].cur] = entry[frame[u].cur]
    OBVIOUS
  <2>1. Owns(u, frame[u].cur)
    BY DEF Owns, Cur
  <2>2. ~Owns(t, frame[u].cur)
    BY <1>2, <2>1 DEF CInv, OwnerInv
  <2> QED
    BY <1>2, <2>2
<1>4. PlacesOf(frame'[u]) = PlacesOf(frame[u])
  BY <1>1
<1>5. UsageOf(frame'[u], entry'[frame'[u].cur].charge) = UsageOf(frame[u], entry[frame[u].cur].charge)
  <2>1. CASE frame[u].pc = "eraseFree"
    BY <1>1, <1>3, <2>1
  <2>2. CASE frame[u].pc # "eraseFree"
    BY <1>1, <2>2 DEF UsageOf
  <2> QED
    BY <2>1, <2>2
<1> QED
  BY <1>4, <1>5, OwedOf

LEMMA OwedNats ==
  ASSUME CInv, CountInv, NEW u \in Threads
  PROVE  /\ OwedUsage(u) \in Nat /\ OwedOccupancy(u) \in Nat
         /\ u \in Placing => OwedOccupancy(u) >= 1
<1>1. frame[u] \in Frames /\ FrameInv(frame[u])
  BY DEF CInv, StateType, CountInv
<1>2. frame[u].cur \in Slots
  BY <1>1, FrameFacts
<1>3. entry[frame[u].cur].charge \in Nat
  BY <1>2 DEF CInv, StateType, Entries
<1> QED
  BY <1>1, <1>3, OwedTypes, OwedOf DEF Placing

LEMMA OwedNext ==
  ASSUME CInv', NEW t \in Threads, FrameInv(frame'[t])
  PROVE  OwedUsage(t)' \in Nat /\ OwedOccupancy(t)' \in Nat
<1>1. frame'[t] \in Frames /\ frame'[t].cur \in Slots
  BY FrameFacts DEF CInv, StateType
<1>2. entry'[frame'[t].cur].charge \in Nat
  BY <1>1 DEF CInv, StateType, Entries
<1> QED
  BY <1>1, <1>2, OwedTypes, OwedOf

LEMMA Balance ==
  ASSUME CInv, CInv', CountInv, NEW t \in Threads, StepOf(t), FrameInv(frame'[t]),
         \A s \in Slots : entry'[s] = entry[s] \/ Owns(t, s),
         ChargeOf(Stored) \in Nat, ChargeOf(Stored)' \in Int,
         usage' - OwedUsage(t)' - ChargeOf(Stored)' = usage - OwedUsage(t) - ChargeOf(Stored),
         occupancy' - OwedOccupancy(t)' - Cardinality(Stored)'
           = occupancy - OwedOccupancy(t) - Cardinality(Stored)
  PROVE  SumsExact' /\ \A u \in Threads : FrameInv(frame'[u])
<1> DEFINE f == [u \in Threads |-> OwedUsage(u)]
           g == [u \in Threads |-> OwedUsage(u)']
           p == [u \in Threads |-> OwedOccupancy(u)]
           q == [u \in Threads |-> OwedOccupancy(u)']
<1>1. \A u \in Threads : FrameInv(frame'[u])
  BY DEF CountInv, StepOf
<1>4. OwedUsage(t)' \in Nat /\ OwedOccupancy(t)' \in Nat
  BY OwedNext
<1>5. /\ \A u \in Threads : f[u] \in Nat /\ p[u] \in Nat
      /\ \A u \in Threads \ {t} : g[u] = f[u] /\ q[u] = p[u]
  BY OwedNats, OthersOwe
<1>6. g[t] = OwedUsage(t)' /\ f[t] = OwedUsage(t) /\ q[t] = OwedOccupancy(t)' /\ p[t] = OwedOccupancy(t)
  OBVIOUS
<1>7. /\ usage = ChargeOf(Stored) + Total(f, Threads)
      /\ occupancy = Cardinality(Stored) + Total(p, Threads)
  BY DEF CountInv, SumsExact
<1>8. SumsExact' <=> /\ usage' = ChargeOf(Stored)' + Total(g, Threads)
                     /\ occupancy' = Cardinality(Stored)' + Total(q, Threads)
  BY DEF SumsExact
<1> HIDE DEF f, g, p, q
<1>9. /\ Total(f, Threads) \in Nat /\ Total(g, Threads) \in Nat
      /\ Total(g, Threads) = Total(f, Threads) + g[t] - f[t]
  BY <1>4, <1>5, <1>6, ClientAssumption, TotalChange
<1>10. /\ Total(p, Threads) \in Nat /\ Total(q, Threads) \in Nat
       /\ Total(q, Threads) = Total(p, Threads) + q[t] - p[t]
  BY <1>4, <1>5, <1>6, ClientAssumption, TotalChange
<1>11. /\ usage \in Int /\ usage' \in Int /\ occupancy \in Int /\ occupancy' \in Int
       /\ OwedUsage(t) \in Nat /\ OwedOccupancy(t) \in Nat
  BY OwedNats DEF CInv, StateType
<1>12. usage' = ChargeOf(Stored)' + Total(g, Threads)
  <2>1. Total(g, Threads) = Total(f, Threads) + OwedUsage(t)' - OwedUsage(t)
    BY <1>6, <1>9
  <2>2. usage' = usage - OwedUsage(t) - ChargeOf(Stored) + OwedUsage(t)' + ChargeOf(Stored)'
    BY <1>4, <1>11
  <2> QED
    BY <1>4, <1>7, <1>9, <1>11, <2>1, <2>2
<1>13. occupancy' = Cardinality(Stored)' + Total(q, Threads)
  <2>1. Cardinality(Stored) \in Int /\ Cardinality(Stored)' \in Int
    BY StoredFinite
  <2>2. Total(q, Threads) = Total(p, Threads) + OwedOccupancy(t)' - OwedOccupancy(t)
    BY <1>6, <1>10
  <2>3. occupancy' = occupancy - OwedOccupancy(t) - Cardinality(Stored)
                       + OwedOccupancy(t)' + Cardinality(Stored)'
    BY <1>4, <1>11, <2>1
  <2> QED
    BY <1>4, <1>7, <1>10, <1>11, <2>1, <2>2, <2>3
<1> QED
  BY <1>1, <1>8, <1>12, <1>13

LEMMA PlacingChange ==
  ASSUME CInv, NEW t \in Threads, StepOf(t)
  PROVE  /\ IsFiniteSet(Placing) /\ Cardinality(Placing) \in Nat /\ Cardinality(Placing)' \in Nat
         /\ t \in Placing <=> Room(frame[t])
         /\ Room(frame'[t]) /\ Room(frame[t]) => Cardinality(Placing)' = Cardinality(Placing)
         /\ ~Room(frame'[t]) /\ ~Room(frame[t]) => Cardinality(Placing)' = Cardinality(Placing)
         /\ Room(frame'[t]) /\ ~Room(frame[t]) => Cardinality(Placing)' = Cardinality(Placing) + 1
         /\ ~Room(frame'[t]) /\ Room(frame[t]) => Cardinality(Placing)' = Cardinality(Placing) - 1
<1> PICK S : S = Placing
  OBVIOUS
<1> PICK R : R = Placing'
  OBVIOUS
<1>1. Placing \subseteq Threads
  BY DEF Placing
<1>2. IsFiniteSet(S)
  BY <1>1, ClientAssumption, FS_Subset
<1>3. S \ {t} = R \ {t}
  BY DEF StepOf, Placing
<1>4. (t \in S <=> Room(frame[t])) /\ (t \in R <=> Room(frame'[t]))
  BY DEF Placing
<1> QED
  BY <1>2, <1>3, <1>4, CountChange

\* A step that leaves the table alone.
Settles(t) ==
  /\ StepOf(t)
  /\ FrameInv(frame'[t])
  /\ \A s \in Slots : entry'[s] = entry[s] \/ Owns(t, s)
  /\ Stored' = Stored
  /\ usage' - OwedUsage(t)' = usage - OwedUsage(t)
  /\ occupancy' - OwedOccupancy(t)' = occupancy - OwedOccupancy(t)
  /\ usage' <= Capacity
  /\ Room(frame'[t]) => Room(frame[t])

LEMMA StoredSame ==
  ASSUME CInv, NEW t \in Threads, \A s \in Slots : entry'[s] = entry[s] \/ Owns(t, s)
  PROVE  \A s \in Stored : entry'[s] = entry[s]
<1> SUFFICES ASSUME NEW s \in Slots, s \in Stored, Owns(t, s)
             PROVE  FALSE
  BY DEF Stored
<1>1. State(meta[s]) = 4
  BY DEF CInv, OwnerInv, StateConstruction
<1> QED
  BY <1>1, StoredState

LEMMA SettlesKeeps ==
  ASSUME CInv, CInv', CountInv, NEW t \in Threads, Settles(t)
  PROVE  CountInv'
<1>1. \A s \in Stored : entry'[s] = entry[s]
  BY StoredSame DEF Settles
<1>2. ChargeOf(Stored)' = ChargeOf(Stored) /\ ChargeOf(Stored) \in Nat
  BY <1>1, SlotFacts, StoredCharge DEF Settles
<1>3. Cardinality(Stored)' = Cardinality(Stored) /\ Cardinality(Stored) \in Nat
  BY StoredFinite DEF Settles
<1>4. /\ usage \in Int /\ usage' \in Int /\ occupancy \in Int /\ occupancy' \in Int
      /\ OwedUsage(t) \in Nat /\ OwedOccupancy(t) \in Nat
  BY OwedNats DEF CInv, StateType
<1>5. OwedUsage(t)' \in Int /\ OwedOccupancy(t)' \in Int
  BY OwedNext DEF Settles
<1>6. SumsExact' /\ \A u \in Threads : FrameInv(frame'[u])
  BY <1>2, <1>3, <1>4, <1>5, Balance DEF Settles
<1>7. Cardinality(Placing)' <= Cardinality(Placing) /\ Cardinality(Placing) \in Nat
         /\ Cardinality(Placing)' \in Nat
  BY PlacingChange DEF Settles
<1>8. OccupancyLimit \in Nat
  BY CounterAssumption
<1> QED
  BY <1>3, <1>6, <1>7, <1>8 DEF CountInv, Settles
-----------------------------------------------------------------------------
(***************************************************************************)
(* A step changes the frame of one thread, and no entry but that of a slot *)
(* it owns.                                                                *)
(***************************************************************************)
LEMMA FrameStep ==
  ASSUME CInv, NEW t \in Threads, NEW u \in Threads \ {t}, Step(t) \/ Begin(t) \/ Release(t)
  PROVE  frame'[u] = frame[u]
<1>0. frame \in [Threads -> Frames]
  BY DEF CInv, StateType
<1>1. CASE LookupRef(t) \/ LookupMatch(t) \/ LookupHitDecr(t) \/ LookupUnref(t) \/ LookupNext(t)
  BY <1>0, <1>1 DEF LookupRef, LookupMatch, LookupHitDecr, LookupUnref, LookupNext, Goto, Return, Probe
<1>2. CASE \/ Reserve(t) \/ EvictStart(t) \/ ClockLoad(t) \/ ClockAge(t) \/ EvictFree(t)
           \/ EvictStep(t)
  BY <1>0, <1>2 DEF Reserve, EvictStart, ClockLoad, ClockAge, EvictFree, EvictStep, Goto
<1>3. CASE ClockTake(t)
  BY <1>0, <1>3 DEF ClockTake
<1>4. CASE \/ EvictOccupancy(t) \/ EvictUsage(t) \/ UndoOccupancy(t) \/ FailOccupancy(t)
           \/ FailUsage(t) \/ EraseOccupancy(t)
  BY <1>0, <1>4 DEF EvictOccupancy, EvictUsage, UndoOccupancy, FailOccupancy, FailUsage,
     EraseOccupancy, Goto, Return
<1>5. CASE \/ InsertSlot(t) \/ InsertRef(t) \/ InsertMatch(t) \/ InsertUnref(t) \/ InsertNext(t)
           \/ InsertFill(t)
  BY <1>0, <1>5 DEF InsertSlot, InsertRef, InsertMatch, InsertUnref, InsertNext, InsertFill, Goto, Return
<1>6. CASE \/ EraseRef(t) \/ EraseMatch(t) \/ EraseUnref(t) \/ EraseOwn(t) \/ EraseFree(t)
           \/ EraseUsage(t)
  BY <1>0, <1>6 DEF EraseRef, EraseMatch, EraseUnref, EraseOwn, EraseFree, EraseUsage, Goto
<1>7. CASE EraseNext(t)
  BY <1>0, <1>7 DEF EraseNext, Probe, EraseEnd, Return
<1>8. CASE Rollback(t)
  BY <1>0, <1>8 DEF Rollback
<1>9. CASE Begin(t) \/ Release(t)
  BY <1>0, <1>9 DEF Begin, LookupBegin, InsertBegin, EraseBegin, Release
<1>10. CASE Step(t)
  BY <1>10, <1>1, <1>2, <1>3, <1>4, <1>5, <1>6, <1>7, <1>8, Zenon DEF Step
<1> QED
  BY <1>9, <1>10

LEMMA ThreadStep ==
  ASSUME CInv, NEW t \in Threads, Step(t) \/ Begin(t) \/ Release(t)
  PROVE  StepOf(t)
<1> SUFFICES ASSUME NEW u \in Threads \ {t}
             PROVE  held'[u] = held[u] /\ todo'[u] = todo[u]
  BY FrameStep DEF StepOf
<1>0. todo \in [Threads -> SUBSET Calls] /\ held \in [Threads -> HeldHandles \cup {None}]
  BY DEF CInv, StateType
<1>1. CASE Begin(t) \/ Release(t)
  BY <1>0, <1>1 DEF Begin, LookupBegin, InsertBegin, EraseBegin, Take, Release
<1>2. CASE LookupMatch(t) \/ LookupHitDecr(t)
  BY <1>0, <1>2 DEF LookupMatch, LookupHitDecr, Hold
<1>3. CASE Step(t) /\ ~LookupMatch(t) /\ ~LookupHitDecr(t)
  BY <1>3 DEF Step, LookupRef, LookupUnref, LookupNext, Reserve,
     EvictStart, ClockLoad, ClockAge, ClockTake, EvictFree, EvictStep, EvictOccupancy,
     EvictUsage, UndoOccupancy, InsertSlot, InsertRef, InsertMatch, InsertUnref, InsertNext,
     InsertFill, FailOccupancy, FailUsage, EraseRef, EraseMatch, EraseUnref, EraseOwn,
     EraseFree, EraseOccupancy, EraseUsage, EraseNext, Rollback,
     OnlyMeta, OnlyDisplacements, OnlyOccupancy, OnlyUsage
<1> QED
  BY <1>1, <1>2, <1>3

LEMMA EntryStep ==
  ASSUME CInv, NEW t \in Threads, Step(t) \/ Begin(t) \/ Release(t), NEW s \in Slots
  PROVE  entry'[s] = entry[s] \/ Owns(t, s)
<1>0. entry \in [Slots -> Entries]
  BY DEF CInv, StateType
<1>1. CASE InsertFill(t) \/ EraseFree(t)
  BY <1>0, <1>1 DEF InsertFill, EraseFree, FreeDataMarkEmpty, Owns, At
<1>2. CASE EvictFree(t)
  BY <1>0, <1>2 DEF EvictFree, FreeDataMarkEmpty, Owns, At
<1>3. CASE Begin(t) \/ Release(t)
  BY <1>3 DEF Begin, LookupBegin, InsertBegin, EraseBegin, Take, Release, shared
<1>4. CASE Step(t) /\ ~InsertFill(t) /\ ~EraseFree(t) /\ ~EvictFree(t)
  BY <1>4 DEF Step, LookupRef, LookupMatch, LookupHitDecr, LookupUnref, LookupNext, Reserve,
     EvictStart, ClockLoad, ClockAge, ClockTake, EvictStep, EvictOccupancy,
     EvictUsage, UndoOccupancy, InsertSlot, InsertRef, InsertMatch, InsertUnref, InsertNext,
     FailOccupancy, FailUsage, EraseRef, EraseMatch, EraseUnref, EraseOwn,
     EraseOccupancy, EraseUsage, EraseNext, Rollback,
     OnlyMeta, OnlyDisplacements, OnlyOccupancy, OnlyUsage, shared
<1> QED
  BY <1>1, <1>2, <1>3, <1>4
-----------------------------------------------------------------------------
(***************************************************************************)
(* Which slots have an entry.                                              *)
(***************************************************************************)
LEMMA MetaWrite ==
  ASSUME CInv, NEW s \in Slots, NEW w, SetMeta(s, w)
  PROVE  /\ State(w) \in {6, 7} /\ s \in Stored => Stored' = Stored
         /\ State(w) \notin {6, 7} /\ s \notin Stored => Stored' = Stored
         /\ State(w) \notin {6, 7} /\ s \in Stored => Stored' = Stored \ {s}
         /\ State(w) \in {6, 7} /\ s \notin Stored => Stored' = Stored \cup {s}
<1>1. meta \in [Slots -> Words]
  BY DEF CInv, StateType
<1>2. meta'[s] = w /\ \A x \in Slots \ {s} : meta'[x] = meta[x]
  BY <1>1 DEF SetMeta
<1>3. \A x \in Slots \ {s} : x \in Stored' <=> x \in Stored
  BY <1>2 DEF Stored
<1>4. s \in Stored' <=> State(w) \in {6, 7}
  BY <1>2 DEF Stored, StateInvisible, StateVisible
<1>5. Stored \subseteq Slots /\ Stored' \subseteq Slots
  BY DEF Stored
<1> QED
  BY <1>3, <1>4, <1>5

\* A reference that is taken stays within its counter, or below the state.
LEMMA RefIncrStored ==
  ASSUME CInv, CountersWide, NoCarry, NEW t \in Threads, NEW s \in Slots,
         Detached(frame[t]), RefIncr(s)
  PROVE  Stored' = Stored
<1> PICK m \in Words : m = meta[s]
  BY DEF CInv, StateType
<1>1. SetMeta(s, Add(m, 1))
  BY DEF RefIncr
<1>2. SlotInv(s) /\ t \notin Probers(s)
  BY DetachedViews DEF CInv
<1>3. CASE s \in Stored
  <2>1. /\ Cardinality(Threads) \in Nat /\ CounterMod \in Nat
        /\ Cardinality(Holders(s)) <= Cardinality(Threads)
        /\ Cardinality(Probers(s)) + 1 <= Cardinality(Threads)
        /\ Cardinality(Holders(s)) \in Nat /\ Cardinality(Probers(s)) \in Nat
    BY <1>2, CountBounds, CounterAssumption
  <2>2. RefCount(m) = Cardinality(Holders(s)) + Cardinality(Probers(s))
    BY <1>2, <1>3 DEF SlotInv, StoredInv
  <2>3. RefCount(m) + 1 < CounterMod
    BY <2>1, <2>2 DEF CountersWide
  <2>4. State(Add(m, 1)) = State(m)
    BY <2>3, RefUp
  <2> QED
    BY <1>1, <1>3, <2>4, MetaWrite, StoredState
<1>4. CASE s \notin Stored
  <2>1. State(Add(m, 1)) = State(m)
    BY <1>4, LowUp DEF NoCarry
  <2> QED
    BY <1>1, <1>4, <2>1, MetaWrite, StoredState
<1> QED
  BY <1>3, <1>4

LEMMA RefDecrStored ==
  ASSUME CInv, NEW t \in Threads, NEW s \in Slots, RefDecr(s),
         t \in Probers(s) \/ t \in Holders(s)
  PROVE  Stored' = Stored
<1> PICK m \in Words : m = meta[s]
  BY DEF CInv, StateType
<1>1. SetMeta(s, Add(m, MetaMod - 1))
  BY DEF RefDecr
<1>2. SlotInv(s)
  BY DEF CInv
<1>3. /\ Cardinality(Holders(s)) \in Nat /\ Cardinality(Probers(s)) \in Nat
      /\ t \in Probers(s) => Cardinality(Probers(s)) # 0
      /\ t \in Holders(s) => Cardinality(Holders(s)) # 0
  BY CountBounds, FS_EmptySet
<1>4. CASE s \in Stored
  <2>1. RefCount(m) = Cardinality(Holders(s)) + Cardinality(Probers(s))
    BY <1>2, <1>4 DEF SlotInv, StoredInv
  <2>2. RefCount(m) >= 1
    BY <1>3, <2>1
  <2>3. State(Add(m, MetaMod - 1)) = State(m)
    BY <2>2, RefDown
  <2> QED
    BY <1>1, <1>4, <2>3, MetaWrite, StoredState
<1>5. CASE s \notin Stored
  <2>1. Low(m) >= Cardinality(Probers(s)) /\ Holders(s) = {}
    BY <1>2, <1>5 DEF SlotInv, VacantInv
  <2>2. Low(m) >= 1
    BY <1>3, <2>1, LowSplit
  <2>3. State(Add(m, MetaMod - 1)) = State(m)
    BY <2>2, LowDown
  <2> QED
    BY <1>1, <1>5, <2>3, MetaWrite, StoredState
<1> QED
  BY <1>4, <1>5

\* A slot that a call has a reference on before and after has an entry.
LEMMA ReferredStored ==
  ASSUME CInv, CInv', NEW t \in Threads, NEW s \in Slots, NEW w, SetMeta(s, w),
         frame[t].cur = s, frame[t].pc \in RefLabels \ {"eraseUnref"},
         \/ frame'[t].cur = s /\ frame'[t].pc \in RefLabels \ {"eraseUnref"}
         \/ held'[t] # None /\ held'[t].slot = s
  PROVE  Stored' = Stored
<1>1. s \in Stored
  BY ProberStored DEF Cur
<1>2. t \in Holders(s)' \/ (t \in Probers(s)' /\ ~At(t, "eraseUnref")')
  BY DEF Holders, Probers, At, Cur
<1>3. s \in Stored'
  BY <1>2 DEF CInv, SlotInv, VacantInv
<1>4. meta'[s] = w
  BY DEF CInv, StateType, SetMeta
<1>5. State(w) \in {6, 7}
  BY <1>3, <1>4 DEF Stored, StateInvisible, StateVisible
<1> QED
  BY <1>1, <1>5, MetaWrite

LEMMA MetaSame ==
  ASSUME UNCHANGED meta
  PROVE  Stored' = Stored
BY DEF Stored

\* A slot that its owner empties had no entry.
LEMMA FreedStored ==
  ASSUME CInv, NEW t \in Threads, NEW s \in Slots, Owns(t, s), FreeDataMarkEmpty(s)
  PROVE  Stored' = Stored
<1>1. State(meta[s]) = 4
  BY DEF CInv, OwnerInv, StateConstruction
<1>2. s \notin Stored
  BY <1>1, StoredState
<1>3. SetMeta(s, Meta(0, 0)) /\ State(Meta(0, 0)) = 0
  <2>1. 0 \in 0 .. 7 /\ 0 \in 0 .. CounterMod - 1
    BY CounterAssumption
  <2> QED
    BY <2>1, MetaFields DEF FreeDataMarkEmpty, StateEmpty
<1> QED
  BY <1>2, <1>3, MetaWrite

\* The steps that neither take an entry out of the table nor put one in.
TableStep(t) ==
  \/ Begin(t) \/ Release(t)
  \/ LookupRef(t) \/ LookupMatch(t) \/ LookupHitDecr(t) \/ LookupUnref(t) \/ LookupNext(t)
  \/ Reserve(t) \/ EvictStart(t) \/ ClockLoad(t) \/ ClockAge(t) \/ EvictFree(t) \/ EvictStep(t)
  \/ EvictOccupancy(t) \/ EvictUsage(t) \/ UndoOccupancy(t)
  \/ InsertSlot(t) \/ InsertRef(t) \/ InsertMatch(t) \/ InsertUnref(t) \/ InsertNext(t)
  \/ FailOccupancy(t) \/ FailUsage(t)
  \/ EraseRef(t) \/ EraseMatch(t) \/ EraseUnref(t) \/ EraseFree(t)
  \/ EraseOccupancy(t) \/ EraseUsage(t) \/ EraseNext(t) \/ Rollback(t)

LEMMA TableSame ==
  ASSUME CInv, CInv', CountersWide, NoCarry, NEW t \in Threads, TableStep(t)
  PROVE  Stored' = Stored
<1>0. frame[t] \in Frames /\ frame \in [Threads -> Frames] /\ Cur(t) \in Slots
      /\ held \in [Threads -> HeldHandles \cup {None}] /\ frame[t].cur = Cur(t)
      /\ meta \in [Slots -> Words]
  BY Actor, FrameFacts DEF Cur, CInv, StateType
\* A probe takes a reference.
<1>1. CASE LookupRef(t) \/ InsertRef(t) \/ EraseRef(t)
  <2>1. frame[t].pc \in {"lookupRef", "slotRef", "eraseRef", "eraseFirst"}
    BY <1>1 DEF LookupRef, InsertRef, EraseRef, At
  <2>2. Detached(frame[t])
    BY <2>1 DEF Detached, RefLabels
  <2>3. Base[Key(t)] \in Slots
    BY <2>1, Actor, SlotFacts
  <2>4. PICK s \in Slots : RefIncr(s)
    BY <1>0, <1>1, <2>3 DEF LookupRef, InsertRef, EraseRef
  <2> QED
    BY <2>2, <2>4, RefIncrStored
\* It gives one back.
<1>2. CASE LookupUnref(t) \/ InsertUnref(t) \/ EraseUnref(t) \/ InsertMatch(t)
  <2>1. frame[t].pc \in RefLabels /\ RefDecr(Cur(t))
    BY <1>2 DEF LookupUnref, InsertUnref, EraseUnref, InsertMatch, At, RefLabels
  <2>2. t \in Probers(Cur(t))
    BY <2>1 DEF Probers
  <2> QED
    BY <1>0, <2>1, <2>2, RefDecrStored
<1>3. CASE Release(t)
  <2>1. RefDecr(held[t].slot) /\ held[t].slot \in Slots /\ t \in Holders(held[t].slot)
    BY <1>3, HolderStored DEF Release
  <2> QED
    BY <2>1, RefDecrStored
\* It writes the word of an entry that it refers to.
<1>4. CASE LookupMatch(t) \/ LookupHitDecr(t) \/ EraseMatch(t)
  <2>1. frame[t].pc \in RefLabels \ {"eraseUnref"}
    BY <1>4 DEF LookupMatch, LookupHitDecr, EraseMatch, At, RefLabels
  <2>2. PICK w : SetMeta(Cur(t), w)
    BY <1>4 DEF LookupMatch, LookupHitDecr, EraseMatch
  <2>3. Hold(t) => held'[t] # None /\ held'[t].slot = Cur(t)
    <3> SUFFICES ASSUME Hold(t)
                 PROVE  held'[t] # None /\ held'[t].slot = Cur(t)
      OBVIOUS
    <3>1. held'[t] = [slot |-> Cur(t), e |-> entry[Cur(t)]]
      BY <1>0 DEF Hold
    <3>2. held'[t] \in [slot : 0 .. Length - 1, e : Entries]
      BY <1>0, <3>1 DEF CInv, StateType, Slots
    <3> QED
      BY <3>1, <3>2, ClientAssumption
  <2>4. Hold(t) \/ (frame'[t].pc \in {"lookupHitDecr", "eraseOwn"} /\ frame'[t].cur = Cur(t))
    <3>1. CASE LookupHitDecr(t)
      BY <3>1 DEF LookupHitDecr
    <3>2. ASSUME NEW n, frame' = [frame EXCEPT ![t].amount = n, ![t].pc = "lookupHitDecr"]
          PROVE  frame'[t].pc = "lookupHitDecr" /\ frame'[t].cur = Cur(t)
      <4>1. frame'[t] = [frame[t] EXCEPT !.amount = n, !.pc = "lookupHitDecr"]
        BY <1>0, <3>2
      <4> QED
        BY <1>0, <4>1 DEF Frames
    <3>3. CASE LookupMatch(t)
      BY <3>2, <3>3 DEF LookupMatch
    <3>4. CASE EraseMatch(t)
      <4>1. frame'[t] = [frame[t] EXCEPT !.found = TRUE, !.m = ClearVisible(meta[Cur(t)]),
                                         !.pc = "eraseOwn"]
        BY <1>0, <3>4 DEF EraseMatch
      <4> QED
        BY <1>0, <4>1 DEF Frames
    <3> QED
      BY <1>4, <3>1, <3>3, <3>4
  <2>5. \/ frame'[t].cur = Cur(t) /\ frame'[t].pc \in RefLabels \ {"eraseUnref"}
        \/ held'[t] # None /\ held'[t].slot = Cur(t)
    BY <2>3, <2>4 DEF RefLabels
  <2> QED
    BY <1>0, <2>1, <2>2, <2>5, ReferredStored
<1>5. CASE ClockAge(t)
  <2>1. CASE UNCHANGED meta
    BY <2>1, MetaSame
  <2>2. CASE meta[ClockSlot(t)] = frame[t].m
    <3>1. ClockSlot(t) \in Slots /\ ClockSlot(t) \in Stored
      BY <1>5, <2>2, TakenStored DEF ClockAge, At
    <3> PICK h : h = Max({HitCount(frame[t].m) - frame[t].delta, 0})
      OBVIOUS
    <3>2. SetMeta(ClockSlot(t), Meta(7, h))
      BY <1>5, <2>2, AgedWord DEF StateVisible
    <3>3. h \in 0 .. CounterMod - 1
      <4>1. frame[t].m \in Words /\ frame[t].delta \in Nat
        BY Actor DEF Frames
      <4>2. HitCount(frame[t].m) \in 0 .. CounterMod - 1
        BY <4>1, WordFields
      <4>3. HitCount(frame[t].m) - frame[t].delta \in Int /\ 0 \in Int
        BY <4>1, <4>2
      <4>4. h \in {HitCount(frame[t].m) - frame[t].delta, 0} /\ h >= 0
        BY <4>3, MaxMin
      <4>5. CounterMod \in Nat \ {0}
        BY CounterAssumption
      <4> QED
        BY <4>1, <4>2, <4>4, <4>5
    <3>4. State(Meta(7, h)) = 7
      BY <3>3, MetaFields
    <3> QED
      BY <3>1, <3>2, <3>4, MetaWrite
  <2> QED
    BY <1>5, <2>1, <2>2 DEF ClockAge
<1>6. CASE EvictFree(t)
  <2>1. Owns(t, ClockSlot(t)) /\ ClockSlot(t) \in Slots
    BY <1>6, ClockSlots DEF EvictFree, Owns
  <2> QED
    BY <1>6, <2>1, FreedStored DEF EvictFree
<1>7. CASE EraseFree(t)
  <2>1. Owns(t, Cur(t))
    BY <1>7 DEF EraseFree, Owns, At
  <2> QED
    BY <1>0, <1>7, <2>1, FreedStored DEF EraseFree
<1>8. CASE InsertSlot(t)
  <2> PICK s \in Slots : s = Cur(t)
    BY <1>0
  <2> PICK m \in Words : m = meta[s]
    BY DEF CInv, StateType
  <2>1. SetMeta(s, SetOccupied(m))
    BY <1>8 DEF InsertSlot
  <2>2. State(m) \in {0, 4, 6, 7}
    BY DEF CInv, SlotInv, StateEmpty, StateConstruction, StateInvisible, StateVisible
  <2>3. State(m) = 0 => State(SetOccupied(m)) = 4
    BY Occupied
  <2>4. State(m) \in {4, 6, 7} => SetOccupied(m) = m
    BY Occupied
  <2> QED
    BY <2>1, <2>2, <2>3, <2>4, MetaWrite, StoredState
\* The others leave the meta words alone.
<1>9. CASE \/ LookupNext(t) \/ Reserve(t) \/ EvictStart(t) \/ ClockLoad(t) \/ EvictStep(t)
           \/ EvictOccupancy(t) \/ EvictUsage(t) \/ UndoOccupancy(t) \/ InsertNext(t)
           \/ FailOccupancy(t) \/ FailUsage(t) \/ EraseOccupancy(t) \/ EraseUsage(t)
           \/ EraseNext(t) \/ Rollback(t) \/ Begin(t)
  <2>1. UNCHANGED meta
    BY <1>9 DEF LookupNext, Reserve, EvictStart, ClockLoad, EvictStep, EvictOccupancy, EvictUsage,
       UndoOccupancy, InsertNext, FailOccupancy, FailUsage, EraseOccupancy, EraseUsage, EraseNext,
       Rollback, Begin, LookupBegin, InsertBegin, EraseBegin, shared, OnlyUsage, OnlyOccupancy,
       OnlyDisplacements
  <2> QED
    BY <2>1, MetaSame
<1> QED
  BY <1>1, <1>2, <1>3, <1>4, <1>5, <1>6, <1>7, <1>8, <1>9, Zenon DEF TableStep
-----------------------------------------------------------------------------
(***************************************************************************)
(* Steps that leave what the call owes as it is.                           *)
(***************************************************************************)
ClockLabels == EvictLabels \ {"evictUsage"}
WalkLabels == {"eraseRef", "eraseMatch", "eraseUnref", "eraseOwn", "eraseNext"}

SameMoney(f, g) ==
  /\ g.call = f.call /\ g.occ = f.occ /\ g.need = f.need
  /\ g.res = f.res /\ g.freed = f.freed /\ g.count = f.count

SamePhase(f, g) ==
  \/ f.pc \in ClockLabels /\ g.pc \in ClockLabels
  \/ f.pc \in ProbeLabels /\ g.pc \in ProbeLabels
  \/ f.pc \in WalkLabels \cup {"eraseFirst"} /\ g.pc \in WalkLabels
  \/ f.pc \in LookupLabels /\ g.pc \in LookupLabels

SameDebt(f, g) ==
  /\ FrameInv(g)
  /\ \A c, d : UsageOf(g, c) = UsageOf(f, d)
  /\ PlacesOf(g) = PlacesOf(f)
  /\ Room(g) => Room(f)

LEMMA PhaseDebt ==
  ASSUME NEW f, NEW g, FrameInv(f), SameMoney(f, g), SamePhase(f, g)
  PROVE  SameDebt(f, g)
<1>1. CASE f.pc \in ClockLabels /\ g.pc \in ClockLabels
  <2>1. Evicting(f) /\ Evicting(g) /\ f.pc # "evictUsage" /\ g.pc # "evictUsage"
    BY <1>1 DEF Evicting, ClockLabels
  <2>2. f.pc \in InsertLabels /\ f.call.op = "insert"
    BY <1>1 DEF InsertLabels, ClockLabels, FrameInv
  <2>3. /\ f.pc \notin {"reserve", "undoOccupancy", "eraseFree", "eraseOccupancy", "eraseUsage",
                        "failUsage", "idle", "rollback"}
        /\ g.pc \notin {"reserve", "undoOccupancy", "eraseFree", "eraseOccupancy", "eraseUsage",
                        "failUsage", "idle", "rollback"}
    BY <1>1 DEF ClockLabels, EvictLabels
  <2> QED
    BY <2>1, <2>2, <2>3 DEF SameMoney, SameDebt, FrameInv, UsageOf, PlacesOf, Room, Settled
<1>2. CASE ~(f.pc \in ClockLabels /\ g.pc \in ClockLabels)
  <2>1. /\ f.pc \notin {"reserve", "undoOccupancy", "eraseFree", "eraseOccupancy", "eraseUsage",
                        "failUsage", "idle", "rollback"}
        /\ g.pc \notin {"reserve", "undoOccupancy", "eraseFree", "eraseOccupancy", "eraseUsage",
                        "failUsage", "idle", "rollback"}
    BY <1>2 DEF SamePhase, ProbeLabels, WalkLabels, LookupLabels
  <2>2. ~Evicting(f) /\ ~Evicting(g)
    BY <1>2, <2>1 DEF SamePhase, Evicting, ProbeLabels, WalkLabels, LookupLabels, EvictLabels
  <2>3. g.pc \in InsertLabels => f.call.op = "insert"
    BY <1>2 DEF SamePhase, FrameInv, InsertLabels, ProbeLabels, WalkLabels, LookupLabels, EvictLabels
  <2> QED
    BY <2>1, <2>2, <2>3 DEF SameMoney, SameDebt, FrameInv, UsageOf, PlacesOf, Room, Settled
<1> QED
  BY <1>1, <1>2

\* Inside Evict.
Clocking(f) == Evicting(f) /\ f.pc # "evictUsage"

LEMMA ClockDebt ==
  ASSUME NEW f, NEW g, FrameInv(f), SameMoney(f, g), Clocking(f), Clocking(g)
  PROVE  SameDebt(f, g)
<1>1. /\ f.pc \notin {"reserve", "undoOccupancy", "eraseFree", "eraseOccupancy", "eraseUsage",
                      "failUsage", "idle"}
      /\ g.pc \notin {"reserve", "undoOccupancy", "eraseFree", "eraseOccupancy", "eraseUsage",
                      "failUsage", "idle"}
  BY DEF Clocking, Evicting, EvictLabels
<1>2. f.call.op = "insert"
  BY DEF Clocking, Evicting, FrameInv, InsertLabels
<1> QED
  BY <1>1, <1>2 DEF Clocking, SameMoney, SameDebt, FrameInv, UsageOf, PlacesOf, Room, Settled

\* An Insert that has its charge and its place in the counters, and nothing else.
Holding(f) == /\ f.call.op = "insert"
              /\ \/ f.pc \in ProbeLabels \cup WalkLabels \cup {"eraseFirst", "fail"}
                 \/ f.pc = "rollback" /\ f.to # "evictFree"

LEMMA HoldingDebt ==
  ASSUME NEW f, NEW g, FrameInv(f), SameMoney(f, g), Holding(f), Holding(g)
  PROVE  SameDebt(f, g)
<1>1. /\ f.pc \notin {"reserve", "undoOccupancy", "eraseFree", "eraseOccupancy", "eraseUsage",
                      "failUsage", "idle"}
      /\ g.pc \notin {"reserve", "undoOccupancy", "eraseFree", "eraseOccupancy", "eraseUsage",
                      "failUsage", "idle"}
  BY DEF Holding, ProbeLabels, WalkLabels
<1>2. ~Evicting(f) /\ ~Evicting(g)
  BY DEF Holding, Evicting, ProbeLabels, WalkLabels, EvictLabels
<1> QED
  BY <1>1, <1>2 DEF Holding, SameMoney, SameDebt, FrameInv, UsageOf, PlacesOf, Room, Settled

LEMMA IdleDebt ==
  /\ FrameInv(Idle) /\ ~Room(Idle) /\ PlacesOf(Idle) = 0
  /\ \A c : UsageOf(Idle, c) = 0
BY DEF FrameInv, Idle, InsertLabels, EvictLabels, ProbeLabels, Evicting, Settled, Room, NoCall,
   PlacesOf, UsageOf

\* A frame of Lookup or of a client's Erase that has nothing to give back.
Free(f) == /\ f.call.op # "insert"
           /\ f.pc \in LookupLabels \cup WalkLabels \/ (f.pc = "rollback" /\ f.to = "eraseNext")

LEMMA FreeDebt ==
  ASSUME NEW f, Free(f)
  PROVE  /\ FrameInv(f) /\ ~Room(f) /\ PlacesOf(f) = 0
         /\ \A c : UsageOf(f, c) = 0
BY DEF Free, FrameInv, InsertLabels, EvictLabels, ProbeLabels, WalkLabels, LookupLabels, Evicting,
   Settled, Room, PlacesOf, UsageOf

\* A call that owes nothing begins or ends.
LEMMA EndDebt ==
  ASSUME NEW f, NEW g, f = Idle \/ Free(f), g = Idle \/ Free(g)
  PROVE  SameDebt(f, g)
BY IdleDebt, FreeDebt DEF SameDebt

LEMMA DebtKept ==
  ASSUME CInv, CInv', CountInv, NEW t \in Threads, Step(t) \/ Begin(t) \/ Release(t),
         Stored' = Stored, UNCHANGED <<usage, occupancy>>, SameDebt(frame[t], frame'[t])
  PROVE  CountInv'
<1>1. StepOf(t) /\ \A s \in Slots : entry'[s] = entry[s] \/ Owns(t, s)
  BY ThreadStep, EntryStep
<1>2. OwedUsage(t)' = OwedUsage(t) /\ OwedOccupancy(t)' = OwedOccupancy(t)
  BY OwedOf DEF SameDebt
<1>3. Settles(t)
  BY <1>1, <1>2 DEF Settles, SameDebt, CountInv
<1> QED
  BY <1>3, SettlesKeeps

LEMMA PhaseKept ==
  ASSUME CInv, CInv', CountInv, NEW t \in Threads, Step(t) \/ Begin(t) \/ Release(t),
         Stored' = Stored, UNCHANGED <<usage, occupancy>>,
         SameMoney(frame[t], frame'[t]), SamePhase(frame[t], frame'[t])
  PROVE  CountInv'
BY PhaseDebt, DebtKept DEF CountInv
-----------------------------------------------------------------------------
(***************************************************************************)
(* One lemma per action.                                                   *)
(***************************************************************************)
\* What a jump leaves in the frame.
SameLocals(f, g) ==
  /\ SameMoney(f, g) /\ g.cur = f.cur /\ g.rb = f.rb /\ g.to = f.to /\ g.amount = f.amount
  /\ g.ptr = f.ptr /\ g.i = f.i

LEMMA Goes ==
  ASSUME CInv, NEW t \in Threads, NEW l, Goto(t, l)
  PROVE  frame'[t].pc = l /\ SameLocals(frame[t], frame'[t])
<1>1. frame[t] \in Frames /\ frame \in [Threads -> Frames]
  BY Actor
<1>2. frame'[t] = [frame[t] EXCEPT !.pc = l]
  BY <1>1 DEF Goto
<1> QED
  BY <1>1, <1>2 DEF Frames, SameLocals, SameMoney

LEMMA ReturnsIdle ==
  ASSUME CInv, NEW t \in Threads, Return(t)
  PROVE  frame'[t] = Idle
BY Actor DEF Return

LEMMA LookupFree ==
  ASSUME CInv, NEW t \in Threads, frame[t].pc \in LookupLabels
  PROVE  Free(frame[t])
<1>1. frame[t].call.op = "lookup"
  BY Actor DEF LocalInv
<1> QED
  BY <1>1 DEF Free

LEMMA LookupRefCounts ==
  ASSUME CInv, CInv', CountersWide, NoCarry, CountInv, NEW t \in Threads, LookupRef(t)
  PROVE  CountInv'
<1>1. frame[t].pc = "lookupRef" /\ frame[t] \in Frames /\ Cur(t) \in Slots /\ RefIncr(Cur(t))
  BY Actor, FrameFacts DEF LookupRef, At, Cur
<1>2. PICK l \in {"lookupMatch", "lookupUnref", "lookupNext"} : Goto(t, l)
  BY DEF LookupRef
<1>3. frame'[t].pc = l /\ SameMoney(frame[t], frame'[t])
  BY <1>2, Goes DEF SameLocals
<1>5. Stored' = Stored
  BY TableSame DEF TableStep
<1>6. UNCHANGED <<usage, occupancy>> /\ Step(t)
  BY DEF LookupRef, OnlyMeta, Step
<1>7. SamePhase(frame[t], frame'[t])
  BY <1>1, <1>2, <1>3 DEF SamePhase, LookupLabels
<1> QED
  BY <1>3, <1>5, <1>6, <1>7, PhaseKept

LEMMA LookupMatchCounts ==
  ASSUME CInv, CInv', CountersWide, NoCarry, CountInv, NEW t \in Threads, LookupMatch(t)
  PROVE  CountInv'
<1>1. frame[t].pc = "lookupMatch" /\ frame[t] \in Frames /\ frame \in [Threads -> Frames]
      /\ Cur(t) \in Slots /\ held \in [Threads -> HeldHandles \cup {None}]
  BY Actor, FrameFacts DEF LookupMatch, At, Cur, CInv, StateType
<1>2. Free(frame[t])
  BY <1>1, LookupFree DEF LookupLabels
<1>3. \/ /\ frame'[t].pc = "lookupHitDecr" /\ frame'[t].call = frame[t].call
         /\ frame'[t].cur = frame[t].cur
      \/ /\ frame'[t] = Idle
         /\ held'[t] = [slot |-> Cur(t), e |-> entry[Cur(t)]]
  <2>1. CASE Return(t) /\ Hold(t)
    BY <1>1, <2>1, ReturnsIdle DEF Hold
  <2>2. ASSUME NEW n, frame' = [frame EXCEPT ![t].amount = n, ![t].pc = "lookupHitDecr"]
        PROVE  /\ frame'[t].pc = "lookupHitDecr" /\ frame'[t].call = frame[t].call
               /\ frame'[t].cur = frame[t].cur
    <3>1. frame'[t] = [frame[t] EXCEPT !.amount = n, !.pc = "lookupHitDecr"]
      BY <1>1, <2>2
    <3> QED
      BY <1>1, <3>1 DEF Frames
  <2> QED
    BY <2>1, <2>2 DEF LookupMatch
<1>4. SameDebt(frame[t], frame'[t])
  <2>1. CASE frame'[t] = Idle
    BY <1>2, <2>1, EndDebt
  <2>2. CASE frame'[t].pc = "lookupHitDecr" /\ frame'[t].call = frame[t].call
    <3>1. Free(frame'[t])
      BY <1>2, <2>2 DEF Free, LookupLabels
    <3> QED
      BY <1>2, <3>1, EndDebt
  <2> QED
    BY <1>3, <2>1, <2>2
<1>5. Stored' = Stored
  BY TableSame DEF TableStep
<1>6. UNCHANGED <<usage, occupancy>> /\ Step(t)
  BY DEF LookupMatch, Step
<1> QED
  BY <1>4, <1>5, <1>6, DebtKept

LEMMA LookupHitDecrCounts ==
  ASSUME CInv, CInv', CountersWide, NoCarry, CountInv, NEW t \in Threads, LookupHitDecr(t)
  PROVE  CountInv'
<1>1. frame[t].pc = "lookupHitDecr" /\ frame[t] \in Frames /\ Cur(t) \in Slots
      /\ held \in [Threads -> HeldHandles \cup {None}]
  BY Actor, FrameFacts DEF LookupHitDecr, At, Cur, CInv, StateType
<1>2. Free(frame[t])
  BY <1>1, LookupFree DEF LookupLabels
<1>3. frame'[t] = Idle
  BY ReturnsIdle DEF LookupHitDecr
<1>4. SameDebt(frame[t], frame'[t])
  BY <1>2, <1>3, EndDebt
<1>5. Stored' = Stored
  BY TableSame DEF TableStep
<1>6. UNCHANGED <<usage, occupancy>> /\ Step(t)
  BY DEF LookupHitDecr, Step
<1> QED
  BY <1>4, <1>5, <1>6, DebtKept

\* The probes that give a reference back and go on.
LEMMA UnrefCounts ==
  ASSUME CInv, CInv', CountersWide, NoCarry, CountInv, NEW t \in Threads, LookupUnref(t) \/ InsertUnref(t) \/ EraseUnref(t)
  PROVE  CountInv'
<1>3. Stored' = Stored
  BY TableSame DEF TableStep
<1>4. UNCHANGED <<usage, occupancy>> /\ Step(t)
  BY DEF LookupUnref, InsertUnref, EraseUnref, OnlyMeta, Step
<1>5. /\ LookupUnref(t) => Goto(t, "lookupNext") /\ frame[t].pc \in LookupLabels
      /\ InsertUnref(t) => Goto(t, "slotNext") /\ frame[t].pc \in ProbeLabels
      /\ EraseUnref(t) => Goto(t, "eraseNext") /\ frame[t].pc \in WalkLabels
  BY DEF LookupUnref, InsertUnref, EraseUnref, At, LookupLabels, ProbeLabels, WalkLabels
<1>6. /\ Goto(t, "lookupNext") => frame'[t].pc = "lookupNext" /\ SameMoney(frame[t], frame'[t])
      /\ Goto(t, "slotNext") => frame'[t].pc = "slotNext" /\ SameMoney(frame[t], frame'[t])
      /\ Goto(t, "eraseNext") => frame'[t].pc = "eraseNext" /\ SameMoney(frame[t], frame'[t])
  BY Goes DEF SameLocals
<1>7. SamePhase(frame[t], frame'[t]) /\ SameMoney(frame[t], frame'[t])
  BY <1>5, <1>6 DEF SamePhase, LookupLabels, ProbeLabels, WalkLabels
<1> QED
  BY <1>3, <1>4, <1>7, PhaseKept

LEMMA BeginCounts ==
  ASSUME CInv, CInv', CountInv, NEW t \in Threads, NEW c \in todo[t],
         LookupBegin(t, c) \/ EraseBegin(t, c)
  PROVE  CountInv'
<1>1. frame[t] \in Frames /\ frame \in [Threads -> Frames] /\ frame[t] = Idle
  BY Actor DEF LookupBegin, EraseBegin, Take, At, CountInv, FrameInv
<1>2. Free(frame'[t])
  <2>1. ASSUME NEW s, NEW l \in {"lookupRef", "eraseRef"}, c.op # "insert",
               frame' = [frame EXCEPT ![t].call = c, ![t].cur = s, ![t].pc = l]
        PROVE  Free(frame'[t])
    <3>1. frame'[t] = [frame[t] EXCEPT !.call = c, !.cur = s, !.pc = l]
      BY <1>1, <2>1
    <3>2. frame'[t].call = c /\ frame'[t].pc = l
      BY <1>1, <3>1 DEF Frames
    <3> QED
      BY <2>1, <3>2 DEF Free, LookupLabels, WalkLabels
  <2> QED
    BY <2>1 DEF LookupBegin, EraseBegin, Take
<1>3. UNCHANGED <<meta, usage, occupancy>> /\ Begin(t)
  BY DEF LookupBegin, EraseBegin, shared, Begin
<1> QED
  BY <1>1, <1>2, <1>3, MetaSame, EndDebt, DebtKept

LEMMA LookupNextCounts ==
  ASSUME CInv, CInv', CountInv, NEW t \in Threads, LookupNext(t)
  PROVE  CountInv'
<1>1. frame[t] \in Frames /\ frame \in [Threads -> Frames] /\ frame[t].pc = "lookupNext"
  BY Actor DEF LookupNext, At
<1>2. Free(frame[t])
  BY <1>1, LookupFree DEF LookupLabels
<1>3. frame'[t] = Idle \/ Free(frame'[t])
  <2>1. CASE Return(t)
    BY <2>1, ReturnsIdle
  <2>2. ASSUME NEW s, frame' = [frame EXCEPT ![t].cur = s, ![t].pc = "lookupRef"]
        PROVE  Free(frame'[t])
    <3>1. frame'[t] = [frame[t] EXCEPT !.cur = s, !.pc = "lookupRef"]
      BY <1>1, <2>2
    <3>2. frame'[t].call = frame[t].call /\ frame'[t].pc = "lookupRef"
      BY <1>1, <3>1 DEF Frames
    <3> QED
      BY <1>2, <3>2 DEF Free, LookupLabels
  <2> QED
    BY <2>1, <2>2 DEF LookupNext, Probe
<1>4. UNCHANGED <<meta, usage, occupancy>> /\ Step(t)
  BY DEF LookupNext, shared, Step
<1> QED
  BY <1>2, <1>3, <1>4, MetaSame, EndDebt, DebtKept

LEMMA ReleaseCounts ==
  ASSUME CInv, CInv', CountersWide, NoCarry, CountInv, NEW t \in Threads, Release(t)
  PROVE  CountInv'
<1>2. Stored' = Stored
  BY TableSame DEF TableStep
<1>3. SameDebt(frame[t], frame'[t])
  <2>1. frame'[t] = frame[t] /\ FrameInv(frame[t])
    BY DEF Release, CountInv
  <2>2. frame[t] = Idle
    BY <2>1 DEF Release, At, FrameInv
  <2> QED
    BY <2>1, <2>2, EndDebt
<1>4. UNCHANGED <<usage, occupancy>>
  BY DEF Release
<1> QED
  BY <1>2, <1>3, <1>4, DebtKept

\* The steps of Evict that empty no slot.
LEMMA SweepCounts ==
  ASSUME CInv, CInv', CountInv, NEW t \in Threads, EvictStart(t) \/ ClockLoad(t) \/ EvictStep(t)
  PROVE  CountInv'
<1>1. frame[t] \in Frames /\ frame \in [Threads -> Frames] /\ frame[t].pc \in {"evict", "clockLoad"}
  BY Actor DEF EvictStart, ClockLoad, EvictStep, At
<1>2. frame'[t].pc \in {"clockLoad", "clockAge", "clockTake", "evictOccupancy"}
      /\ SameMoney(frame[t], frame'[t])
  <2>1. CASE EvictStart(t)
    <3>1. frame'[t] = [frame[t] EXCEPT !.ptr = clock_pointer, !.max = clock_pointer + MaxCountdown * Length,
                                       !.delta = hit_decr_delta, !.pc = "clockLoad"]
      BY <1>1, <2>1 DEF EvictStart
    <3> QED
      BY <1>1, <3>1 DEF Frames, SameMoney
  <2>2. CASE ClockLoad(t)
    <3>1. \/ frame'[t] = [frame[t] EXCEPT !.i = @ + 1]
          \/ frame'[t] = [frame[t] EXCEPT !.pinned = @ + 1, !.i = @ + 1]
          \/ \E l \in {"clockAge", "clockTake"} :
               frame'[t] = [frame[t] EXCEPT !.m = meta[ClockSlot(t)], !.pc = l]
      BY <1>1, <2>2 DEF ClockLoad
    <3>2. frame[t].pc = "clockLoad"
      BY <2>2 DEF ClockLoad, At
    <3> QED
      BY <1>1, <3>1, <3>2 DEF Frames, SameMoney
  <2>3. CASE EvictStep(t)
    <3>1. \/ Goto(t, "evictOccupancy")
          \/ frame'[t] = [frame[t] EXCEPT !.ptr = clock_pointer, !.i = 0, !.off = @ + StepSize,
                                          !.delta = NextDelta(frame[t])]
      BY <1>1, <2>3 DEF EvictStep
    <3>2. frame[t].pc = "clockLoad"
      BY <2>3 DEF EvictStep, At
    <3>3. CASE Goto(t, "evictOccupancy")
      BY <3>3, Goes DEF SameLocals
    <3>4. CASE frame'[t] = [frame[t] EXCEPT !.ptr = clock_pointer, !.i = 0, !.off = @ + StepSize,
                                            !.delta = NextDelta(frame[t])]
      BY <1>1, <3>2, <3>4 DEF Frames, SameMoney
    <3> QED
      BY <3>1, <3>3, <3>4
  <2> QED
    BY <2>1, <2>2, <2>3
<1>3. SamePhase(frame[t], frame'[t])
  BY <1>1, <1>2 DEF SamePhase, ClockLabels, EvictLabels
<1>4. UNCHANGED <<meta, usage, occupancy>> /\ Step(t)
  BY DEF EvictStart, ClockLoad, EvictStep, shared, Step
<1> QED
  BY <1>2, <1>3, <1>4, MetaSame, PhaseKept

\* A CAS of Evict that fails.
LEMMA MissCounts ==
  ASSUME CInv, CInv', CountInv, NEW t \in Threads, Step(t), Stored' = Stored,
         UNCHANGED <<usage, occupancy>>, frame[t].pc \in {"clockAge", "clockTake"},
         frame' = [frame EXCEPT ![t].i = @ + 1, ![t].m = 0, ![t].pc = "clockLoad"]
  PROVE  CountInv'
<1>1. frame[t] \in Frames /\ frame \in [Threads -> Frames]
  BY Actor
<1>2. frame'[t] = [frame[t] EXCEPT !.i = @ + 1, !.m = 0, !.pc = "clockLoad"]
  BY <1>1
<1>3. frame'[t].pc = "clockLoad" /\ SameMoney(frame[t], frame'[t])
  BY <1>1, <1>2 DEF Frames, SameMoney
<1>4. SamePhase(frame[t], frame'[t])
  BY <1>3 DEF SamePhase, ClockLabels, EvictLabels
<1> QED
  BY <1>3, <1>4, PhaseKept

LEMMA ClockAgeCounts ==
  ASSUME CInv, CInv', CountersWide, NoCarry, CountInv, NEW t \in Threads, ClockAge(t)
  PROVE  CountInv'
<1>1. frame[t].pc = "clockAge" /\ UNCHANGED <<usage, occupancy>> /\ Step(t)
      /\ frame' = [frame EXCEPT ![t].i = @ + 1, ![t].m = 0, ![t].pc = "clockLoad"]
  BY DEF ClockAge, At, OnlyMeta, Step
<1>2. Stored' = Stored
  BY TableSame DEF TableStep
<1> QED
  BY <1>1, <1>2, MissCounts

LEMMA EvictFreeCounts ==
  ASSUME CInv, CInv', CountersWide, NoCarry, CountInv, NEW t \in Threads, EvictFree(t)
  PROVE  CountInv'
<1>1. frame[t] \in Frames /\ frame \in [Threads -> Frames] /\ frame[t].pc = "evictFree"
  BY Actor DEF EvictFree, At
<1>2. frame'[t] = [frame[t] EXCEPT !.i = @ + 1, !.pc = "clockLoad"]
  BY <1>1 DEF EvictFree
<1>3. frame'[t].pc = "clockLoad" /\ SameMoney(frame[t], frame'[t])
  BY <1>1, <1>2 DEF Frames, SameMoney
<1>4. SamePhase(frame[t], frame'[t])
  BY <1>1, <1>3 DEF SamePhase, ClockLabels, EvictLabels
<1>6. Stored' = Stored
  BY TableSame DEF TableStep
<1>7. UNCHANGED <<usage, occupancy>> /\ Step(t)
  BY DEF EvictFree, Step
<1> QED
  BY <1>3, <1>4, <1>6, <1>7, PhaseKept

LEMMA InsertSlotCounts ==
  ASSUME CInv, CInv', CountersWide, NoCarry, CountInv, NEW t \in Threads, InsertSlot(t)
  PROVE  CountInv'
<1>1. frame[t].pc = "slot" /\ frame[t] \in Frames /\ Cur(t) \in Slots
  BY Actor, FrameFacts DEF InsertSlot, At, Cur
<1>2. PICK l \in {"fill", "slotRef", "slotNext"} : Goto(t, l)
  BY DEF InsertSlot
<1>3. frame'[t].pc = l /\ SameMoney(frame[t], frame'[t])
  BY <1>2, Goes DEF SameLocals
<1>4. Stored' = Stored
  BY TableSame DEF TableStep
<1>5. UNCHANGED <<usage, occupancy>> /\ Step(t)
  BY DEF InsertSlot, OnlyMeta, Step
<1>6. SamePhase(frame[t], frame'[t])
  BY <1>1, <1>2, <1>3 DEF SamePhase, ProbeLabels
<1> QED
  BY <1>3, <1>4, <1>5, <1>6, PhaseKept

LEMMA InsertRefCounts ==
  ASSUME CInv, CInv', CountersWide, NoCarry, CountInv, NEW t \in Threads, InsertRef(t)
  PROVE  CountInv'
<1>1. frame[t].pc = "slotRef" /\ frame[t] \in Frames /\ Cur(t) \in Slots /\ RefIncr(Cur(t))
  BY Actor, FrameFacts DEF InsertRef, At, Cur
<1>2. PICK l \in {"slotMatch", "slotUnref", "slotNext"} : Goto(t, l)
  BY DEF InsertRef
<1>3. frame'[t].pc = l /\ SameMoney(frame[t], frame'[t])
  BY <1>2, Goes DEF SameLocals
<1>5. Stored' = Stored
  BY TableSame DEF TableStep
<1>6. UNCHANGED <<usage, occupancy>> /\ Step(t)
  BY DEF InsertRef, OnlyMeta, Step
<1>7. SamePhase(frame[t], frame'[t])
  BY <1>1, <1>2, <1>3 DEF SamePhase, ProbeLabels
<1> QED
  BY <1>3, <1>5, <1>6, <1>7, PhaseKept

LEMMA EraseRefCounts ==
  ASSUME CInv, CInv', CountersWide, NoCarry, CountInv, NEW t \in Threads, EraseRef(t)
  PROVE  CountInv'
<1>1. frame[t].pc \in {"eraseRef", "eraseFirst"} /\ frame[t] \in Frames /\ frame \in [Threads -> Frames]
      /\ Key(t) \in Keys /\ Cur(t) \in Slots
  BY Actor, FrameFacts DEF EraseRef, At, Cur
<1>2. PICK s \in {Base[Key(t)], Cur(t)} :
        /\ RefIncr(s)
        /\ frame' = [frame EXCEPT ![t].cur = s,
              ![t].pc = IF State(meta[s]) = StateVisible THEN "eraseMatch" ELSE "eraseUnref"]
  BY DEF EraseRef
<1>4. PICK l \in {"eraseMatch", "eraseUnref"} : frame' = [frame EXCEPT ![t].cur = s, ![t].pc = l]
  BY <1>2
<1>5. frame'[t] = [frame[t] EXCEPT !.cur = s, !.pc = l]
  BY <1>1, <1>4
<1>6. frame'[t].pc = l /\ SameMoney(frame[t], frame'[t])
  BY <1>1, <1>5 DEF Frames, SameMoney
<1>8. Stored' = Stored
  BY TableSame DEF TableStep
<1>9. UNCHANGED <<usage, occupancy>> /\ Step(t)
  BY DEF EraseRef, OnlyMeta, Step
<1>10. SamePhase(frame[t], frame'[t])
  BY <1>1, <1>4, <1>6 DEF SamePhase, WalkLabels
<1> QED
  BY <1>6, <1>8, <1>9, <1>10, PhaseKept

LEMMA EraseMatchCounts ==
  ASSUME CInv, CInv', CountersWide, NoCarry, CountInv, NEW t \in Threads, EraseMatch(t)
  PROVE  CountInv'
<1>1. frame[t].pc = "eraseMatch" /\ frame[t] \in Frames /\ frame \in [Threads -> Frames]
      /\ Cur(t) \in Slots
  BY Actor, FrameFacts DEF EraseMatch, At, Cur
<1>2. frame'[t] = [frame[t] EXCEPT !.found = TRUE, !.m = ClearVisible(meta[Cur(t)]), !.pc = "eraseOwn"]
  BY <1>1 DEF EraseMatch
<1>3. frame'[t].pc = "eraseOwn" /\ SameMoney(frame[t], frame'[t]) /\ frame'[t].cur = Cur(t)
  BY <1>1, <1>2 DEF Frames, SameMoney, Cur
<1>6. Stored' = Stored
  BY TableSame DEF TableStep
<1>7. UNCHANGED <<usage, occupancy>> /\ Step(t)
  BY DEF EraseMatch, OnlyMeta, Step
<1>8. SamePhase(frame[t], frame'[t])
  BY <1>1, <1>3 DEF SamePhase, WalkLabels
<1> QED
  BY <1>3, <1>6, <1>7, <1>8, PhaseKept

\* The frame that RollbackTo makes.
LEMMA RolledFrame ==
  ASSUME NEW f \in Frames, NEW k, NEW h, NEW l
  PROVE  LET g == RollbackTo(f, k, h, l)
         IN  /\ SameMoney(f, g) /\ g.cur = f.cur /\ g.ptr = f.ptr /\ g.i = f.i
             /\ Base[k] = h => g.pc = l
             /\ Base[k] # h => g.pc = "rollback" /\ g.to = l /\ g.rb = Base[k]
<1>1. CASE Base[k] = h
  <2>1. RollbackTo(f, k, h, l) = [f EXCEPT !.pc = l]
    BY <1>1 DEF RollbackTo
  <2> QED
    BY <1>1, <2>1 DEF Frames, SameMoney
<1>2. CASE Base[k] # h
  <2>1. RollbackTo(f, k, h, l) = [f EXCEPT !.rb = Base[k], !.to = l, !.pc = "rollback"]
    BY <1>2 DEF RollbackTo
  <2> QED
    BY <1>2, <2>1 DEF Frames, SameMoney
<1> QED
  BY <1>1, <1>2

LEMMA InsertMatchCounts ==
  ASSUME CInv, CInv', CountersWide, NoCarry, CountInv, NEW t \in Threads, InsertMatch(t)
  PROVE  CountInv'
<1>1. frame[t].pc = "slotMatch" /\ frame[t] \in Frames /\ frame \in [Threads -> Frames]
      /\ Cur(t) \in Slots /\ RefDecr(Cur(t)) /\ FrameInv(frame[t])
  BY Actor, FrameFacts DEF InsertMatch, At, Cur, CountInv
<1>2. frame[t].call.op = "insert"
  BY <1>1 DEF FrameInv, InsertLabels, ProbeLabels
<1>3. PICK l \in {"fail", "eraseFirst"} : frame'[t] = RollbackTo(frame[t], Key(t), Cur(t), l)
  BY <1>1 DEF InsertMatch
<1> PICK g : g = RollbackTo(frame[t], Key(t), Cur(t), l)
  OBVIOUS
<1>4. SameMoney(frame[t], g) /\ (g.pc = l \/ (g.pc = "rollback" /\ g.to = l))
  BY <1>1, RolledFrame
<1>5. Holding(frame[t]) /\ Holding(g)
  BY <1>1, <1>2, <1>3, <1>4 DEF Holding, ProbeLabels, SameMoney
<1>6. SameDebt(frame[t], frame'[t])
  BY <1>1, <1>3, <1>4, <1>5, HoldingDebt
<1>8. Stored' = Stored
  BY TableSame DEF TableStep
<1>9. UNCHANGED <<usage, occupancy>> /\ Step(t)
  BY DEF InsertMatch, OnlyMeta, Step
<1> QED
  BY <1>6, <1>8, <1>9, DebtKept

LEMMA InsertNextCounts ==
  ASSUME CInv, CInv', CountInv, NEW t \in Threads, InsertNext(t)
  PROVE  CountInv'
<1>1. frame[t].pc = "slotNext" /\ frame[t] \in Frames /\ frame \in [Threads -> Frames]
      /\ FrameInv(frame[t])
  BY Actor DEF InsertNext, At, CountInv
<1>2. frame[t].call.op = "insert"
  BY <1>1 DEF FrameInv, InsertLabels, ProbeLabels
<1>3. \/ frame'[t] = RollbackTo(frame[t], Key(t), Cur(t), "fail")
      \/ frame'[t] = [frame[t] EXCEPT !.cur = NextSlot(Key(t), Cur(t)), !.pc = "slot"]
  BY <1>1 DEF InsertNext
<1>4. SameMoney(frame[t], frame'[t]) /\ Holding(frame'[t])
  <2>1. CASE frame'[t] = RollbackTo(frame[t], Key(t), Cur(t), "fail")
    <3> PICK g : g = RollbackTo(frame[t], Key(t), Cur(t), "fail")
      OBVIOUS
    <3>1. SameMoney(frame[t], g) /\ (g.pc = "fail" \/ (g.pc = "rollback" /\ g.to = "fail"))
      BY <1>1, RolledFrame
    <3>2. Holding(g)
      BY <1>2, <3>1 DEF Holding, SameMoney
    <3> QED
      BY <2>1, <3>1, <3>2
  <2>2. CASE frame'[t] = [frame[t] EXCEPT !.cur = NextSlot(Key(t), Cur(t)), !.pc = "slot"]
    <3>1. SameMoney(frame[t], frame'[t]) /\ frame'[t].pc = "slot"
      BY <1>1, <2>2 DEF Frames, SameMoney
    <3> QED
      BY <1>2, <3>1 DEF Holding, SameMoney, ProbeLabels
  <2> QED
    BY <1>3, <2>1, <2>2
<1>5. Holding(frame[t])
  BY <1>1, <1>2 DEF Holding, ProbeLabels
<1>6. SameDebt(frame[t], frame'[t])
  BY <1>1, <1>4, <1>5, HoldingDebt
<1>7. UNCHANGED <<meta, usage, occupancy>> /\ Step(t)
  BY DEF InsertNext, OnlyDisplacements, Step
<1> QED
  BY <1>6, <1>7, MetaSame, DebtKept

LEMMA RollbackCounts ==
  ASSUME CInv, CInv', CountInv, NEW t \in Threads, Rollback(t)
  PROVE  CountInv'
<1>1. frame[t].pc = "rollback" /\ frame[t] \in Frames /\ frame \in [Threads -> Frames]
      /\ FrameInv(frame[t])
      /\ frame[t].to \in {"evictFree", "fail", "eraseFirst", "eraseNext"}
  BY Actor DEF Rollback, At, CountInv, LocalInv
<1>2. \/ frame'[t] = [frame[t] EXCEPT !.rb = 0, !.to = "idle", !.pc = frame[t].to]
      \/ frame'[t] = [frame[t] EXCEPT !.rb = NextSlot(RollbackKey(t), frame[t].rb)]
  BY <1>1 DEF Rollback
<1>3. /\ SameMoney(frame[t], frame'[t])
      /\ frame'[t].pc = frame[t].to \/ (frame'[t].pc = "rollback" /\ frame'[t].to = frame[t].to)
  <2>1. CASE frame'[t] = [frame[t] EXCEPT !.rb = 0, !.to = "idle", !.pc = frame[t].to]
    BY <1>1, <2>1 DEF Frames, SameMoney
  <2>2. CASE frame'[t] = [frame[t] EXCEPT !.rb = NextSlot(RollbackKey(t), frame[t].rb)]
    BY <1>1, <2>2 DEF Frames, SameMoney
  <2> QED
    BY <1>2, <2>1, <2>2
<1>4. SameDebt(frame[t], frame'[t])
  <2>1. CASE frame[t].to = "evictFree"
    <3>1. Clocking(frame[t]) /\ Clocking(frame'[t])
      BY <1>1, <1>3, <2>1 DEF Clocking, Evicting, EvictLabels
    <3> QED
      BY <1>1, <1>3, <3>1, ClockDebt
  <2>2. CASE frame[t].to # "evictFree" /\ frame[t].call.op = "insert"
    <3>1. Holding(frame[t]) /\ Holding(frame'[t])
      BY <1>1, <1>3, <2>2 DEF Holding, SameMoney, WalkLabels
    <3> QED
      BY <1>1, <1>3, <3>1, HoldingDebt
  <2>3. CASE frame[t].call.op # "insert"
    <3>1. frame[t].to = "eraseNext"
      BY <1>1, <2>3 DEF FrameInv
    <3>2. Free(frame[t]) /\ Free(frame'[t])
      BY <1>1, <1>3, <2>3, <3>1 DEF Free, SameMoney, WalkLabels
    <3> QED
      BY <3>2, EndDebt
  <2> QED
    BY <2>1, <2>2, <2>3
<1>5. UNCHANGED <<meta, usage, occupancy>> /\ Step(t)
  BY DEF Rollback, OnlyDisplacements, Step
<1> QED
  BY <1>4, <1>5, MetaSame, DebtKept

LEMMA EraseNextCounts ==
  ASSUME CInv, CInv', CountInv, NEW t \in Threads, EraseNext(t)
  PROVE  CountInv'
<1>1. frame[t].pc = "eraseNext" /\ frame[t] \in Frames /\ frame \in [Threads -> Frames]
      /\ FrameInv(frame[t]) /\ frame[t].call \in Calls /\ frame[t].call.op # "lookup"
  BY Actor DEF EraseNext, At, CountInv, LocalInv, LookupLabels
<1>2. frame[t].call.op \in {"insert", "erase"}
  BY <1>1 DEF Calls
<1>3. \/ frame'[t] = Idle /\ frame[t].call.op = "erase"
      \/ frame'[t] = [frame[t] EXCEPT !.cur = NextSlot(Key(t), Cur(t)), !.pc = "eraseRef"]
      \/ /\ frame[t].call.op = "insert"
         /\ \E l \in {"slot", "fail"} :
              frame'[t] = [frame[t] EXCEPT !.again = TRUE, !.cur = Base[Key(t)], !.pc = l]
  <2>1. CASE frame' = [frame EXCEPT ![t].cur = NextSlot(Key(t), Cur(t)), ![t].pc = "eraseRef"]
    BY <1>1, <2>1
  <2>2. CASE EraseEnd(t) /\ frame[t].call.op = "erase"
    BY <2>2, ReturnsIdle DEF EraseEnd
  <2>3. CASE EraseEnd(t) /\ frame[t].call.op = "insert"
    BY <1>1, <2>3 DEF EraseEnd
  <2> QED
    BY <1>2, <2>1, <2>2, <2>3 DEF EraseNext, Probe
<1>4. SameDebt(frame[t], frame'[t])
  <2>1. CASE frame'[t] = Idle /\ frame[t].call.op = "erase"
    <3>1. Free(frame[t])
      BY <1>1, <2>1 DEF Free, WalkLabels
    <3> QED
      BY <2>1, <3>1, EndDebt
  <2>2. CASE frame'[t] = [frame[t] EXCEPT !.cur = NextSlot(Key(t), Cur(t)), !.pc = "eraseRef"]
    <3>1. SameMoney(frame[t], frame'[t]) /\ frame'[t].pc = "eraseRef"
      BY <1>1, <2>2 DEF Frames, SameMoney
    <3>2. SamePhase(frame[t], frame'[t])
      BY <1>1, <3>1 DEF SamePhase, WalkLabels
    <3> QED
      BY <1>1, <3>1, <3>2, PhaseDebt
  <2>3. ASSUME frame[t].call.op = "insert", NEW l \in {"slot", "fail"},
               frame'[t] = [frame[t] EXCEPT !.again = TRUE, !.cur = Base[Key(t)], !.pc = l]
        PROVE  SameDebt(frame[t], frame'[t])
    <3>1. SameMoney(frame[t], frame'[t]) /\ frame'[t].pc = l
      BY <1>1, <2>3 DEF Frames, SameMoney
    <3>2. Holding(frame[t]) /\ Holding(frame'[t])
      BY <1>1, <2>3, <3>1 DEF Holding, SameMoney, WalkLabels, ProbeLabels
    <3> QED
      BY <1>1, <3>1, <3>2, HoldingDebt
  <2> QED
    BY <1>3, <2>1, <2>2, <2>3
<1>5. UNCHANGED <<meta, usage, occupancy>> /\ Step(t)
  BY DEF EraseNext, shared, Step
<1> QED
  BY <1>4, <1>5, MetaSame, DebtKept
-----------------------------------------------------------------------------
(***************************************************************************)
(* Steps that settle a share: usage_ and occupancy_ change by what the     *)
(* call owes less.                                                         *)
(***************************************************************************)
Pays(f, g, a, b) ==
  /\ FrameInv(g)
  /\ \A c, d : UsageOf(g, c) = UsageOf(f, d) - a
  /\ PlacesOf(g) = PlacesOf(f) - b
  /\ Room(g) => Room(f)

LEMMA DebtPaid ==
  ASSUME CInv, CInv', CountInv, NEW t \in Threads, Step(t), Stored' = Stored,
         NEW a \in Int, NEW b \in Int, usage' = usage - a, occupancy' = occupancy - b,
         usage' <= Capacity, Pays(frame[t], frame'[t], a, b)
  PROVE  CountInv'
<1>1. StepOf(t) /\ \A s \in Slots : entry'[s] = entry[s] \/ Owns(t, s)
  BY ThreadStep, EntryStep
<1>2. OwedUsage(t)' = OwedUsage(t) - a /\ OwedOccupancy(t)' = OwedOccupancy(t) - b
  BY OwedOf DEF Pays
<1>3. /\ usage \in Int /\ occupancy \in Int /\ OwedUsage(t) \in Int /\ OwedOccupancy(t) \in Int
  BY OwedNats DEF CInv, StateType
<1>4. /\ usage' - OwedUsage(t)' = usage - OwedUsage(t)
      /\ occupancy' - OwedOccupancy(t)' = occupancy - OwedOccupancy(t)
  BY <1>2, <1>3
<1>5. Settles(t)
  BY <1>1, <1>4 DEF Settles, Pays
<1> QED
  BY <1>5, SettlesKeeps

\* A share that is given back leaves usage_ below the capacity.
LEMMA Lowers ==
  ASSUME CInv, CountInv, NEW a \in Nat, usage' = usage - a
  PROVE  usage' <= Capacity
<1>1. usage \in Int /\ usage <= Capacity /\ Capacity \in Nat
  BY CounterAssumption DEF CInv, StateType, CountInv
<1> QED
  BY <1>1

LEMMA EvictOccupancyCounts ==
  ASSUME CInv, CInv', CountInv, NEW t \in Threads, EvictOccupancy(t)
  PROVE  CountInv'
<1> PICK f \in Frames : f = frame[t]
  BY Actor
<1>1. f.pc = "evictOccupancy" /\ FrameInv(f)
  BY DEF EvictOccupancy, At, CountInv
<1>2. f.call.op = "insert" /\ Evicting(f)
  BY <1>1 DEF FrameInv, InsertLabels, EvictLabels, Evicting
<1>3. /\ f.need \in Nat /\ f.res \in Nat /\ f.res + f.need = f.call.h.charge
      /\ f.count \in Nat /\ f.freed \in Nat /\ f.call.h.charge \in Nat
  BY <1>1, <1>2, FrameFacts DEF FrameInv
<1>4. PICK l \in {"slot", "evictUsage"} : /\ Goto(t, l)
                                          /\ l = "slot" => f.freed = f.need /\ ~EvictFails(f)
  BY DEF EvictOccupancy
<1> PICK g : g = frame'[t]
  OBVIOUS
<1>5. g.pc = l /\ SameMoney(f, g)
  BY <1>4, Goes DEF SameLocals
<1>6. FrameInv(g)
  <2>1. l = "slot" /\ f.occ => f.count >= 1
    BY <1>3, <1>4 DEF EvictFails
  <2> QED
    BY <1>1, <1>2, <1>5, <2>1 DEF SameMoney, FrameInv, Evicting, Settled, EvictLabels
<1>7. \A c, d : UsageOf(g, c) = UsageOf(f, d) - 0
  <2>1. \A d : UsageOf(f, d) = f.res + f.freed
    BY <1>1, <1>2, <1>3 DEF UsageOf
  <2>2. CASE l = "slot"
    <3>1. \A c : UsageOf(g, c) = f.call.h.charge
      BY <1>2, <1>3, <1>5, <2>2 DEF UsageOf, SameMoney, Evicting, EvictLabels
    <3> QED
      BY <1>3, <1>4, <2>1, <2>2, <3>1
  <2>3. CASE l = "evictUsage"
    <3>1. \A c : UsageOf(g, c) = f.res + f.freed
      BY <1>2, <1>3, <1>5, <2>3 DEF UsageOf, SameMoney, Evicting, EvictLabels
    <3> QED
      BY <1>3, <2>1, <3>1
  <2> QED
    BY <2>2, <2>3
<1>8. PlacesOf(g) = PlacesOf(f) - f.count
  <2>1. PlacesOf(f) = 1 + f.count
    BY <1>1, <1>2, <1>3 DEF PlacesOf
  <2>2. PlacesOf(g) = 1
    BY <1>2, <1>5 DEF PlacesOf, SameMoney, Evicting, EvictLabels
  <2> QED
    BY <1>3, <2>1, <2>2
<1>9. Room(g) => Room(f)
  BY <1>1, <1>5 DEF Room, SameMoney
<1>10. Pays(frame[t], frame'[t], 0, f.count)
  BY <1>6, <1>7, <1>8, <1>9 DEF Pays
<1>11. usage' = usage /\ usage \in Int /\ UNCHANGED meta /\ Step(t) /\ occupancy' = occupancy - f.count
  BY DEF EvictOccupancy, OnlyOccupancy, Step, CInv, StateType
<1>12. usage' = usage - 0 /\ usage' <= Capacity
  BY <1>11 DEF CountInv
<1> QED
  BY <1>3, <1>10, <1>11, <1>12, MetaSame, DebtPaid

LEMMA EvictUsageCounts ==
  ASSUME CInv, CInv', CountInv, NEW t \in Threads, EvictUsage(t)
  PROVE  CountInv'
<1> PICK f \in Frames : f = frame[t]
  BY Actor
<1>1. f.pc = "evictUsage" /\ FrameInv(f)
  BY DEF EvictUsage, At, CountInv
<1>2. f.call.op = "insert" /\ Evicting(f)
  BY <1>1 DEF FrameInv, InsertLabels, EvictLabels, Evicting
<1>3. /\ f.need \in Nat /\ f.res \in Nat /\ f.res + f.need = f.call.h.charge
      /\ f.count \in Nat /\ f.freed \in Nat /\ f.call.h.charge \in Nat
      /\ f.count = 0 => f.freed = 0
  BY <1>1, <1>2, FrameFacts DEF FrameInv
<1> PICK g : g = frame'[t]
  OBVIOUS
<1>4. \/ EvictFails(f) /\ usage' = usage - (f.freed + f.res) /\ Goto(t, "undoOccupancy")
      \/ ~EvictFails(f) /\ usage' = usage - (f.freed - f.need) /\ Goto(t, "slot")
  BY DEF EvictUsage
<1>5. UNCHANGED meta /\ Step(t) /\ occupancy' = occupancy /\ occupancy \in Int
  BY DEF EvictUsage, OnlyUsage, Step, CInv, StateType
<1>6. \A d : UsageOf(f, d) = f.res + f.freed
  BY <1>1, <1>2, <1>3 DEF UsageOf
<1>7. PlacesOf(f) = 1
  BY <1>1, <1>2 DEF PlacesOf
<1>8. CASE EvictFails(f) /\ usage' = usage - (f.freed + f.res) /\ Goto(t, "undoOccupancy")
  <2>1. g.pc = "undoOccupancy" /\ SameMoney(f, g)
    BY <1>8, Goes DEF SameLocals
  <2>2. FrameInv(g) /\ ~Room(g) /\ PlacesOf(g) = 1
    BY <1>2, <2>1 DEF SameMoney, FrameInv, Evicting, Settled, EvictLabels, Room, PlacesOf
  <2>3. \A c : UsageOf(g, c) = 0
    BY <2>1 DEF UsageOf
  <2>4. \A c, d : UsageOf(g, c) = UsageOf(f, d) - (f.freed + f.res)
    BY <1>3, <1>6, <2>3
  <2>5. Pays(frame[t], frame'[t], f.freed + f.res, 0)
    BY <1>7, <2>2, <2>4 DEF Pays
  <2>6. f.freed + f.res \in Nat
    BY <1>3
  <2>7. usage' <= Capacity
    BY <1>8, <2>6, Lowers
  <2>8. occupancy' = occupancy - 0
    BY <1>5
  <2> QED
    BY <1>5, <1>8, <2>5, <2>6, <2>7, <2>8, MetaSame, DebtPaid
<1>9. CASE ~EvictFails(f) /\ usage' = usage - (f.freed - f.need) /\ Goto(t, "slot")
  <2>1. g.pc = "slot" /\ SameMoney(f, g)
    BY <1>9, Goes DEF SameLocals
  <2>2. f.freed >= f.need /\ (f.occ => f.count >= 1)
    BY <1>3, <1>9 DEF EvictFails
  <2>3. FrameInv(g)
    BY <1>2, <2>1, <2>2 DEF SameMoney, FrameInv, Evicting, Settled, EvictLabels
  <2>4. \A c : UsageOf(g, c) = f.call.h.charge
    BY <1>2, <1>3, <2>1 DEF UsageOf, SameMoney, Evicting, EvictLabels
  <2>5. \A c, d : UsageOf(g, c) = UsageOf(f, d) - (f.freed - f.need)
    BY <1>3, <1>6, <2>4
  <2>6. PlacesOf(g) = 1 /\ (Room(g) => Room(f))
    BY <1>1, <1>2, <2>1 DEF PlacesOf, SameMoney, Evicting, EvictLabels, Room
  <2>7. Pays(frame[t], frame'[t], f.freed - f.need, 0)
    BY <1>7, <2>3, <2>5, <2>6 DEF Pays
  <2>8. f.freed - f.need \in Nat
    BY <1>3, <2>2
  <2>9. usage' <= Capacity
    BY <1>9, <2>8, Lowers
  <2>10. occupancy' = occupancy - 0
    BY <1>5
  <2> QED
    BY <1>5, <1>9, <2>7, <2>8, <2>9, <2>10, MetaSame, DebtPaid
<1> QED
  BY <1>4, <1>8, <1>9

LEMMA UndoOccupancyCounts ==
  ASSUME CInv, CInv', CountInv, NEW t \in Threads, UndoOccupancy(t)
  PROVE  CountInv'
<1> PICK f \in Frames : f = frame[t]
  BY Actor
<1>1. f.pc = "undoOccupancy" /\ FrameInv(f) /\ frame'[t] = Idle
  BY ReturnsIdle DEF UndoOccupancy, At, CountInv
<1>2. f.call.op = "insert"
  BY <1>1 DEF FrameInv, InsertLabels
<1>3. \A d : UsageOf(f, d) = 0
  BY <1>1 DEF UsageOf
<1>4. PlacesOf(f) = 1
  BY <1>1, <1>2 DEF PlacesOf, Evicting, EvictLabels
<1>5. Pays(frame[t], frame'[t], 0, 1)
  BY <1>1, <1>3, <1>4, IdleDebt DEF Pays
<1>6. usage' = usage /\ usage \in Int /\ UNCHANGED meta /\ Step(t) /\ occupancy' = occupancy - 1
  BY DEF UndoOccupancy, OnlyOccupancy, Step, CInv, StateType
<1>7. usage' = usage - 0 /\ usage' <= Capacity
  BY <1>6 DEF CountInv
<1> QED
  BY <1>5, <1>6, <1>7, MetaSame, DebtPaid

LEMMA FailOccupancyCounts ==
  ASSUME CInv, CInv', CountInv, NEW t \in Threads, FailOccupancy(t)
  PROVE  CountInv'
<1> PICK f \in Frames : f = frame[t]
  BY Actor
<1>1. f.pc = "fail" /\ FrameInv(f)
  BY DEF FailOccupancy, At, CountInv
<1>2. f.call.op = "insert" /\ ~Evicting(f) /\ f.call.h.charge \in Nat
  BY <1>1, FrameFacts DEF FrameInv, InsertLabels, Evicting, EvictLabels
<1> PICK g : g = frame'[t]
  OBVIOUS
<1>3. g.pc = "failUsage" /\ SameMoney(f, g)
  BY Goes DEF FailOccupancy, SameLocals
<1>4. FrameInv(g)
  BY <1>1, <1>2, <1>3 DEF SameMoney, FrameInv, Evicting, Settled, EvictLabels
<1>5. \A c, d : UsageOf(g, c) = UsageOf(f, d) - 0
  BY <1>1, <1>2, <1>3 DEF UsageOf, SameMoney, Evicting, EvictLabels
<1>6. PlacesOf(f) = 1 /\ PlacesOf(g) = 0 /\ ~Room(g)
  BY <1>1, <1>2, <1>3 DEF PlacesOf, SameMoney, Evicting, EvictLabels, Room
<1>7. Pays(frame[t], frame'[t], 0, 1)
  BY <1>4, <1>5, <1>6 DEF Pays
<1>8. usage' = usage /\ usage \in Int /\ UNCHANGED meta /\ Step(t) /\ occupancy' = occupancy - 1
  BY DEF FailOccupancy, OnlyOccupancy, Step, CInv, StateType
<1>9. usage' = usage - 0 /\ usage' <= Capacity
  BY <1>8 DEF CountInv
<1> QED
  BY <1>7, <1>8, <1>9, MetaSame, DebtPaid

LEMMA FailUsageCounts ==
  ASSUME CInv, CInv', CountInv, NEW t \in Threads, FailUsage(t)
  PROVE  CountInv'
<1> PICK f \in Frames : f = frame[t]
  BY Actor
<1>1. f.pc = "failUsage" /\ FrameInv(f) /\ frame'[t] = Idle
  BY ReturnsIdle DEF FailUsage, At, CountInv
<1>2. f.call.op = "insert" /\ ~Evicting(f) /\ f.call.h.charge \in Nat
  BY <1>1, FrameFacts DEF FrameInv, InsertLabels, Evicting, EvictLabels
<1>3. \A d : UsageOf(f, d) = f.call.h.charge
  BY <1>1, <1>2 DEF UsageOf
<1>4. PlacesOf(f) = 0
  BY <1>1, <1>2 DEF PlacesOf
<1>5. \A c, d : UsageOf(Idle, c) = UsageOf(f, d) - f.call.h.charge
  BY <1>2, <1>3, IdleDebt
<1>6. Pays(frame[t], frame'[t], f.call.h.charge, 0)
  BY <1>1, <1>4, <1>5, IdleDebt DEF Pays
<1>7. UNCHANGED meta /\ Step(t) /\ occupancy' = occupancy /\ occupancy \in Int
      /\ usage' = usage - f.call.h.charge
  BY DEF FailUsage, OnlyUsage, Step, CInv, StateType, Charge
<1>8. usage' <= Capacity
  BY <1>2, <1>7, Lowers
<1>9. occupancy' = occupancy - 0
  BY <1>7
<1> QED
  BY <1>2, <1>6, <1>7, <1>8, <1>9, MetaSame, DebtPaid

\* The frames of an Erase that has taken an entry out and not settled it yet.
LEMMA ErasedDebt ==
  ASSUME NEW f, NEW g, FrameInv(f), f.pc \in {"eraseFree", "eraseOccupancy", "eraseUsage"},
         g.pc \in {"eraseFree", "eraseOccupancy", "eraseUsage"}, SameMoney(f, g)
  PROVE  FrameInv(g) /\ (Room(g) => Room(f))
<1>1. ~Evicting(f) /\ ~Evicting(g)
  BY DEF Evicting, EvictLabels
<1> QED
  BY <1>1 DEF SameMoney, FrameInv, Settled, Room, InsertLabels, EvictLabels, ProbeLabels

LEMMA EraseOccupancyCounts ==
  ASSUME CInv, CInv', CountInv, NEW t \in Threads, EraseOccupancy(t)
  PROVE  CountInv'
<1> PICK f \in Frames : f = frame[t]
  BY Actor
<1>1. f.pc = "eraseOccupancy" /\ FrameInv(f) /\ ~Evicting(f)
  BY DEF EraseOccupancy, At, CountInv, Evicting, EvictLabels
<1> PICK g \in Frames : g = frame'[t]
  BY DEF CInv, StateType
<1>2. g.pc = "eraseUsage" /\ SameMoney(f, g) /\ g.amount = f.amount /\ ~Evicting(g)
  BY Goes DEF EraseOccupancy, SameLocals, Evicting, EvictLabels
<1>3. FrameInv(g) /\ (Room(g) => Room(f))
  BY <1>1, <1>2, ErasedDebt
<1>4. f.amount \in Nat /\ (f.call.op = "insert" => f.call.h.charge \in Nat)
  BY FrameFacts
<1>5. \A c, d : UsageOf(g, c) = UsageOf(f, d) - 0
  BY <1>1, <1>2, <1>4 DEF UsageOf, SameMoney
<1>6. PlacesOf(g) = PlacesOf(f) - 1
  BY <1>1, <1>2 DEF PlacesOf, SameMoney
<1>7. Pays(frame[t], frame'[t], 0, 1)
  BY <1>3, <1>5, <1>6 DEF Pays
<1>8. usage' = usage /\ usage \in Int /\ UNCHANGED meta /\ Step(t) /\ occupancy' = occupancy - 1
  BY DEF EraseOccupancy, OnlyOccupancy, Step, CInv, StateType
<1>9. usage' = usage - 0 /\ usage' <= Capacity
  BY <1>8 DEF CountInv
<1> QED
  BY <1>7, <1>8, <1>9, MetaSame, DebtPaid

LEMMA EraseUsageCounts ==
  ASSUME CInv, CInv', CountInv, NEW t \in Threads, EraseUsage(t)
  PROVE  CountInv'
<1> PICK f \in Frames : f = frame[t]
  BY Actor
<1>1. f.pc = "eraseUsage" /\ FrameInv(f) /\ ~Evicting(f)
  BY DEF EraseUsage, At, CountInv, Evicting, EvictLabels
<1>2. f.amount \in Nat /\ (f.call.op = "insert" => f.call.h.charge \in Nat)
  BY FrameFacts
<1> PICK e : e = [f EXCEPT !.amount = 0]
  OBVIOUS
<1>3. e \in Frames /\ SameMoney(f, e)
  BY DEF Frames, SameMoney
<1> PICK g : g = RollbackTo(e, Key(t), Cur(t), "eraseNext")
  OBVIOUS
<1>4. frame'[t] = g
  BY Actor DEF EraseUsage
<1>5. SameMoney(e, g) /\ (g.pc = "eraseNext" \/ (g.pc = "rollback" /\ g.to = "eraseNext"))
  BY <1>3, RolledFrame
<1>6. SameMoney(f, g) /\ ~Evicting(g)
  BY <1>3, <1>5 DEF SameMoney, Evicting, EvictLabels
<1>7. FrameInv(g) /\ (Room(g) => Room(f))
  BY <1>1, <1>5, <1>6 DEF SameMoney, FrameInv, Settled, Room, InsertLabels, EvictLabels, ProbeLabels
<1>8. \A c, d : UsageOf(g, c) = UsageOf(f, d) - f.amount
  BY <1>1, <1>2, <1>5, <1>6 DEF UsageOf, SameMoney
<1>9. PlacesOf(g) = PlacesOf(f) - 0
  BY <1>1, <1>5, <1>6 DEF PlacesOf, SameMoney
<1>10. Pays(frame[t], frame'[t], f.amount, 0)
  BY <1>4, <1>7, <1>8, <1>9 DEF Pays
<1>11. UNCHANGED meta /\ Step(t) /\ occupancy' = occupancy /\ occupancy \in Int
       /\ usage' = usage - f.amount
  BY DEF EraseUsage, OnlyUsage, Step, CInv, StateType
<1>12. usage' <= Capacity
  BY <1>2, <1>11, Lowers
<1>13. occupancy' = occupancy - 0
  BY <1>11
<1> QED
  BY <1>2, <1>10, <1>11, <1>12, <1>13, MetaSame, DebtPaid

LEMMA EraseFreeCounts ==
  ASSUME CInv, CInv', CountersWide, NoCarry, CountInv, NEW t \in Threads, EraseFree(t)
  PROVE  CountInv'
<1> PICK f \in Frames : f = frame[t]
  BY Actor
<1>1. f.pc = "eraseFree" /\ FrameInv(f) /\ ~Evicting(f) /\ frame \in [Threads -> Frames]
      /\ Cur(t) = f.cur /\ Cur(t) \in Slots
  BY Actor, FrameFacts DEF EraseFree, At, CountInv, Evicting, EvictLabels, Cur
<1> PICK a : a = entry[Cur(t)].charge
  OBVIOUS
<1> PICK g \in Frames : g = frame'[t]
  BY DEF CInv, StateType
<1>2. g = [f EXCEPT !.amount = a, !.succ = TRUE, !.pc = "eraseOccupancy"]
  BY <1>1 DEF EraseFree
<1>3. g.pc = "eraseOccupancy" /\ SameMoney(f, g) /\ g.amount = a /\ ~Evicting(g)
  BY <1>2 DEF Frames, SameMoney, Evicting, EvictLabels
<1>4. FrameInv(g) /\ (Room(g) => Room(f))
  BY <1>1, <1>3, ErasedDebt
<1>5. \A c : UsageOf(g, c) = UsageOf(f, a)
  BY <1>1, <1>3 DEF UsageOf, SameMoney
<1>6. PlacesOf(g) = PlacesOf(f)
  BY <1>1, <1>3 DEF PlacesOf, SameMoney
<1>7. OwedUsage(t)' = OwedUsage(t) /\ OwedOccupancy(t)' = OwedOccupancy(t)
  BY <1>1, <1>5, <1>6, OwedOf
<1>9. Stored' = Stored
  BY TableSame DEF TableStep
<1>10. UNCHANGED <<usage, occupancy>> /\ Step(t)
  BY DEF EraseFree, Step
<1>11. StepOf(t) /\ \A s \in Slots : entry'[s] = entry[s] \/ Owns(t, s)
  BY <1>10, ThreadStep, EntryStep
<1>12. Settles(t)
  BY <1>4, <1>7, <1>9, <1>10, <1>11 DEF Settles, CountInv
<1> QED
  BY <1>12, SettlesKeeps

LEMMA ReserveCounts ==
  ASSUME CInv, CInv', CountInv, NEW t \in Threads, Reserve(t)
  PROVE  CountInv'
<1> PICK f \in Frames : f = frame[t]
  BY Actor
<1>1. f.pc = "reserve" /\ FrameInv(f) /\ frame \in [Threads -> Frames]
  BY Actor DEF Reserve, At, CountInv
<1>2. f.call.op = "insert" /\ f.freed = 0 /\ f.count = 0
  BY <1>1 DEF FrameInv, InsertLabels
<1>3. /\ usage \in Int /\ usage <= Capacity /\ Capacity \in Nat /\ f.call.h.charge \in Nat
      /\ Charge(t) = f.call.h.charge
  BY <1>2, FrameFacts, CounterAssumption DEF CInv, StateType, CountInv, Charge
<1> PICK n : n = usage + f.call.h.charge - usage'
  OBVIOUS
<1> PICK r : r = usage' - usage
  OBVIOUS
<1> PICK l : l = IF n > 0 \/ f.occ THEN "evict" ELSE "slot"
  OBVIOUS
<1>4. usage' \in Int /\ usage' <= Capacity /\ usage' <= usage + f.call.h.charge /\ usage' >= usage
  <2> PICK b : b = usage + f.call.h.charge
    OBVIOUS
  <2>1. b \in Int /\ Capacity \in Int /\ b >= usage
    BY <1>3
  <2>2. usage' = Min({Capacity, b})
    BY <1>3 DEF Reserve
  <2>3. /\ Min({Capacity, b}) \in {Capacity, b}
        /\ Min({Capacity, b}) <= Capacity /\ Min({Capacity, b}) <= b
    BY <2>1, MaxMin
  <2> QED
    BY <1>3, <2>1, <2>2, <2>3
<1>5. n \in Nat /\ r \in Nat /\ r + n = f.call.h.charge /\ l \in {"evict", "slot"}
  BY <1>3, <1>4
<1>6. l = "slot" => n = 0 /\ ~f.occ
  BY <1>5
<1> PICK g : g = frame'[t]
  OBVIOUS
<1>7. frame' = [frame EXCEPT ![t].res = r, ![t].need = n, ![t].cur = Base[Key(t)], ![t].pc = l]
  BY <1>3 DEF Reserve
<1>8. g = [f EXCEPT !.res = r, !.need = n, !.cur = Base[Key(t)], !.pc = l]
  BY <1>1, <1>7
<1>9. g.pc = l /\ g.res = r /\ g.need = n /\ g.call = f.call /\ g.occ = f.occ
      /\ g.freed = 0 /\ g.count = 0
  BY <1>2, <1>8 DEF Frames
<1>10. FrameInv(g)
  BY <1>2, <1>5, <1>6, <1>9 DEF FrameInv, Evicting, EvictLabels, Settled
<1>11. \A c, d : UsageOf(g, c) = UsageOf(f, d) - (0 - r)
  <2>1. \A d : UsageOf(f, d) = 0
    BY <1>1 DEF UsageOf
  <2>2. CASE l = "evict"
    <3>1. \A c : UsageOf(g, c) = r
      BY <1>2, <1>5, <1>9, <2>2 DEF UsageOf, Evicting, EvictLabels
    <3> QED
      BY <1>5, <2>1, <3>1
  <2>3. CASE l = "slot"
    <3>1. \A c : UsageOf(g, c) = f.call.h.charge
      BY <1>2, <1>3, <1>9, <2>3 DEF UsageOf, Evicting, EvictLabels
    <3>2. f.call.h.charge = r
      BY <1>5, <1>6, <2>3
    <3> QED
      BY <1>5, <2>1, <3>1, <3>2
  <2> QED
    BY <1>5, <2>2, <2>3
<1>12. PlacesOf(f) = 1 /\ PlacesOf(g) = 1
  BY <1>1, <1>2, <1>5, <1>9 DEF PlacesOf, Evicting, EvictLabels
<1>13. Room(g) => Room(f)
  BY <1>1, <1>2, <1>9 DEF Room
<1>14. Pays(frame[t], frame'[t], 0 - r, 0)
  BY <1>10, <1>11, <1>12, <1>13 DEF Pays
<1>15. UNCHANGED meta /\ Step(t) /\ occupancy' = occupancy /\ occupancy \in Int
  BY DEF Reserve, OnlyUsage, Step, CInv, StateType
<1>16. usage' = usage - (0 - r) /\ 0 - r \in Int /\ occupancy' = occupancy - 0
  BY <1>3, <1>4, <1>15
<1> QED
  BY <1>4, <1>14, <1>15, <1>16, MetaSame, DebtPaid
-----------------------------------------------------------------------------
(***************************************************************************)
(* Steps that take an entry out of the table or put one in.                *)
(***************************************************************************)
LEMMA TakesOut ==
  ASSUME CInv, CInv', CountInv, NEW t \in Threads, Step(t), NEW s \in Slots,
         s \in Stored, Stored' = Stored \ {s}, UNCHANGED <<entry, usage, occupancy>>,
         FrameInv(frame'[t]), OwedUsage(t)' = OwedUsage(t) + entry[s].charge,
         OwedOccupancy(t)' = OwedOccupancy(t) + 1
  PROVE  CountInv'
<1>1. StepOf(t) /\ \A x \in Slots : entry'[x] = entry[x] \/ Owns(t, x)
  BY ThreadStep, EntryStep
<1> PICK a \in Nat : a = entry[s].charge
  BY DEF CInv, StateType, Entries
<1>2. /\ ChargeOf(Stored) \in Nat /\ ChargeOf(Stored)' = ChargeOf(Stored) - a
      /\ Cardinality(Stored)' = Cardinality(Stored) - 1
  BY StoredCharge
<1>3. Cardinality(Stored) \in Nat
  BY StoredFinite
<1>4. /\ usage \in Int /\ occupancy \in Int /\ OwedUsage(t) \in Int /\ OwedOccupancy(t) \in Int
  BY OwedNats DEF CInv, StateType
<1>5. usage' - OwedUsage(t)' - ChargeOf(Stored)' = usage - OwedUsage(t) - ChargeOf(Stored)
  BY <1>2, <1>4
<1>6. occupancy' - OwedOccupancy(t)' - Cardinality(Stored)'
        = occupancy - OwedOccupancy(t) - Cardinality(Stored)
  BY <1>2, <1>3, <1>4
<1>7. ChargeOf(Stored)' \in Int
  BY <1>2
<1>8. SumsExact' /\ \A u \in Threads : FrameInv(frame'[u])
  BY <1>1, <1>2, <1>5, <1>6, <1>7, Balance
<1>9. /\ Cardinality(Placing)' <= Cardinality(Placing) + 1 /\ Cardinality(Placing) \in Nat
      /\ Cardinality(Placing)' \in Nat
  BY <1>1, PlacingChange
<1>10. OccupancyLimit \in Nat /\ Cardinality(Stored) + Cardinality(Placing) <= OccupancyLimit
       /\ usage <= Capacity
  BY CounterAssumption DEF CountInv
<1>11. Cardinality(Stored)' + Cardinality(Placing)' <= OccupancyLimit
  BY <1>2, <1>3, <1>9, <1>10
<1> QED
  BY <1>8, <1>10, <1>11 DEF CountInv

LEMMA ClockTakeCounts ==
  ASSUME CInv, CInv', CountInv, NEW t \in Threads, ClockTake(t)
  PROVE  CountInv'
<1> PICK f \in Frames : f = frame[t]
  BY Actor
<1> PICK s : s = ClockSlot(t)
  OBVIOUS
<1>1. f.pc = "clockTake" /\ FrameInv(f) /\ frame \in [Threads -> Frames]
      /\ UNCHANGED <<entry, usage, occupancy>> /\ Step(t)
  BY Actor DEF ClockTake, At, CountInv, OnlyMeta, Step
<1>2. CASE /\ UNCHANGED meta
           /\ frame' = [frame EXCEPT ![t].i = @ + 1, ![t].m = 0, ![t].pc = "clockLoad"]
  <2>1. Stored' = Stored
    BY <1>2, MetaSame
  <2> QED
    BY <1>1, <1>2, <2>1, MissCounts
<1>3. ASSUME /\ meta[s] = f.m
             /\ SetMeta(s, Meta(StateConstruction, 0))
             /\ frame' = [frame EXCEPT
                     ![t] = RollbackTo([f EXCEPT !.freed = @ + entry[s].charge,
                                                 !.count = @ + 1, !.m = 0],
                                       entry[s].key, s, "evictFree")]
      PROVE  CountInv'
  <2>1. s \in Slots /\ s \in Stored
    BY <1>1, <1>3, TakenStored
  <2> PICK a \in Nat : a = entry[s].charge
    BY <2>1 DEF CInv, StateType, Entries
  <2>2. Stored' = Stored \ {s}
    <3>1. 4 \in 0 .. 7 /\ 0 \in 0 .. CounterMod - 1
      BY CounterAssumption
    <3>2. State(Meta(4, 0)) = 4
      BY <3>1, MetaFields
    <3> QED
      BY <1>3, <2>1, <3>2, MetaWrite DEF StateConstruction
  <2> PICK e : e = [f EXCEPT !.freed = @ + a, !.count = @ + 1, !.m = 0]
    OBVIOUS
  <2>3. f.call.op = "insert" /\ Evicting(f)
    BY <1>1 DEF FrameInv, InsertLabels, EvictLabels, Evicting
  <2>4. /\ f.need \in Nat /\ f.res \in Nat /\ f.res + f.need = f.call.h.charge
        /\ f.count \in Nat /\ f.freed \in Nat
    BY <1>1, <2>3, FrameFacts DEF FrameInv
  <2>5. /\ e \in Frames /\ e.call = f.call /\ e.occ = f.occ /\ e.need = f.need /\ e.res = f.res
        /\ e.freed = f.freed + a /\ e.count = f.count + 1
    <3> PICK x \in Nat : x = f.freed + a
      BY <2>4
    <3> PICK y \in Nat : y = f.count + 1
      BY <2>4
    <3>1. 0 \in Words
      BY SlotFacts
    <3>2. e = [f EXCEPT !.freed = x, !.count = y, !.m = 0]
      OBVIOUS
    <3> QED
      BY <3>1, <3>2 DEF Frames
  <2> PICK g : g = RollbackTo(e, entry[s].key, s, "evictFree")
    OBVIOUS
  <2>6. frame'[t] = g
    BY <1>1, <1>3
  <2>7. SameMoney(e, g) /\ (g.pc = "evictFree" \/ (g.pc = "rollback" /\ g.to = "evictFree"))
    BY <2>5, RolledFrame
  <2>8. /\ g.call = f.call /\ g.occ = f.occ /\ g.need = f.need /\ g.res = f.res
        /\ g.freed = f.freed + a /\ g.count = f.count + 1 /\ Evicting(g)
    BY <2>5, <2>7 DEF SameMoney, Evicting, EvictLabels
  <2>9. FrameInv(g)
    <3>1. g.count # 0 /\ ~Settled(g)
      BY <2>4, <2>8 DEF Settled
    <3> QED
      BY <2>3, <2>4, <2>7, <2>8, <3>1 DEF FrameInv
  <2>10. \A c, d : UsageOf(g, c) = UsageOf(f, d) + a
    <3>1. \A d : UsageOf(f, d) = f.res + f.freed
      BY <1>1, <2>3, <2>4 DEF UsageOf
    <3>2. \A c : UsageOf(g, c) = f.res + (f.freed + a)
      BY <2>3, <2>4, <2>7, <2>8 DEF UsageOf
    <3> QED
      BY <2>4, <3>1, <3>2
  <2>11. PlacesOf(g) = PlacesOf(f) + 1
    <3>1. PlacesOf(f) = 1 + f.count
      BY <1>1, <2>3, <2>4 DEF PlacesOf
    <3>2. PlacesOf(g) = 1 + (f.count + 1)
      BY <2>3, <2>4, <2>7, <2>8 DEF PlacesOf
    <3> QED
      BY <2>4, <3>1, <3>2
  <2>12. OwedUsage(t)' = OwedUsage(t) + a /\ OwedOccupancy(t)' = OwedOccupancy(t) + 1
    BY <2>6, <2>10, <2>11, OwedOf
  <2> QED
    BY <1>1, <2>1, <2>2, <2>6, <2>9, <2>12, TakesOut
<1> QED
  BY <1>2, <1>3, TakeOutcome

LEMMA EraseOwnCounts ==
  ASSUME CInv, CInv', CountInv, NEW t \in Threads, EraseOwn(t)
  PROVE  CountInv'
<1> PICK f \in Frames : f = frame[t]
  BY Actor
<1> PICK s \in Slots : s = Cur(t)
  BY Actor, FrameFacts DEF Cur
<1>1. f.pc = "eraseOwn" /\ FrameInv(f) /\ frame \in [Threads -> Frames]
      /\ UNCHANGED <<entry, usage, occupancy>> /\ Step(t) /\ f.cur = s
  BY Actor DEF EraseOwn, At, CountInv, OnlyMeta, Step, Cur
<1>2. CASE RefDecr(s) /\ frame' = [frame EXCEPT ![t].m = 0, ![t].pc = "eraseNext"]
  <2>1. frame'[t] = [f EXCEPT !.m = 0, !.pc = "eraseNext"]
    BY <1>1, <1>2
  <2>2. frame'[t].pc = "eraseNext" /\ SameMoney(f, frame'[t])
    BY <2>1 DEF Frames, SameMoney
  <2>3. SamePhase(f, frame'[t])
    BY <1>1, <2>2 DEF SamePhase, WalkLabels
  <2>4. t \in Probers(s)
    BY <1>1 DEF Probers, RefLabels
  <2>5. Stored' = Stored
    BY <1>2, <2>4, RefDecrStored
  <2> QED
    BY <1>1, <2>2, <2>3, <2>5, PhaseKept
<1>3. CASE UNCHANGED meta /\ frame' = [frame EXCEPT ![t].m = meta[s]]
  <2>1. frame'[t] = [f EXCEPT !.m = meta[s]]
    BY <1>1, <1>3
  <2>2. frame'[t].pc = "eraseOwn" /\ SameMoney(f, frame'[t])
    BY <1>1, <2>1 DEF Frames, SameMoney
  <2>3. SamePhase(f, frame'[t])
    BY <1>1, <2>2 DEF SamePhase, WalkLabels
  <2> QED
    BY <1>1, <1>3, <2>2, <2>3, MetaSame, PhaseKept
<1>4. CASE /\ SetMeta(s, Meta(StateConstruction, 0))
           /\ frame' = [frame EXCEPT ![t].m = 0, ![t].pc = "eraseFree"]
  <2>1. s \in Stored
    BY <1>1, ProberStored DEF RefLabels
  <2>2. Stored' = Stored \ {s}
    <3>1. 4 \in 0 .. 7 /\ 0 \in 0 .. CounterMod - 1
      BY CounterAssumption
    <3>2. State(Meta(4, 0)) = 4
      BY <3>1, MetaFields
    <3> QED
      BY <1>4, <2>1, <3>2, MetaWrite DEF StateConstruction
  <2> PICK a \in Nat : a = entry[s].charge
    BY DEF CInv, StateType, Entries
  <2> PICK g : g = frame'[t]
    OBVIOUS
  <2>3. g = [f EXCEPT !.m = 0, !.pc = "eraseFree"]
    BY <1>1, <1>4
  <2>4. g.pc = "eraseFree" /\ SameMoney(f, g) /\ g.cur = s
    BY <1>1, <2>3 DEF Frames, SameMoney
  <2>5. ~Evicting(f) /\ ~Evicting(g)
    BY <1>1, <2>4 DEF Evicting, EvictLabels
  <2>6. FrameInv(g)
    BY <1>1, <2>4, <2>5 DEF SameMoney, FrameInv, Settled, InsertLabels, EvictLabels, ProbeLabels
  <2>7. f.call.op = "insert" => f.call.h.charge \in Nat
    BY FrameFacts
  <2>8. \A d : UsageOf(g, a) = UsageOf(f, d) + a
    BY <1>1, <2>4, <2>5, <2>7 DEF UsageOf, SameMoney
  <2>9. PlacesOf(g) = PlacesOf(f) + 1
    BY <1>1, <2>4, <2>5 DEF PlacesOf, SameMoney
  <2>10. entry'[frame'[t].cur].charge = a
    BY <1>1, <2>4
  <2>11. OwedUsage(t)' = OwedUsage(t) + a /\ OwedOccupancy(t)' = OwedOccupancy(t) + 1
    BY <2>8, <2>9, <2>10, OwedOf
  <2> QED
    BY <1>1, <2>1, <2>2, <2>6, <2>11, TakesOut
<1> QED
  BY <1>2, <1>3, <1>4 DEF EraseOwn

LEMMA InsertFillCounts ==
  ASSUME CInv, CInv', CountInv, NEW t \in Threads, InsertFill(t)
  PROVE  CountInv'
<1> PICK f \in Frames : f = frame[t]
  BY Actor
<1> PICK s \in Slots : s = Cur(t)
  BY Actor, FrameFacts DEF Cur
<1>1. f.pc = "fill" /\ FrameInv(f) /\ frame'[t] = Idle
      /\ UNCHANGED <<usage, occupancy>> /\ Step(t)
  BY ReturnsIdle DEF InsertFill, At, CountInv, Step
<1>2. f.call.op = "insert" /\ ~Evicting(f) /\ Settled(f)
  BY <1>1 DEF FrameInv, InsertLabels, ProbeLabels, Evicting, EvictLabels, Settled
<1> PICK a \in Nat : a = f.call.h.charge
  BY <1>2, FrameFacts
<1>3. Owns(t, s)
  BY <1>1 DEF Owns
<1>4. s \notin Stored
  <2>1. State(meta[s]) = 4
    BY <1>3 DEF CInv, OwnerInv, StateConstruction
  <2> QED
    BY <2>1, StoredState
<1>5. Stored' = Stored \cup {s}
  <2>1. 7 \in 0 .. 7 /\ InitHitCount \in 0 .. CounterMod - 1
    BY CounterAssumption
  <2>2. State(Meta(7, InitHitCount)) = 7
    BY <2>1, MetaFields
  <2> QED
    BY <1>4, <2>2, MetaWrite DEF InsertFill, StateVisible
<1>6. entry'[s].charge = a
  BY DEF InsertFill, CInv, StateType
<1>7. StepOf(t) /\ \A x \in Slots : entry'[x] = entry[x] \/ Owns(t, x)
  BY <1>1, ThreadStep, EntryStep
<1>8. \A x \in Stored : entry'[x] = entry[x]
  BY <1>7, StoredSame
<1>9. /\ ChargeOf(Stored) \in Nat /\ ChargeOf(Stored)' = ChargeOf(Stored) + a
      /\ Cardinality(Stored)' = Cardinality(Stored) + 1
  BY <1>4, <1>5, <1>6, <1>8, StoredCharge
<1>10. OwedUsage(t) = a /\ OwedUsage(t)' = 0
  <2>1. \A d : UsageOf(f, d) = a
    BY <1>1, <1>2 DEF UsageOf
  <2> QED
    BY <1>1, <2>1, IdleDebt, OwedOf
<1>11. OwedOccupancy(t) = 1 /\ OwedOccupancy(t)' = 0
  <2>1. PlacesOf(f) = 1
    BY <1>1, <1>2 DEF PlacesOf
  <2> QED
    BY <1>1, <2>1, IdleDebt, OwedOf
<1>12. Cardinality(Stored) \in Nat
  BY StoredFinite
<1>13. usage \in Int /\ occupancy \in Int
  BY DEF CInv, StateType
<1>14. usage' - OwedUsage(t)' - ChargeOf(Stored)' = usage - OwedUsage(t) - ChargeOf(Stored)
  BY <1>1, <1>9, <1>10, <1>13
<1>15. occupancy' - OwedOccupancy(t)' - Cardinality(Stored)'
         = occupancy - OwedOccupancy(t) - Cardinality(Stored)
  BY <1>1, <1>9, <1>11, <1>12, <1>13
<1>16. ChargeOf(Stored)' \in Int /\ FrameInv(frame'[t])
  BY <1>1, <1>9, IdleDebt
<1>17. SumsExact' /\ \A u \in Threads : FrameInv(frame'[u])
  BY <1>7, <1>9, <1>14, <1>15, <1>16, Balance
<1>18. Room(f) /\ ~Room(frame'[t])
  BY <1>1, <1>2, IdleDebt DEF FrameInv, Room
<1>19. Cardinality(Placing)' = Cardinality(Placing) - 1 /\ Cardinality(Placing) \in Nat
  BY <1>7, <1>18, PlacingChange
<1>20. OccupancyLimit \in Nat /\ Cardinality(Stored) + Cardinality(Placing) <= OccupancyLimit
       /\ usage <= Capacity
  BY CounterAssumption DEF CountInv
<1>21. Cardinality(Stored)' + Cardinality(Placing)' <= OccupancyLimit
  BY <1>9, <1>12, <1>19, <1>20
<1> QED
  BY <1>1, <1>17, <1>20, <1>21 DEF CountInv

\* Who may still fill a slot is counted in occupancy_.
LEMMA PlacingCounted ==
  ASSUME CInv, CountInv
  PROVE  Cardinality(Stored) + Cardinality(Placing) <= occupancy
<1> PICK p : p = [t \in Threads |-> OwedOccupancy(t)]
  OBVIOUS
<1>1. \A t \in Threads : p[t] \in Nat /\ (t \in Placing => p[t] >= 1)
  BY OwedNats
<1>2. occupancy = Cardinality(Stored) + Total(p, Threads)
  BY DEF CountInv, SumsExact
<1>3. IsFiniteSet(Units(p, Threads)) /\ Total(p, Threads) \in Nat
  BY <1>1, ClientAssumption, UnitsFinite
<1>4. Placing \subseteq Threads
  BY DEF Placing
<1>5. [t \in Placing |-> <<t, 1>>] \in Injection(Placing, Units(p, Threads))
  <2>1. \A t \in Placing : <<t, 1>> \in Units(p, Threads)
    BY <1>1, <1>4 DEF Units
  <2> QED
    BY <2>1 DEF Injection, IsInjective
<1>6. Cardinality(Placing) <= Cardinality(Units(p, Threads)) /\ IsFiniteSet(Placing)
  BY <1>3, <1>5, FS_Injection
<1>7. Cardinality(Placing) \in Nat /\ Cardinality(Stored) \in Nat
  BY <1>6, FS_CardinalityType, StoredFinite
<1>8. Total(p, Threads) = Cardinality(Units(p, Threads))
  BY TotalUnits
<1> QED
  BY <1>2, <1>3, <1>6, <1>7, <1>8

LEMMA InsertBeginCounts ==
  ASSUME CInv, CInv', CountInv, NEW t \in Threads, NEW c \in todo[t], InsertBegin(t, c)
  PROVE  CountInv'
<1> PICK f \in Frames : f = frame[t]
  BY Actor
<1> PICK o : o = (occupancy + 1 > OccupancyLimit)
  OBVIOUS
<1>1. f = Idle /\ frame \in [Threads -> Frames] /\ Begin(t) /\ c.op = "insert"
      /\ UNCHANGED <<meta, usage>> /\ occupancy' = occupancy + 1
  BY Actor DEF InsertBegin, Take, At, CountInv, FrameInv, Begin
<1> PICK g : g = frame'[t]
  OBVIOUS
<1>2. g = [f EXCEPT !.call = c, !.occ = o, !.pc = "reserve"]
  BY <1>1 DEF InsertBegin
<1>3. g.pc = "reserve" /\ g.call = c /\ g.occ = o /\ g.freed = 0 /\ g.count = 0
  BY <1>1, <1>2 DEF Idle
<1>4. FrameInv(g)
  BY <1>1, <1>3 DEF FrameInv, Evicting, EvictLabels, Settled
<1>5. OwedUsage(t) = 0 /\ OwedUsage(t)' = 0
  <2>1. \A d : UsageOf(g, d) = 0
    BY <1>3 DEF UsageOf
  <2> QED
    BY <1>1, <2>1, IdleDebt, OwedOf
<1>6. OwedOccupancy(t) = 0 /\ OwedOccupancy(t)' = 1
  <2>1. PlacesOf(g) = 1
    BY <1>1, <1>3 DEF PlacesOf, Evicting, EvictLabels
  <2> QED
    BY <1>1, <2>1, IdleDebt, OwedOf
<1>7. StepOf(t) /\ \A x \in Slots : entry'[x] = entry[x] \/ Owns(t, x)
  BY <1>1, ThreadStep, EntryStep
<1>8. \A x \in Stored : entry'[x] = entry[x]
  BY <1>7, StoredSame
<1>9. Stored' = Stored
  BY <1>1, MetaSame
<1>10. ChargeOf(Stored) \in Nat /\ ChargeOf(Stored)' = ChargeOf(Stored)
  BY <1>8, <1>9, SlotFacts, StoredCharge
<1>11. Cardinality(Stored) \in Nat /\ Cardinality(Stored)' = Cardinality(Stored)
  BY <1>9, StoredFinite
<1>12. usage \in Int /\ occupancy \in Int
  BY DEF CInv, StateType
<1>13. usage' - OwedUsage(t)' - ChargeOf(Stored)' = usage - OwedUsage(t) - ChargeOf(Stored)
  BY <1>1, <1>5, <1>10
<1>14. occupancy' - OwedOccupancy(t)' - Cardinality(Stored)'
         = occupancy - OwedOccupancy(t) - Cardinality(Stored)
  BY <1>1, <1>6, <1>11, <1>12
<1>15. SumsExact' /\ \A u \in Threads : FrameInv(frame'[u])
  BY <1>4, <1>7, <1>10, <1>13, <1>14, Balance
<1>16. ~Room(f) /\ (Room(g) => ~o)
  BY <1>1, <1>3, IdleDebt DEF Room
<1>17. OccupancyLimit \in Nat /\ Cardinality(Stored) + Cardinality(Placing) <= OccupancyLimit
       /\ usage <= Capacity
  BY CounterAssumption DEF CountInv
<1>18. /\ Cardinality(Placing) \in Nat
       /\ Room(g) => Cardinality(Placing)' = Cardinality(Placing) + 1
       /\ ~Room(g) => Cardinality(Placing)' = Cardinality(Placing)
  BY <1>7, <1>16, PlacingChange
<1>19. Cardinality(Stored)' + Cardinality(Placing)' <= OccupancyLimit
  <2>1. CASE Room(g)
    <3>1. occupancy + 1 <= OccupancyLimit
      <4>1. ~o
        BY <1>16, <2>1
      <4>2. ~(occupancy + 1 > OccupancyLimit)
        BY <4>1, Zenon
      <4> QED
        BY <1>12, <1>17, <4>2
    <3>2. Cardinality(Stored) + Cardinality(Placing) <= occupancy
      BY PlacingCounted
    <3> QED
      BY <1>11, <1>12, <1>17, <1>18, <2>1, <3>1, <3>2
  <2>2. CASE ~Room(g)
    BY <1>11, <1>17, <1>18, <2>2
  <2> QED
    BY <2>1, <2>2
<1> QED
  BY <1>1, <1>15, <1>17, <1>19 DEF CountInv
-----------------------------------------------------------------------------
(***************************************************************************)
(* usage_, occupancy_ and the table, over all steps.                       *)
(***************************************************************************)
LEMMA StepBalances ==
  ASSUME CInv, CInv', CountersWide, NoCarry, CountInv, NEW t \in Threads, Step(t)
  PROVE  CountInv'
<1>1. CASE LookupRef(t) \/ LookupMatch(t) \/ LookupHitDecr(t) \/ LookupUnref(t) \/ LookupNext(t)
  BY <1>1, LookupRefCounts, LookupMatchCounts, LookupHitDecrCounts, UnrefCounts, LookupNextCounts
<1>2. CASE \/ Reserve(t) \/ EvictStart(t) \/ ClockLoad(t) \/ ClockAge(t) \/ ClockTake(t)
           \/ EvictFree(t) \/ EvictStep(t)
  BY <1>2, ReserveCounts, SweepCounts, ClockAgeCounts, ClockTakeCounts, EvictFreeCounts
<1>3. CASE \/ EvictOccupancy(t) \/ EvictUsage(t) \/ UndoOccupancy(t) \/ FailOccupancy(t)
           \/ FailUsage(t) \/ EraseOccupancy(t)
  BY <1>3, EvictOccupancyCounts, EvictUsageCounts, UndoOccupancyCounts, FailOccupancyCounts,
     FailUsageCounts, EraseOccupancyCounts
<1>4. CASE \/ InsertSlot(t) \/ InsertRef(t) \/ InsertMatch(t) \/ InsertUnref(t) \/ InsertNext(t)
           \/ InsertFill(t)
  BY <1>4, InsertSlotCounts, InsertRefCounts, InsertMatchCounts, UnrefCounts, InsertNextCounts,
     InsertFillCounts
<1>5. CASE \/ EraseRef(t) \/ EraseMatch(t) \/ EraseUnref(t) \/ EraseOwn(t) \/ EraseFree(t)
           \/ EraseUsage(t) \/ EraseNext(t) \/ Rollback(t)
  BY <1>5, EraseRefCounts, EraseMatchCounts, UnrefCounts, EraseOwnCounts, EraseFreeCounts,
     EraseUsageCounts, EraseNextCounts, RollbackCounts
<1> QED
  BY <1>1, <1>2, <1>3, <1>4, <1>5, Zenon DEF Step

LEMMA BeginBalances ==
  ASSUME CInv, CInv', CountInv, NEW t \in Threads, Begin(t)
  PROVE  CountInv'
BY BeginCounts, InsertBeginCounts DEF Begin

LEMMA TotalZero ==
  ASSUME NEW S, NEW f, \A x \in S : f[x] = 0
  PROVE  Total(f, S) = 0
<1>1. Units(f, S) = {}
  BY DEF Units
<1> QED
  BY <1>1, FS_EmptySet DEF Units, Total

\* When nothing runs the counters are those of the table.
LEMMA QuietSums ==
  ASSUME CountInv, Quiescent
  PROVE  usage = ChargeOf(Stored) + 0 /\ occupancy = Cardinality(Stored) + 0
<1>1. \A t \in Threads : OwedUsage(t) = 0 /\ OwedOccupancy(t) = 0
  <2> TAKE t \in Threads
  <2>1. frame[t] = Idle
    BY DEF CountInv, FrameInv, Quiescent, At
  <2> QED
    BY <2>1, IdleDebt, OwedOf
<1>2. /\ Total([t \in Threads |-> OwedUsage(t)], Threads) = 0
      /\ Total([t \in Threads |-> OwedOccupancy(t)], Threads) = 0
  BY <1>1, TotalZero
<1> QED
  BY <1>2 DEF CountInv, SumsExact

\* The destructor leaves the charges as they are.
LEMMA DestroyCharge ==
  ASSUME CInv, Destroy
  PROVE  Stored' = Stored /\ ChargeOf(Stored)' = ChargeOf(Stored) /\ ChargeOf(Stored) \in Nat
<1>1. Stored' = Stored /\ Stored \subseteq Slots
  BY DEF Destroy, Stored
<1>2. \A s \in Slots : entry'[s].charge = entry[s].charge /\ entry[s].charge \in Nat
  <2> TAKE s \in Slots
  <2>1. entry[s] \in Entries
    BY DEF CInv, StateType
  <2> QED
    BY <2>1 DEF Destroy, Entries
<1> DEFINE f == [s \in Slots |-> entry[s].charge]
           g == [s \in Slots |-> entry'[s].charge]
<1>3. \A s \in Stored : f[s] = g[s] /\ f[s] \in Nat
  BY <1>1, <1>2
<1>4. ChargeOf(Stored) = Total(f, Stored) /\ ChargeOf(Stored)' = Total(g, Stored')
  BY DEF ChargeOf
<1> HIDE DEF f, g
<1>5. Total(f, Stored) = Total(g, Stored)
  BY <1>3, TotalSame
<1>6. Total(f, Stored) \in Nat
  BY <1>3, UnitsFinite, StoredFinite
<1> QED
  BY <1>1, <1>4, <1>5, <1>6

CountSafe ==
  IF alive THEN CInv /\ CountInv
  ELSE /\ Quiescent
       /\ usage = 0 /\ occupancy = 0
       /\ ChargeOf(Stored) <= Capacity /\ Cardinality(Stored) <= OccupancyLimit

\* What is stored is part of what is counted.
LEMMA Bounded ==
  ASSUME CInv, CountInv
  PROVE  /\ ChargeOf(Stored) <= Capacity /\ Cardinality(Stored) <= OccupancyLimit
         /\ usage \in Nat /\ occupancy \in Nat
<1> PICK f : f = [t \in Threads |-> OwedUsage(t)]
  OBVIOUS
<1> PICK p : p = [t \in Threads |-> OwedOccupancy(t)]
  OBVIOUS
<1>1. \A t \in Threads : f[t] \in Nat /\ p[t] \in Nat
  BY OwedNats
<1>2. Total(f, Threads) \in Nat /\ Total(p, Threads) \in Nat
  BY <1>1, ClientAssumption, UnitsFinite
<1>3. usage = ChargeOf(Stored) + Total(f, Threads)
      /\ occupancy = Cardinality(Stored) + Total(p, Threads)
  BY DEF CountInv, SumsExact
<1>4. ChargeOf(Stored) \in Nat
  <2>1. \A s \in Slots : entry[s].charge \in Nat
    BY DEF CInv, StateType, Entries
  <2> PICK c : c = [s \in Slots |-> entry[s].charge]
    OBVIOUS
  <2>2. Stored \subseteq Slots
    BY DEF Stored
  <2>3. \A s \in Stored : c[s] \in Nat
    BY <2>1, <2>2
  <2> QED
    BY <2>3, StoredFinite, UnitsFinite DEF ChargeOf
<1>5. /\ Cardinality(Stored) \in Nat /\ usage <= Capacity /\ Capacity \in Nat /\ OccupancyLimit \in Nat
      /\ Cardinality(Stored) + Cardinality(Placing) <= OccupancyLimit
  BY StoredFinite, CounterAssumption DEF CountInv
<1>6. Cardinality(Placing) \in Nat
  <2>1. Placing \subseteq Threads
    BY DEF Placing
  <2> QED
    BY <2>1, ClientAssumption, FS_Subset, FS_CardinalityType
<1> QED
  BY <1>2, <1>3, <1>4, <1>5, <1>6

LEMMA InitCounts ==
  ASSUME Init
  PROVE  CountSafe
<1>1. CInv /\ alive
  BY InitSafe DEF Init, Safe
<1>2. \A t \in Threads : frame[t] = Idle
  BY DEF Init
<1>3. \A t \in Threads : FrameInv(frame[t]) /\ OwedUsage(t) = 0 /\ OwedOccupancy(t) = 0
  BY <1>2, IdleDebt, OwedOf
<1>4. /\ Total([t \in Threads |-> OwedUsage(t)], Threads) = 0
      /\ Total([t \in Threads |-> OwedOccupancy(t)], Threads) = 0
  BY <1>3, TotalZero
<1>5. Stored = {}
  <2>1. StateUnit \in Nat \ {0}
    BY Products
  <2>2. State(0) = 0
    BY <2>1 DEF State
  <2> QED
    BY <2>2 DEF Stored, Init, StateInvisible, StateVisible
<1>6. ChargeOf(Stored) = 0 /\ Cardinality(Stored) = 0
  BY <1>5, TotalZero, FS_EmptySet DEF ChargeOf
<1>7. SumsExact
  BY <1>4, <1>6 DEF SumsExact, Init
<1>8. Placing = {}
  BY <1>2, IdleDebt DEF Placing
<1>9. Cardinality(Placing) = 0 /\ Capacity \in Nat /\ OccupancyLimit \in Nat
  BY <1>8, FS_EmptySet, CounterAssumption
<1>10. usage <= Capacity /\ Cardinality(Stored) + Cardinality(Placing) <= OccupancyLimit
  BY <1>6, <1>9 DEF Init
<1> QED
  BY <1>1, <1>3, <1>7, <1>10 DEF CountSafe, CountInv

LEMMA StutterCounts ==
  ASSUME UNCHANGED vars
  PROVE  (CountInv => CountInv') /\ (CountSafe => CountSafe')
<1>1. /\ UNCHANGED <<meta, entry, displacements, occupancy, usage, clock_pointer>>
      /\ UNCHANGED <<hit_decr_delta, todo, held, frame, alive>>
  BY DEF vars, shared
<1>2. Stored' = Stored /\ ChargeOf(Stored)' = ChargeOf(Stored) /\ Placing' = Placing
      /\ Quiescent' = Quiescent
  BY <1>1 DEF Stored, ChargeOf, Placing, Quiescent, At
<1>3. \A t \in Threads : OwedUsage(t)' = OwedUsage(t) /\ OwedOccupancy(t)' = OwedOccupancy(t)
  BY <1>1, OwedOf
<1>4. SumsExact => SumsExact'
  <2>1. /\ [t \in Threads |-> OwedUsage(t)]' = [t \in Threads |-> OwedUsage(t)]
        /\ [t \in Threads |-> OwedOccupancy(t)]' = [t \in Threads |-> OwedOccupancy(t)]
    BY <1>3
  <2> QED
    BY <1>1, <1>2, <2>1 DEF SumsExact
<1>5. CountInv => CountInv'
  BY <1>1, <1>2, <1>4 DEF CountInv
<1>6. CInv /\ alive => CInv'
  BY <1>1, StutterSafe DEF Safe
<1> QED
  BY <1>1, <1>2, <1>5, <1>6 DEF CountSafe

LEMMA NextCounts ==
  ASSUME CountSafe, CountersWide, NoEraseRace, NoCarry, [Next]_vars
  PROVE  CountSafe'
<1>1. CASE UNCHANGED vars
  BY <1>1, StutterCounts
<1>2. CASE alive /\ Destroy
  <2>1. CInv /\ CountInv /\ Quiescent
    BY <1>2 DEF CountSafe, Destroy
  <2>2. ~alive' /\ Quiescent' /\ usage' = usage - ChargeOf(Stored)
        /\ occupancy' = occupancy - Cardinality(Stored)
    BY <1>2 DEF Destroy, Quiescent, At
  <2>3. /\ Stored' = Stored /\ ChargeOf(Stored)' = ChargeOf(Stored) /\ ChargeOf(Stored) \in Nat
        /\ Cardinality(Stored) \in Nat
    BY <1>2, <2>1, DestroyCharge, StoredFinite
  <2>4. usage = ChargeOf(Stored) + 0 /\ occupancy = Cardinality(Stored) + 0
    BY <2>1, QuietSums
  <2>5. usage' = 0 /\ occupancy' = 0
    BY <2>2, <2>3, <2>4
  <2> QED
    BY <2>1, <2>2, <2>3, <2>5, Bounded DEF CountSafe
<1>3. ASSUME alive, NEW t \in Threads, Begin(t) \/ Step(t) \/ Release(t)
      PROVE  CountSafe'
  <2>1. CInv /\ CountInv
    BY <1>3 DEF CountSafe
  <2>2. CInv'
    BY <1>3, <2>1, BeginKeeps, StepKeeps, ReleaseKeeps
  <2>3. CountInv'
    BY <1>3, <2>1, <2>2, BeginBalances, StepBalances, ReleaseCounts
  <2>4. alive'
    BY <1>3, Alive
  <2> QED
    BY <2>2, <2>3, <2>4 DEF CountSafe
<1>4. CASE ~alive /\ Next
  BY <1>4, Alive DEF CountSafe, Next, Destroy
<1> QED
  BY <1>1, <1>2, <1>3, <1>4 DEF Next, Destroy

\* usage_ and occupancy_ always equal the stored entries and what the running calls
\* owe, within the capacity and the load factor, and the destructor brings them to 0.
THEOREM CountInvariance ==
  CountersWide /\ Spec /\ [](NoEraseRace /\ NoCarry) => []CountSafe
<1>1. CountersWide /\ CountSafe /\ NoEraseRace /\ NoCarry /\ [Next]_vars => CountSafe'
  BY NextCounts
<1>2. SUFFICES ASSUME CountersWide
               PROVE  Spec /\ [](NoEraseRace /\ NoCarry) => []CountSafe
  OBVIOUS
<1>3. CountSafe /\ (NoEraseRace /\ NoCarry) /\ [Next]_vars => CountSafe'
  BY <1>1, <1>2
<1>4. Init => CountSafe
  BY InitCounts
<1> QED
  BY <1>3, <1>4, PTL DEF Spec

LEMMA CountParts ==
  ASSUME CountSafe
  PROVE  CountersExact /\ CapacityRespected /\ LoadRespected
<1>1. CASE alive
  <2>1. CInv /\ CountInv
    BY <1>1 DEF CountSafe
  <2>2. CapacityRespected /\ LoadRespected
    BY <2>1, Bounded DEF CapacityRespected, LoadRespected
  <2> QED
    BY <2>1, <2>2 DEF CountersExact, CountInv, SumsExact
<1>2. CASE ~alive
  BY <1>2 DEF CountSafe, CountersExact, CapacityRespected, LoadRespected
<1> QED
  BY <1>1, <1>2

\* usage_ and occupancy_ are, at every instant, the stored entries and what each
\* running Insert, Evict and Erase has reserved or still has to give back.
THEOREM CountersAreExact ==
  CountersWide /\ Spec /\ [](NoEraseRace /\ NoCarry) => []CountersExact
<1>1. CountSafe => CountersExact
  BY CountParts
<1> QED
  BY <1>1, CountInvariance, PTL

\* However many inserts reserve charge and evict at a time, what is stored never
\* exceeds capacity_.
THEOREM CapacityIsRespected ==
  CountersWide /\ Spec /\ [](NoEraseRace /\ NoCarry) => []CapacityRespected
<1>1. CountSafe => CapacityRespected
  BY CountParts
<1> QED
  BY <1>1, CountInvariance, PTL

\* Inserts that pass the check of occupancy_ at the same time, or that were above
\* the limit and evicted, never fill more slots than the load factor allows.
THEOREM LoadIsRespected ==
  CountersWide /\ Spec /\ [](NoEraseRace /\ NoCarry) => []LoadRespected
<1>1. CountSafe => LoadRespected
  BY CountParts
<1> QED
  BY <1>1, CountInvariance, PTL
-----------------------------------------------------------------------------
(***************************************************************************)
(* The slots in the order a probe visits them.                             *)
(***************************************************************************)
LEMMA ModAdd ==
  ASSUME NEW d \in Nat \ {0}, NEW a \in Nat, NEW b \in Nat
  PROVE  ((a % d) + b) % d = (a + b) % d
<1> PICK q \in Nat, r \in 0 .. d - 1 : r = a % d /\ a = d * q + r
  BY DivModSplit
<1>1. r + b \in Nat
  OBVIOUS
<1> PICK p \in Nat, u \in 0 .. d - 1 : u = (r + b) % d /\ r + b = d * p + u
  BY <1>1, DivModSplit
<1>2. d * (q + p) = d * q + d * p
  OBVIOUS
<1>3. d * q \in Nat /\ d * p \in Nat
  OBVIOUS
<1>4. a + b = d * (q + p) + u
  BY <1>2, <1>3
<1>5. Divides(a + b, d, q + p, u)
  BY <1>4 DEF Divides
<1> QED
  BY <1>5, DivModUnique

LEMMA BeforeIs ==
  ASSUME NEW k \in Keys, NEW s \in Slots
  PROVE  Before(k, s) = {Visit(k, n) : n \in {i \in Slots : \A j \in 0 .. i : Visit(k, j) # s}}
BY DEF Before, Passed

LEMMA VisitFacts ==
  ASSUME NEW k \in Keys
  PROVE  /\ \A n \in Nat : Visit(k, n) \in Slots /\ NextSlot(k, Visit(k, n)) = Visit(k, n + 1)
         /\ Visit(k, 0) = Base[k] /\ Visit(k, Length) = Base[k]
         /\ \A s \in Slots : \E n \in Slots : s = Visit(k, n)
<1> PICK b \in Slots : b = Base[k]
  BY TableAssumption DEF Slots
<1> PICK c \in Nat : c = Increment[k]
  BY TableAssumption
<1>1. Length \in Nat \ {0} /\ b \in Nat
  BY TableAssumption DEF Slots
<1>2. ASSUME NEW n \in Nat
      PROVE  Visit(k, n) \in Slots /\ NextSlot(k, Visit(k, n)) = Visit(k, n + 1)
  <2>1. n * c \in Nat /\ (n + 1) * c = n * c + c
    OBVIOUS
  <2> PICK a \in Nat : a = b + n * c
    BY <1>1, <2>1
  <2>2. Visit(k, n) = a % Length
    BY DEF Visit
  <2>3. Visit(k, n + 1) = (a + c) % Length
    <3>1. b + (n + 1) * c = a + c
      BY <1>1, <2>1
    <3> QED
      BY <3>1 DEF Visit
  <2>4. ((a % Length) + c) % Length = (a + c) % Length
    BY <1>1, ModAdd
  <2> QED
    BY <2>2, <2>3, <2>4, SlotFacts DEF NextSlot
<1>3. Visit(k, 0) = Base[k]
  <2>1. 0 * c = 0 /\ b % Length = b
    BY <1>1 DEF Slots
  <2> QED
    BY <1>1, <2>1 DEF Visit
<1>4. Visit(k, Length) = Base[k]
  <2>1. Divides(b + Length * c, Length, c, b)
    BY <1>1 DEF Divides, Slots
  <2>2. (b + Length * c) % Length = b
    BY <2>1, DivModUnique
  <2> QED
    BY <2>2 DEF Visit
<1>5. \A s \in Slots : \E n \in Slots : s = Visit(k, n)
  BY TableAssumption DEF Visit, Slots
<1> QED
  BY <1>2, <1>3, <1>4, <1>5

\* A probe visits every slot, so it visits none twice.
LEMMA VisitOnce ==
  ASSUME NEW k \in Keys, NEW m \in Slots, NEW n \in Slots, Visit(k, m) = Visit(k, n)
  PROVE  m = n
<1> DEFINE f == [i \in Slots |-> Visit(k, i)]
<1>1. Slots \subseteq Nat
  BY DEF Slots
<1>2. \A i \in Slots : Visit(k, i) \in Slots
  BY <1>1, VisitFacts
<1>3. \A s \in Slots : \E i \in Slots : s = Visit(k, i)
  BY VisitFacts
<1>4. f \in Surjection(Slots, Slots)
  BY <1>2, <1>3 DEF Surjection
<1>5. f[m] = f[n]
  OBVIOUS
<1> HIDE DEF f
<1>6. f \in Injection(Slots, Slots)
  BY <1>4, StoredFinite, FS_Surjection
<1> QED
  BY <1>5, <1>6 DEF Injection, IsInjective

LEMMA BeforeVisit ==
  ASSUME NEW k \in Keys, NEW n \in Slots
  PROVE  Before(k, Visit(k, n)) = {Visit(k, i) : i \in 0 .. n - 1}
<1>1. n \in Nat /\ Length \in Nat /\ n < Length /\ Visit(k, n) \in Slots
  <2>1. n \in Nat /\ Length \in Nat /\ n < Length
    BY SlotFacts DEF Slots
  <2> QED
    BY <2>1, VisitFacts
<1>2. {i \in Slots : \A j \in 0 .. i : Visit(k, j) # Visit(k, n)} = 0 .. n - 1
  <2>1. ASSUME NEW i \in Slots, \A j \in 0 .. i : Visit(k, j) # Visit(k, n)
        PROVE  i \in 0 .. n - 1
    <3>1. n \notin 0 .. i
      BY <2>1
    <3> QED
      BY <1>1, <3>1 DEF Slots
  <2>2. ASSUME NEW i \in 0 .. n - 1
        PROVE  i \in Slots /\ \A j \in 0 .. i : Visit(k, j) # Visit(k, n)
    <3>1. i \in Slots /\ \A j \in 0 .. i : j \in Slots /\ j # n
      BY <1>1 DEF Slots
    <3> QED
      BY <3>1, VisitOnce
  <2> QED
    BY <2>1, <2>2
<1>3. Before(k, Visit(k, n))
        = {Visit(k, i) : i \in {j \in Slots : \A l \in 0 .. j : Visit(k, l) # Visit(k, n)}}
  BY <1>1, BeforeIs
<1> QED
  BY <1>2, <1>3

LEMMA BeforeBase ==
  ASSUME NEW k \in Keys
  PROVE  /\ Before(k, Base[k]) = {}
         /\ \A r \in Slots : r # Base[k] => Base[k] \in Before(k, r)
<1>1. Base[k] = Visit(k, 0) /\ 0 \in Slots
  BY VisitFacts, SlotFacts
<1>2. Before(k, Visit(k, 0)) = {Visit(k, i) : i \in 0 .. 0 - 1}
  BY <1>1, BeforeVisit
<1>3. Before(k, Base[k]) = {}
  BY <1>1, <1>2
<1>4. ASSUME NEW r \in Slots, r # Base[k]
      PROVE  Base[k] \in Before(k, r)
  <2> PICK n \in Slots : r = Visit(k, n)
    BY VisitFacts
  <2>1. 0 \in 0 .. n - 1
    BY <1>1, <1>4 DEF Slots
  <2>2. Before(k, Visit(k, n)) = {Visit(k, i) : i \in 0 .. n - 1}
    BY BeforeVisit
  <2> QED
    BY <1>1, <2>1, <2>2
<1> QED
  BY <1>3, <1>4

\* One step of a probe: it passes the slot it leaves.
LEMMA BeforeNext ==
  ASSUME NEW k \in Keys, NEW s \in Slots
  PROVE  /\ s \notin Before(k, s)
         /\ NextSlot(k, s) # Base[k] => Before(k, NextSlot(k, s)) = Before(k, s) \cup {s}
<1> PICK n \in Slots : s = Visit(k, n)
  BY VisitFacts
<1>1. n \in Nat /\ Length \in Nat /\ n < Length
  BY SlotFacts DEF Slots
<1>2. Before(k, s) = {Visit(k, i) : i \in 0 .. n - 1}
  BY BeforeVisit
<1>3. s \notin Before(k, s)
  <2> SUFFICES ASSUME NEW i \in 0 .. n - 1, Visit(k, i) = Visit(k, n)
               PROVE  FALSE
    BY <1>2
  <2>1. i \in Slots /\ i # n
    BY <1>1 DEF Slots
  <2> QED
    BY <2>1, VisitOnce
<1>4. ASSUME NextSlot(k, s) # Base[k]
      PROVE  Before(k, NextSlot(k, s)) = Before(k, s) \cup {s}
  <2>1. NextSlot(k, s) = Visit(k, n + 1) /\ Visit(k, Length) = Base[k]
    BY <1>1, VisitFacts
  <2>2. n + 1 \in Slots
    BY <1>1, <1>4, <2>1 DEF Slots
  <2> PICK m \in Slots : m = n + 1
    BY <2>2
  <2>3. Before(k, Visit(k, m)) = {Visit(k, i) : i \in 0 .. m - 1}
    BY BeforeVisit
  <2>4. 0 .. m - 1 = (0 .. n - 1) \cup {n}
    BY <1>1
  <2>5. {Visit(k, i) : i \in (0 .. n - 1) \cup {n}} = {Visit(k, i) : i \in 0 .. n - 1} \cup {Visit(k, n)}
    OBVIOUS
  <2> QED
    BY <1>2, <2>1, <2>3, <2>4, <2>5
<1> QED
  BY <1>3, <1>4

\* A slot before r: the next one is r or is before r as well, and not the base.
LEMMA BeforeWay ==
  ASSUME NEW k \in Keys, NEW r \in Slots, NEW s \in Before(k, r)
  PROVE  /\ s \in Slots /\ NextSlot(k, s) \in Slots
         /\ NextSlot(k, s) # Base[k] /\ Before(k, s) \subseteq Before(k, r)
         /\ NextSlot(k, s) = r \/ NextSlot(k, s) \in Before(k, r)
<1> PICK n \in Slots : r = Visit(k, n)
  BY VisitFacts
<1>1. n \in Nat /\ Length \in Nat /\ n < Length
  BY SlotFacts DEF Slots
<1>2. Before(k, r) = {Visit(k, i) : i \in 0 .. n - 1}
  BY BeforeVisit
<1> PICK i \in 0 .. n - 1 : s = Visit(k, i)
  BY <1>2
<1>3. i \in Slots /\ i + 1 \in Slots /\ i \in Nat /\ i + 1 \in 1 .. n
  BY <1>1 DEF Slots
<1>4. s \in Slots /\ NextSlot(k, s) = Visit(k, i + 1) /\ NextSlot(k, s) \in Slots
  BY <1>3, VisitFacts, SlotFacts
<1>5. NextSlot(k, s) # Base[k]
  <2>1. Base[k] = Visit(k, 0) /\ 0 \in Slots /\ i + 1 # 0
    BY <1>3, VisitFacts, SlotFacts
  <2> QED
    BY <1>3, <1>4, <2>1, VisitOnce
<1>6. Before(k, s) = {Visit(k, j) : j \in 0 .. i - 1}
  BY <1>3, BeforeVisit
<1>7. 0 .. i - 1 \subseteq 0 .. n - 1
  BY <1>1
<1>8. i + 1 = n \/ i + 1 \in 0 .. n - 1
  BY <1>1, <1>3
<1> QED
  BY <1>2, <1>4, <1>5, <1>6, <1>7, <1>8
-----------------------------------------------------------------------------
(***************************************************************************)
(* The displacements: a step of t changes where t has counted itself, and  *)
(* at most one slot of the table.                                          *)
(***************************************************************************)
In(x, S) == IF x \in S THEN 1 ELSE 0

LEMMA OthersWay ==
  ASSUME CInv, NEW t \in Threads, StepOf(t), PassInv,
         \A s \in Slots : entry'[s] = entry[s] \/ Owns(t, s), NEW u \in Threads \ {t}
  PROVE  /\ Way(frame'[u], entry') = Way(frame[u], entry)
         /\ PathInv(frame'[u], entry')
<1> PICK f \in Frames : f = frame[u]
  BY DEF CInv, StateType
<1>1. frame'[u] = f /\ PathInv(f, entry) /\ f.cur \in Slots
  BY FrameFacts DEF StepOf, PassInv
<1>2. ASSUME f.pc = "rollback", f.to = "evictFree"
      PROVE  entry'[EndSlot(f)] = entry[EndSlot(f)]
  <2>1. EndSlot(f) = ClockSlot(u)
    BY <1>2 DEF EndSlot, ClockSlot
  <2>2. Owns(u, ClockSlot(u)) /\ ClockSlot(u) \in Slots
    BY <1>2, ClockSlots DEF Owns, At
  <2>3. ~Owns(t, ClockSlot(u))
    BY <2>2 DEF CInv, OwnerInv
  <2> QED
    BY <2>1, <2>2, <2>3
<1>3. f.pc = "rollback" => EndKey(f, entry') = EndKey(f, entry)
  BY <1>2 DEF EndKey
<1>4. ASSUME f.pc \in {"eraseOwn", "eraseFree"}
      PROVE  entry'[f.cur] = entry[f.cur]
  <2>1. ~Owns(t, f.cur)
    <3>1. CASE f.pc = "eraseOwn"
      <4>1. Cur(u) \in Stored /\ Cur(u) = f.cur
        BY <3>1, ProberStored DEF RefLabels, Cur
      <4>2. State(meta[f.cur]) # 4
        BY <1>1, <4>1, StoredState
      <4> QED
        BY <1>1, <4>2 DEF CInv, OwnerInv, StateConstruction
    <3>2. CASE f.pc = "eraseFree"
      <4>1. Owns(u, f.cur)
        BY <3>2 DEF Owns, Cur
      <4> QED
        BY <1>1, <4>1 DEF CInv, OwnerInv
    <3> QED
      BY <1>4, <3>1, <3>2
  <2> QED
    BY <1>1, <2>1
<1>5. Way(f, entry') = Way(f, entry)
  BY <1>3 DEF Way
<1>6. PathInv(f, entry')
  BY <1>1, <1>3, <1>4 DEF PathInv
<1> QED
  BY <1>1, <1>5, <1>6

LEMMA PassStep ==
  ASSUME CInv, CInv', PassInv, NEW t \in Threads, Step(t) \/ Begin(t) \/ Release(t),
         NEW s \in Slots, Stored' \ {s} = Stored \ {s}, PathInv(frame'[t], entry'),
         \A x \in Slots :
           displacements'[x] = displacements[x]
             + (In(x, Way(frame'[t], entry')) - In(x, Way(frame[t], entry)))
             + (In(s, Passing(x)') - In(s, Passing(x)))
  PROVE  PassInv'
<1>1. StepOf(t) /\ \A x \in Slots : entry'[x] = entry[x] \/ Owns(t, x)
  BY ThreadStep, EntryStep
<1>2. \A u \in Threads \ {t} : /\ Way(frame'[u], entry') = Way(frame[u], entry)
                               /\ PathInv(frame'[u], entry')
  BY <1>1, OthersWay
<1>3. \A u \in Threads : PathInv(frame'[u], entry')
  BY <1>2
<1>4. \A x \in Stored : entry'[x] = entry[x]
  BY <1>1, StoredSame
<1>5. ASSUME NEW x \in Slots
      PROVE  PassedExact(x)'
  <2> PICK B : B = Bearers(x)
    OBVIOUS
  <2> PICK C : C = Bearers(x)'
    OBVIOUS
  <2> PICK P : P = Passing(x)
    OBVIOUS
  <2> PICK Q : Q = Passing(x)'
    OBVIOUS
  <2>1. IsFiniteSet(B) /\ IsFiniteSet(P)
    <3>1. B \subseteq Threads /\ P \subseteq Stored
      BY DEF Bearers, Passing
    <3> QED
      BY <3>1, ClientAssumption, StoredFinite, FS_Subset
  <2>2. B \ {t} = C \ {t}
    BY <1>2 DEF Bearers
  <2>3. (t \in B <=> x \in Way(frame[t], entry)) /\ (t \in C <=> x \in Way(frame'[t], entry'))
    BY DEF Bearers
  <2>4. P \ {s} = Q \ {s}
    BY <1>4 DEF Passing
  <2>5. Cardinality(B) \in Nat /\ Cardinality(C) = Cardinality(B) + (In(t, C) - In(t, B))
    BY <2>1, <2>2, CountChange DEF In
  <2>6. Cardinality(P) \in Nat /\ Cardinality(Q) = Cardinality(P) + (In(s, Q) - In(s, P))
    BY <2>1, <2>4, CountChange DEF In
  <2>7. In(t, C) = In(x, Way(frame'[t], entry')) /\ In(t, B) = In(x, Way(frame[t], entry))
    BY <2>3 DEF In
  <2>8. displacements[x] = Cardinality(P) + Cardinality(B)
    BY DEF PassInv, PassedExact
  <2>9. displacements'[x] = displacements[x] + (In(t, C) - In(t, B)) + (In(s, Q) - In(s, P))
    BY <2>7
  <2>10. In(t, C) \in Int /\ In(t, B) \in Int /\ In(s, Q) \in Int /\ In(s, P) \in Int
    BY DEF In
  <2>11. displacements'[x] = Cardinality(Q) + Cardinality(C)
    BY <2>5, <2>6, <2>8, <2>9, <2>10
  <2> QED
    BY <2>11 DEF PassedExact
<1> QED
  BY <1>3, <1>5 DEF PassInv

\* The table and the displacements stay as they are.
LEMMA PassKept ==
  ASSUME CInv, CInv', PassInv, NEW t \in Threads, Step(t) \/ Begin(t) \/ Release(t),
         Stored' = Stored, UNCHANGED displacements,
         Way(frame'[t], entry') = Way(frame[t], entry), PathInv(frame'[t], entry')
  PROVE  PassInv'
<1>1. \A x \in Stored : entry'[x] = entry[x]
  BY EntryStep, StoredSame
<1>2. \A x \in Slots : Passing(x)' = Passing(x)
  BY <1>1 DEF Passing
<1>3. \A x \in Slots : displacements[x] \in Int
  BY DEF CInv, StateType
<1>4. ASSUME NEW x \in Slots
      PROVE  displacements'[x] = displacements[x]
               + (In(x, Way(frame'[t], entry')) - In(x, Way(frame[t], entry)))
               + (In(0, Passing(x)') - In(0, Passing(x)))
  <2>1. \A y, S : In(y, S) \in Int
    BY DEF In
  <2> QED
    BY <1>2, <1>3, <2>1
<1>5. 0 \in Slots
  BY SlotFacts
<1> QED
  BY <1>4, <1>5, PassStep

-----------------------------------------------------------------------------
(***************************************************************************)
(* Steps that leave the displacements as they are.                         *)
(***************************************************************************)
LightLabels == LookupLabels \cup
               {"idle", "reserve", "undoOccupancy", "fail", "failUsage", "eraseFirst",
                "eraseRef", "eraseMatch", "eraseUnref", "eraseNext"}

\* A call that has not counted itself anywhere.
LEMMA LightWay ==
  ASSUME NEW f, NEW e, f.pc \in LightLabels
  PROVE  Way(f, e) = {} /\ PathInv(f, e)
BY DEF Way, PathInv, LightLabels, LookupLabels, PathLabels, ProbeLabels, Evicting, EvictLabels

LEMMA SweepWay ==
  ASSUME NEW f, NEW e, f.pc \in EvictLabels, f.cur = Base[f.call.h.key]
  PROVE  Way(f, e) = {} /\ PathInv(f, e)
BY DEF Way, PathInv, PathLabels, ProbeLabels, Evicting, EvictLabels

\* A probe that is at its base.
LEMMA BaseWay ==
  ASSUME NEW f, NEW e, f.pc \in ProbeLabels, f.call.h.key \in Keys, f.cur = Base[f.call.h.key]
  PROVE  Way(f, e) = {} /\ PathInv(f, e)
<1>1. Way(f, e) = {}
  BY BeforeBase DEF Way, PathLabels
<1> QED
  BY <1>1 DEF PathInv, ProbeLabels, Evicting, EvictLabels

LEMMA SameWay ==
  ASSUME NEW f, NEW g, NEW e, NEW d, f.pc \in PathLabels, g.pc \in PathLabels,
         g.call = f.call, g.cur = f.cur
  PROVE  Way(g, d) = Way(f, e)
BY DEF Way

LEMMA LightMoves ==
  ASSUME CInv, NEW t \in Threads,
         \/ LookupRef(t) \/ LookupMatch(t) \/ LookupHitDecr(t) \/ LookupUnref(t) \/ LookupNext(t)
         \/ UndoOccupancy(t) \/ FailOccupancy(t) \/ FailUsage(t) \/ EraseRef(t) \/ EraseUnref(t)
         \/ Begin(t) \/ Release(t)
  PROVE  /\ frame[t].pc \in LightLabels /\ frame'[t].pc \in LightLabels
         /\ UNCHANGED displacements
<1>0. frame[t] \in Frames /\ frame \in [Threads -> Frames]
  BY Actor
<1>1. ASSUME NEW l, Goto(t, l)
      PROVE  frame'[t].pc = l
  BY <1>1, Goes
<1>2. Return(t) => frame'[t].pc = "idle"
  BY ReturnsIdle DEF Idle
<1>3. CASE LookupRef(t) \/ LookupUnref(t) \/ FailOccupancy(t) \/ EraseUnref(t)
  BY <1>1, <1>3 DEF LookupRef, LookupUnref, FailOccupancy, EraseUnref, At, OnlyMeta, OnlyOccupancy,
     LightLabels, LookupLabels
<1>4. CASE LookupHitDecr(t) \/ UndoOccupancy(t) \/ FailUsage(t)
  BY <1>2, <1>4 DEF LookupHitDecr, UndoOccupancy, FailUsage, At, OnlyUsage, OnlyOccupancy,
     LightLabels, LookupLabels
<1>5. CASE LookupMatch(t)
  <2>1. ASSUME NEW n, frame' = [frame EXCEPT ![t].amount = n, ![t].pc = "lookupHitDecr"]
        PROVE  frame'[t].pc = "lookupHitDecr"
    <3>1. frame'[t] = [frame[t] EXCEPT !.amount = n, !.pc = "lookupHitDecr"]
      BY <1>0, <2>1
    <3> QED
      BY <1>0, <3>1 DEF Frames
  <2> QED
    BY <1>2, <1>5, <2>1 DEF LookupMatch, At, LightLabels, LookupLabels
<1>6. CASE LookupNext(t)
  <2>1. ASSUME NEW s, frame' = [frame EXCEPT ![t].cur = s, ![t].pc = "lookupRef"]
        PROVE  frame'[t].pc = "lookupRef"
    <3>1. frame'[t] = [frame[t] EXCEPT !.cur = s, !.pc = "lookupRef"]
      BY <1>0, <2>1
    <3> QED
      BY <1>0, <3>1 DEF Frames
  <2> QED
    BY <1>2, <1>6, <2>1 DEF LookupNext, Probe, At, LightLabels, LookupLabels, shared
<1>7. CASE EraseRef(t)
  <2>1. \E s : \E l \in {"eraseMatch", "eraseUnref"} : frame' = [frame EXCEPT ![t].cur = s, ![t].pc = l]
    BY <1>7 DEF EraseRef
  <2> PICK s : \E l \in {"eraseMatch", "eraseUnref"} : frame' = [frame EXCEPT ![t].cur = s, ![t].pc = l]
    BY <2>1
  <2> PICK l \in {"eraseMatch", "eraseUnref"} : frame' = [frame EXCEPT ![t].cur = s, ![t].pc = l]
    OBVIOUS
  <2>2. frame'[t] = [frame[t] EXCEPT !.cur = s, !.pc = l]
    BY <1>0
  <2>3. frame'[t].pc = l
    BY <1>0, <2>2 DEF Frames
  <2> QED
    BY <1>7, <2>3 DEF EraseRef, At, LightLabels, OnlyMeta
<1>8. CASE Begin(t)
  <2> PICK c \in todo[t] : LookupBegin(t, c) \/ InsertBegin(t, c) \/ EraseBegin(t, c)
    BY <1>8 DEF Begin
  <2>1. frame'[t].pc \in {"lookupRef", "reserve", "eraseRef"}
    <3>1. CASE LookupBegin(t, c)
      <4>1. frame'[t] = [frame[t] EXCEPT !.call = c, !.cur = Base[c.h.key], !.pc = "lookupRef"]
        BY <1>0, <3>1 DEF LookupBegin
      <4> QED
        BY <1>0, <4>1 DEF Frames
    <3>2. CASE InsertBegin(t, c)
      <4>1. frame'[t] = [frame[t] EXCEPT !.call = c, !.occ = (occupancy + 1 > OccupancyLimit),
                                         !.pc = "reserve"]
        BY <1>0, <3>2 DEF InsertBegin
      <4> QED
        BY <1>0, <4>1 DEF Frames
    <3>3. CASE EraseBegin(t, c)
      <4>1. frame'[t] = [frame[t] EXCEPT !.call = c, !.cur = Base[c.h.key], !.pc = "eraseRef"]
        BY <1>0, <3>3 DEF EraseBegin
      <4> QED
        BY <1>0, <4>1 DEF Frames
    <3> QED
      BY <3>1, <3>2, <3>3
  <2>2. frame[t].pc = "idle" /\ UNCHANGED displacements
    BY DEF LookupBegin, InsertBegin, EraseBegin, Take, At, shared
  <2> QED
    BY <2>1, <2>2 DEF LightLabels, LookupLabels
<1>9. CASE Release(t)
  BY <1>9 DEF Release, At, LightLabels
<1> QED
  BY <1>3, <1>4, <1>5, <1>6, <1>7, <1>8, <1>9

LEMMA LightPasses ==
  ASSUME CInv, CInv', CountersWide, NoCarry, PassInv, NEW t \in Threads,
         \/ LookupRef(t) \/ LookupMatch(t) \/ LookupHitDecr(t) \/ LookupUnref(t) \/ LookupNext(t)
         \/ UndoOccupancy(t) \/ FailOccupancy(t) \/ FailUsage(t) \/ EraseRef(t) \/ EraseUnref(t)
         \/ Begin(t) \/ Release(t)
  PROVE  PassInv'
<1>1. /\ frame[t].pc \in LightLabels /\ frame'[t].pc \in LightLabels
      /\ UNCHANGED displacements
  BY LightMoves
<1>2. Way(frame'[t], entry') = Way(frame[t], entry) /\ PathInv(frame'[t], entry')
  BY <1>1, LightWay
<1>3. Stored' = Stored
  BY TableSame DEF TableStep
<1>4. Step(t) \/ Begin(t) \/ Release(t)
  BY DEF Step
<1> QED
  BY <1>1, <1>2, <1>3, <1>4, PassKept

\* Evict has its probe at the base.
LEMMA SweepPasses ==
  ASSUME CInv, CInv', CountersWide, NoCarry, PassInv, NEW t \in Threads, Step(t), Stored' = Stored,
         UNCHANGED displacements, frame[t].pc \in EvictLabels, frame'[t].pc \in EvictLabels,
         frame'[t].cur = frame[t].cur, frame'[t].call = frame[t].call
  PROVE  PassInv'
<1>1. frame[t].cur = Base[frame[t].call.h.key]
  BY DEF PassInv, PathInv, Evicting
<1>2. Way(frame'[t], entry') = Way(frame[t], entry) /\ PathInv(frame'[t], entry')
  BY <1>1, SweepWay
<1> QED
  BY <1>2, PassKept

LEMMA EvictPasses ==
  ASSUME CInv, CInv', CountersWide, NoCarry, PassInv, NEW t \in Threads,
         EvictStart(t) \/ ClockLoad(t) \/ EvictStep(t) \/ ClockAge(t) \/ EvictFree(t)
  PROVE  PassInv'
<1> PICK f \in Frames : f = frame[t]
  BY Actor
<1>1. frame \in [Threads -> Frames]
  BY Actor
<1>2. Stored' = Stored
  BY TableSame DEF TableStep
<1>3. UNCHANGED displacements /\ Step(t)
      /\ f.pc \in {"evict", "clockLoad", "clockAge", "evictFree"}
  BY DEF EvictStart, ClockLoad, EvictStep, ClockAge, EvictFree, OnlyMeta, shared, Step, At
<1>4. /\ frame'[t].pc \in {"clockLoad", "clockAge", "clockTake", "evictOccupancy"}
      /\ frame'[t].cur = f.cur /\ frame'[t].call = f.call
  <2>1. CASE EvictStart(t)
    <3>1. frame'[t] = [f EXCEPT !.ptr = clock_pointer, !.max = clock_pointer + MaxCountdown * Length,
                                !.delta = hit_decr_delta, !.pc = "clockLoad"]
      BY <1>1, <2>1 DEF EvictStart
    <3> QED
      BY <3>1 DEF Frames
  <2>2. CASE ClockLoad(t)
    <3>1. \/ frame'[t] = [f EXCEPT !.i = @ + 1]
          \/ frame'[t] = [f EXCEPT !.pinned = @ + 1, !.i = @ + 1]
          \/ \E l \in {"clockAge", "clockTake"} :
               frame'[t] = [f EXCEPT !.m = meta[ClockSlot(t)], !.pc = l]
      BY <1>1, <2>2 DEF ClockLoad
    <3>2. f.pc = "clockLoad"
      BY <2>2 DEF ClockLoad, At
    <3> QED
      BY <3>1, <3>2 DEF Frames
  <2>3. CASE EvictStep(t)
    <3>1. \/ frame'[t] = [f EXCEPT !.pc = "evictOccupancy"]
          \/ frame'[t] = [f EXCEPT !.ptr = clock_pointer, !.i = 0, !.off = @ + StepSize,
                                   !.delta = NextDelta(f)]
      BY <1>1, <2>3 DEF EvictStep, Goto
    <3>2. f.pc = "clockLoad"
      BY <2>3 DEF EvictStep, At
    <3> QED
      BY <3>1, <3>2 DEF Frames
  <2>4. CASE ClockAge(t)
    <3>1. frame'[t] = [f EXCEPT !.i = @ + 1, !.m = 0, !.pc = "clockLoad"]
      BY <1>1, <2>4 DEF ClockAge
    <3> QED
      BY <3>1 DEF Frames
  <2>5. CASE EvictFree(t)
    <3>1. frame'[t] = [f EXCEPT !.i = @ + 1, !.pc = "clockLoad"]
      BY <1>1, <2>5 DEF EvictFree
    <3> QED
      BY <3>1 DEF Frames
  <2> QED
    BY <2>1, <2>2, <2>3, <2>4, <2>5
<1> QED
  BY <1>2, <1>3, <1>4, SweepPasses DEF EvictLabels

\* EvictForCharge ends, or is not needed: the probe begins at the base.
LEMMA SettledPasses ==
  ASSUME CInv, CInv', CountersWide, NoCarry, PassInv, NEW t \in Threads,
         Reserve(t) \/ EvictOccupancy(t) \/ EvictUsage(t)
  PROVE  PassInv'
<1> PICK f \in Frames : f = frame[t]
  BY Actor
<1>1. frame \in [Threads -> Frames]
  BY Actor
<1>2. Stored' = Stored
  BY TableSame DEF TableStep
<1>3. UNCHANGED displacements /\ Step(t) /\ f.pc \in {"reserve", "evictOccupancy", "evictUsage"}
  BY DEF Reserve, EvictOccupancy, EvictUsage, OnlyUsage, OnlyOccupancy, Step, At
<1>4. f.call.h.key \in Keys
  BY <1>3, Actor DEF Key
<1>5. /\ frame'[t].pc \in {"evict", "slot", "evictUsage", "undoOccupancy"}
      /\ frame'[t].cur = Base[f.call.h.key] /\ frame'[t].call = f.call
  <2>1. CASE Reserve(t)
    <3>1. \E n, r : \E l \in {"evict", "slot"} :
            frame'[t] = [f EXCEPT !.res = r, !.need = n, !.cur = Base[f.call.h.key], !.pc = l]
      BY <1>1, <2>1 DEF Reserve, Key
    <3> QED
      BY <3>1 DEF Frames
  <2>2. CASE EvictOccupancy(t) \/ EvictUsage(t)
    <3>1. \E l \in {"slot", "evictUsage", "undoOccupancy"} : frame'[t] = [f EXCEPT !.pc = l]
      BY <1>1, <2>2 DEF EvictOccupancy, EvictUsage, Goto
    <3>2. f.pc \in EvictLabels
      BY <2>2 DEF EvictOccupancy, EvictUsage, At, EvictLabels
    <3>3. f.cur = Base[f.call.h.key]
      BY <3>2 DEF PassInv, PathInv, Evicting
    <3> QED
      BY <3>1, <3>3 DEF Frames
  <2> QED
    BY <2>1, <2>2
<1>6. Way(frame'[t], entry') = {} /\ PathInv(frame'[t], entry')
  BY <1>4, <1>5, LightWay, SweepWay, BaseWay DEF LightLabels, EvictLabels, ProbeLabels
<1>7. Way(f, entry) = {}
  BY <1>3 DEF Way, PathLabels, ProbeLabels
<1> QED
  BY <1>2, <1>3, <1>6, <1>7, PassKept

\* A call goes on where it is.
LEMMA StandsPasses ==
  ASSUME CInv, CInv', CountersWide, NoCarry, PassInv, NEW t \in Threads,
         InsertSlot(t) \/ InsertRef(t) \/ InsertUnref(t) \/ EraseFree(t) \/ EraseOccupancy(t)
  PROVE  PassInv'
<1> PICK f \in Frames : f = frame[t]
  BY Actor
<1>1. frame \in [Threads -> Frames]
  BY Actor
<1>2. Stored' = Stored
  BY TableSame DEF TableStep
<1>3. UNCHANGED displacements /\ Step(t) /\ f.pc \in PathLabels
  BY DEF InsertSlot, InsertRef, InsertUnref, EraseFree, EraseOccupancy, OnlyMeta, OnlyOccupancy,
     Step, At, PathLabels, ProbeLabels
<1>4. /\ frame'[t].pc \in PathLabels \ {"eraseFree"}
      /\ frame'[t].cur = f.cur /\ frame'[t].call = f.call
  <2>1. CASE EraseFree(t)
    <3>1. frame'[t] = [f EXCEPT !.amount = entry[Cur(t)].charge, !.succ = TRUE,
                                !.pc = "eraseOccupancy"]
      BY <1>1, <2>1 DEF EraseFree
    <3> QED
      BY <3>1 DEF Frames, PathLabels, ProbeLabels
  <2>2. CASE InsertSlot(t) \/ InsertRef(t) \/ InsertUnref(t) \/ EraseOccupancy(t)
    <3>1. \E l \in {"fill", "slotRef", "slotNext", "slotMatch", "slotUnref", "eraseUsage"} :
            frame'[t] = [f EXCEPT !.pc = l]
      BY <1>1, <2>2 DEF InsertSlot, InsertRef, InsertUnref, EraseOccupancy, Goto
    <3> QED
      BY <3>1 DEF Frames, PathLabels, ProbeLabels
  <2> QED
    BY <2>1, <2>2
<1>5. Way(frame'[t], entry') = Way(f, entry)
  BY <1>3, <1>4, SameWay
<1>6. PathInv(frame'[t], entry')
  BY <1>4 DEF PathInv, PathLabels, ProbeLabels, Evicting, EvictLabels
<1> QED
  BY <1>2, <1>3, <1>5, <1>6, PassKept

LEMMA EraseMatchPasses ==
  ASSUME CInv, CInv', CountersWide, NoCarry, PassInv, NEW t \in Threads, EraseMatch(t)
  PROVE  PassInv'
<1> PICK f \in Frames : f = frame[t]
  BY Actor
<1>1. frame \in [Threads -> Frames]
  BY Actor
<1>2. Stored' = Stored
  BY TableSame DEF TableStep
<1>3. UNCHANGED <<displacements, entry>> /\ Step(t) /\ f.pc = "eraseMatch"
      /\ entry[f.cur].key = f.call.h.key
  BY DEF EraseMatch, OnlyMeta, Step, At, Cur, Key
<1>4. frame'[t] = [f EXCEPT !.found = TRUE, !.m = ClearVisible(meta[Cur(t)]), !.pc = "eraseOwn"]
  BY <1>1 DEF EraseMatch
<1>5. frame'[t].pc = "eraseOwn" /\ frame'[t].cur = f.cur /\ frame'[t].call = f.call
  BY <1>4 DEF Frames
<1>6. Way(frame'[t], entry') = Way(f, entry)
  BY <1>3, <1>5 DEF Way, PathLabels, ProbeLabels
<1>7. PathInv(frame'[t], entry')
  BY <1>3, <1>5 DEF PathInv, Evicting, EvictLabels
<1> QED
  BY <1>2, <1>3, <1>6, <1>7, PassKept

LEMMA EraseNextPasses ==
  ASSUME CInv, CInv', CountersWide, NoCarry, PassInv, NEW t \in Threads, EraseNext(t)
  PROVE  PassInv'
<1> PICK f \in Frames : f = frame[t]
  BY Actor
<1>1. frame \in [Threads -> Frames]
  BY Actor
<1>2. Stored' = Stored
  BY TableSame DEF TableStep
<1>3. UNCHANGED displacements /\ Step(t) /\ f.pc = "eraseNext"
  BY DEF EraseNext, shared, Step, At
<1>4. f.call.h.key \in Keys
  BY <1>3, Actor DEF Key
<1>5. \/ frame'[t] = Idle
      \/ frame'[t] = [f EXCEPT !.cur = NextSlot(Key(t), Cur(t)), !.pc = "eraseRef"]
      \/ \E l \in {"slot", "fail"} :
           frame'[t] = [f EXCEPT !.again = TRUE, !.cur = Base[f.call.h.key], !.pc = l]
  BY <1>1 DEF EraseNext, Probe, EraseEnd, Return, Key
<1>6. \/ frame'[t].pc \in {"idle", "eraseRef", "fail"}
      \/ frame'[t].pc = "slot" /\ frame'[t].call = f.call /\ frame'[t].cur = Base[f.call.h.key]
  <2>1. CASE frame'[t] = Idle
    BY <2>1 DEF Idle
  <2>2. CASE frame'[t] # Idle
    BY <1>5, <2>2 DEF Frames
  <2> QED
    BY <2>1, <2>2
<1>7. Way(frame'[t], entry') = {} /\ PathInv(frame'[t], entry')
  BY <1>4, <1>6, LightWay, BaseWay DEF LightLabels, ProbeLabels
<1>8. Way(f, entry) = {}
  BY <1>3, LightWay DEF LightLabels
<1> QED
  BY <1>2, <1>3, <1>7, <1>8, PassKept

\* f rolls back for key k in slot s, and goes on at l.
Turning(f, e, k, s, l) ==
  IF l = "evictFree"
  THEN (f.ptr + f.i) % Length = s /\ e[s].key = k /\ f.cur = Base[f.call.h.key]
  ELSE f.cur = s /\ f.call.h.key = k /\ l \in {"fail", "eraseFirst", "eraseNext"}

\* A call whose rollback begins is still counted where it was.
LEMMA RolledWay ==
  ASSUME NEW f \in Frames, NEW k \in Keys, NEW s \in Slots, NEW l, NEW e, Turning(f, e, k, s, l)
  PROVE  LET g == RollbackTo(f, k, s, l)
         IN  Way(g, e) = Before(k, s) /\ PathInv(g, e)
<1> PICK g : g = RollbackTo(f, k, s, l)
  OBVIOUS
<1>1. /\ g.call = f.call /\ g.cur = f.cur /\ g.ptr = f.ptr /\ g.i = f.i
      /\ Base[k] = s => g.pc = l
      /\ Base[k] # s => g.pc = "rollback" /\ g.to = l /\ g.rb = Base[k]
  BY RolledFrame DEF SameMoney
<1>2. Before(k, Base[k]) = {} /\ (s # Base[k] => Base[k] \in Before(k, s))
  BY BeforeBase
<1>3. CASE Base[k] = s
  <2>1. CASE l = "evictFree"
    <3>1. g.pc = "evictFree" /\ g.cur = Base[g.call.h.key]
      BY <1>1, <1>3, <2>1 DEF Turning
    <3>2. Way(g, e) = {} /\ PathInv(g, e)
      BY <3>1, SweepWay DEF EvictLabels
    <3> QED
      BY <1>2, <1>3, <3>2
  <2>2. CASE l # "evictFree"
    BY <1>1, <1>2, <1>3, <2>2, LightWay DEF LightLabels, Turning
  <2> QED
    BY <2>1, <2>2
<1>4. CASE Base[k] # s
  <2>1. EndSlot(g) = s /\ EndKey(g, e) = k
    BY <1>1, <1>4 DEF EndSlot, EndKey, Turning
  <2>2. Way(g, e) = Before(k, s)
    BY <1>1, <1>2, <1>4, <2>1 DEF Way, PathLabels, ProbeLabels
  <2>3. PathInv(g, e)
    BY <1>1, <1>2, <1>4, <2>1 DEF PathInv, Evicting, EvictLabels, Turning
  <2> QED
    BY <2>2, <2>3
<1> QED
  BY <1>3, <1>4

\* A call gives up, or has erased its entry.
LEMMA TurnsPasses ==
  ASSUME CInv, CInv', CountersWide, NoCarry, PassInv, NEW t \in Threads,
         \/ InsertMatch(t) \/ EraseUsage(t)
         \/ InsertNext(t) /\ NextSlot(Key(t), Cur(t)) = Base[Key(t)]
  PROVE  PassInv'
<1> PICK f \in Frames : f = frame[t]
  BY Actor
<1>1. frame \in [Threads -> Frames] /\ f.cur \in Slots
  BY Actor, FrameFacts
<1>2. Stored' = Stored
  BY TableSame DEF TableStep
<1>3. UNCHANGED <<displacements, entry>> /\ Step(t) /\ f.pc \in {"slotMatch", "eraseUsage", "slotNext"}
  BY DEF InsertMatch, EraseUsage, InsertNext, OnlyMeta, OnlyUsage, OnlyDisplacements, Step, At
<1>4. f.call.h.key \in Keys
  BY <1>3, Actor DEF Key
<1>5. PICK h \in Frames : /\ h.call = f.call /\ h.cur = f.cur
                          /\ \E l \in {"fail", "eraseFirst", "eraseNext"} :
                               frame'[t] = RollbackTo(h, f.call.h.key, f.cur, l)
  <2>1. CASE EraseUsage(t)
    <3> PICK h : h = [f EXCEPT !.amount = 0]
      OBVIOUS
    <3>1. h \in Frames /\ h.call = f.call /\ h.cur = f.cur
      BY DEF Frames
    <3>2. frame'[t] = RollbackTo(h, f.call.h.key, f.cur, "eraseNext")
      BY <1>1, <2>1 DEF EraseUsage, Key, Cur
    <3> QED
      BY <3>1, <3>2
  <2>2. CASE InsertMatch(t) \/ (InsertNext(t) /\ NextSlot(Key(t), Cur(t)) = Base[Key(t)])
    <3>1. \E l \in {"fail", "eraseFirst"} : frame'[t] = RollbackTo(frame[t], Key(t), Cur(t), l)
      <4>1. CASE InsertMatch(t)
        BY <1>1, <4>1 DEF InsertMatch
      <4>2. CASE InsertNext(t) /\ NextSlot(Key(t), Cur(t)) = Base[Key(t)]
        BY <1>1, <4>2 DEF InsertNext
      <4> QED
        BY <2>2, <4>1, <4>2
    <3>2. Key(t) = f.call.h.key /\ Cur(t) = f.cur
      BY DEF Key, Cur
    <3> QED
      BY <3>1, <3>2
  <2> QED
    BY <2>1, <2>2
<1>6. Way(frame'[t], entry') = Before(f.call.h.key, f.cur) /\ PathInv(frame'[t], entry')
  <2> PICK l \in {"fail", "eraseFirst", "eraseNext"} :
             frame'[t] = RollbackTo(h, f.call.h.key, f.cur, l)
    BY <1>5
  <2>1. Turning(h, entry', f.call.h.key, f.cur, l)
    BY <1>5 DEF Turning
  <2> QED
    BY <1>1, <1>4, <2>1, RolledWay
<1>7. Way(f, entry) = Before(f.call.h.key, f.cur)
  BY <1>3 DEF Way, PathLabels, ProbeLabels
<1> QED
  BY <1>2, <1>3, <1>6, <1>7, PassKept
-----------------------------------------------------------------------------
(***************************************************************************)
(* Steps that change a displacement.                                       *)
(***************************************************************************)
LEMMA PassMoved ==
  ASSUME CInv, CInv', PassInv, NEW t \in Threads, Step(t), UNCHANGED <<meta, entry>>,
         NEW s \in Slots, PathInv(frame'[t], entry'),
         \/ /\ OneMore(Way(frame[t], entry), Way(frame'[t], entry'), s)
            /\ displacements' = [displacements EXCEPT ![s] = @ + 1]
         \/ /\ OneMore(Way(frame'[t], entry'), Way(frame[t], entry), s)
            /\ displacements' = [displacements EXCEPT ![s] = @ - 1]
  PROVE  PassInv'
<1>1. Stored' = Stored
  BY MetaSame
<1>2. \A x \in Slots : Passing(x)' = Passing(x)
  BY <1>1 DEF Passing
<1>3. displacements \in [Slots -> Int]
  BY DEF CInv, StateType
<1>4. ASSUME NEW x \in Slots
      PROVE  displacements'[x] = displacements[x]
               + (In(x, Way(frame'[t], entry')) - In(x, Way(frame[t], entry)))
               + (In(s, Passing(x)') - In(s, Passing(x)))
  <2>1. displacements'[x] = displacements[x]
          + (In(x, Way(frame'[t], entry')) - In(x, Way(frame[t], entry)))
    BY <1>3 DEF In, OneMore
  <2>2. In(s, Passing(x)') - In(s, Passing(x)) = 0
    BY <1>2 DEF In
  <2>3. /\ displacements[x] \in Int
        /\ In(x, Way(frame'[t], entry')) - In(x, Way(frame[t], entry)) \in Int
    BY <1>3 DEF In
  <2> QED
    BY <2>1, <2>2, <2>3
<1> QED
  BY <1>1, <1>4, PassStep

\* The probe of an Insert goes on: it counts itself in the slot it leaves.
LEMMA InsertNextPasses ==
  ASSUME CInv, CInv', CountersWide, NoCarry, PassInv, NEW t \in Threads, InsertNext(t)
  PROVE  PassInv'
<1> PICK f \in Frames : f = frame[t]
  BY Actor
<1> PICK k : k = f.call.h.key
  OBVIOUS
<1> PICK s \in Slots : s = f.cur
  BY FrameFacts
<1>1. frame \in [Threads -> Frames] /\ f.pc = "slotNext" /\ Step(t) /\ UNCHANGED <<meta, entry>>
  BY Actor DEF InsertNext, At, Step, OnlyDisplacements
<1>2. k \in Keys /\ Key(t) = k /\ Cur(t) = s
  BY <1>1, Actor DEF Key, Cur
<1>3. CASE NextSlot(k, s) = Base[k]
  BY <1>2, <1>3, TurnsPasses
<1>4. CASE NextSlot(k, s) # Base[k]
  <2>1. /\ displacements' = [displacements EXCEPT ![s] = @ + 1]
        /\ frame'[t] = [f EXCEPT !.cur = NextSlot(k, s), !.pc = "slot"]
    BY <1>1, <1>2, <1>4 DEF InsertNext
  <2>2. frame'[t].pc = "slot" /\ frame'[t].cur = NextSlot(k, s) /\ frame'[t].call = f.call
    BY <2>1 DEF Frames
  <2>3. Way(f, entry) = Before(k, s) /\ Way(frame'[t], entry') = Before(k, NextSlot(k, s))
    BY <1>1, <2>2 DEF Way, PathLabels, ProbeLabels
  <2>4. s \notin Before(k, s) /\ Before(k, NextSlot(k, s)) = Before(k, s) \cup {s}
    BY <1>2, <1>4, BeforeNext
  <2>5. OneMore(Way(f, entry), Way(frame'[t], entry'), s)
    BY <2>3, <2>4 DEF OneMore
  <2>6. PathInv(frame'[t], entry')
    BY <2>2 DEF PathInv, Evicting, EvictLabels
  <2> QED
    BY <1>1, <2>1, <2>5, <2>6, PassMoved
<1> QED
  BY <1>3, <1>4

\* One step of a rollback, on its way from the base to where it ends.
LEMMA RollbackPasses ==
  ASSUME CInv, CInv', PassInv, NEW t \in Threads, Rollback(t)
  PROVE  PassInv'
<1> PICK f \in Frames : f = frame[t]
  BY Actor
<1> PICK k : k = EndKey(f, entry)
  OBVIOUS
<1> PICK s : s = EndSlot(f)
  OBVIOUS
<1> PICK r \in Slots : r = f.rb
  BY FrameFacts
<1>1. /\ frame \in [Threads -> Frames] /\ f.pc = "rollback" /\ Step(t) /\ UNCHANGED <<meta, entry>>
      /\ f.to \in {"evictFree", "fail", "eraseFirst", "eraseNext"}
      /\ displacements' = [displacements EXCEPT ![r] = @ - 1]
  BY Actor DEF Rollback, At, Step, OnlyDisplacements, LocalInv
<1>2. RollbackKey(t) = k /\ RollbackSlot(t) = s
  BY DEF RollbackKey, RollbackSlot, EndKey, EndSlot, Key, Cur
<1>3. k \in Keys /\ s \in Slots
  <2>1. CASE f.to = "evictFree"
    <3>1. s = ClockSlot(t) /\ k = entry[s].key
      BY <2>1 DEF EndSlot, EndKey, ClockSlot
    <3>2. s \in Slots /\ Owns(t, s)
      BY <1>1, <2>1, <3>1, ClockSlots DEF Owns, At
    <3> QED
      BY <1>1, <3>1, <3>2 DEF CInv, OwnerInv
  <2>2. CASE f.to # "evictFree"
    BY <1>1, <2>2, Actor, FrameFacts DEF EndSlot, EndKey, Key
  <2> QED
    BY <2>1, <2>2
<1>4. r \in Before(k, s)
  BY <1>1 DEF PassInv, PathInv
<1> PICK n \in Slots : n = NextSlot(k, r)
  BY <1>3, SlotFacts
<1>5. /\ n # Base[k] /\ Before(k, r) \subseteq Before(k, s) /\ (n = s \/ n \in Before(k, s))
      /\ r \notin Before(k, r) /\ Before(k, n) = Before(k, r) \cup {r}
  BY <1>3, <1>4, BeforeWay, BeforeNext
<1>6. Way(f, entry) = Before(k, s) \ Before(k, r)
  BY <1>1 DEF Way, PathLabels, ProbeLabels
<1>7. f.to = "evictFree" => f.cur = Base[f.call.h.key]
  BY <1>1 DEF PassInv, PathInv, Evicting
<1>8. Way(frame'[t], entry') = Before(k, s) \ Before(k, n) /\ PathInv(frame'[t], entry')
  <2>1. CASE n = s
    <3>1. frame'[t] = [f EXCEPT !.rb = 0, !.to = "idle", !.pc = f.to]
      BY <1>1, <1>2, <2>1 DEF Rollback
    <3>2. frame'[t].pc = f.to /\ frame'[t].cur = f.cur /\ frame'[t].call = f.call
      BY <3>1 DEF Frames
    <3>3. Way(frame'[t], entry') = {} /\ PathInv(frame'[t], entry')
      <4>1. CASE f.to = "evictFree"
        BY <1>7, <3>2, <4>1, SweepWay DEF EvictLabels
      <4>2. CASE f.to # "evictFree"
        BY <1>1, <3>2, <4>2, LightWay DEF LightLabels
      <4> QED
        BY <4>1, <4>2
    <3> QED
      BY <2>1, <3>3
  <2>2. CASE n # s
    <3>1. frame'[t] = [f EXCEPT !.rb = n]
      BY <1>1, <1>2, <2>2 DEF Rollback
    <3>2. /\ frame'[t].pc = "rollback" /\ frame'[t].cur = f.cur /\ frame'[t].call = f.call
          /\ frame'[t].rb = n /\ frame'[t].to = f.to /\ frame'[t].ptr = f.ptr /\ frame'[t].i = f.i
      BY <1>1, <3>1 DEF Frames
    <3>3. EndSlot(frame'[t]) = s /\ EndKey(frame'[t], entry') = k
      BY <1>1, <3>2 DEF EndSlot, EndKey
    <3>4. Way(frame'[t], entry') = Before(k, s) \ Before(k, n)
      BY <3>2, <3>3 DEF Way, PathLabels, ProbeLabels
    <3>5. PathInv(frame'[t], entry')
      BY <1>5, <1>7, <2>2, <3>2, <3>3 DEF PathInv, Evicting, EvictLabels
    <3> QED
      BY <3>4, <3>5
  <2> QED
    BY <2>1, <2>2
<1>9. OneMore(Way(frame'[t], entry'), Way(f, entry), r)
  BY <1>4, <1>5, <1>6, <1>8 DEF OneMore
<1> QED
  BY <1>1, <1>8, <1>9, PassMoved
-----------------------------------------------------------------------------
(***************************************************************************)
(* An entry that comes or goes hands over the displacements it counts in.  *)
(***************************************************************************)
LEMMA HandsOver ==
  ASSUME CInv, CInv', PassInv, NEW t \in Threads, Step(t), NEW s \in Slots,
         UNCHANGED displacements, PathInv(frame'[t], entry'),
         \/ /\ OneMore(Stored', Stored, s)
            /\ Way(frame[t], entry) = {} /\ Way(frame'[t], entry') = Before(entry[s].key, s)
         \/ /\ OneMore(Stored, Stored', s)
            /\ Way(frame[t], entry) = Before(entry'[s].key, s) /\ Way(frame'[t], entry') = {}
  PROVE  PassInv'
<1>1. Stored' \ {s} = Stored \ {s}
  BY DEF OneMore
<1>2. ASSUME NEW x \in Slots
      PROVE  displacements'[x] = displacements[x]
               + (In(x, Way(frame'[t], entry')) - In(x, Way(frame[t], entry)))
               + (In(s, Passing(x)') - In(s, Passing(x)))
  <2>1. displacements[x] \in Int
    BY DEF CInv, StateType
  <2>2. /\ s \in Passing(x) <=> s \in Stored /\ x \in Before(entry[s].key, s)
        /\ s \in Passing(x)' <=> s \in Stored' /\ x \in Before(entry'[s].key, s)
    BY DEF Passing
  <2>3. CASE /\ OneMore(Stored', Stored, s)
             /\ Way(frame[t], entry) = {} /\ Way(frame'[t], entry') = Before(entry[s].key, s)
    <3>1. In(s, Passing(x)') = 0 /\ In(s, Passing(x)) = In(x, Way(frame'[t], entry'))
      BY <2>2, <2>3 DEF In, OneMore
    <3>2. In(x, Way(frame[t], entry)) = 0 /\ In(x, Way(frame'[t], entry')) \in Int
      BY <2>3 DEF In
    <3> QED
      BY <2>1, <3>1, <3>2
  <2>4. CASE /\ OneMore(Stored, Stored', s)
             /\ Way(frame[t], entry) = Before(entry'[s].key, s) /\ Way(frame'[t], entry') = {}
    <3>1. In(s, Passing(x)) = 0 /\ In(s, Passing(x)') = In(x, Way(frame[t], entry))
      BY <2>2, <2>4 DEF In, OneMore
    <3>2. In(x, Way(frame'[t], entry')) = 0 /\ In(x, Way(frame[t], entry)) \in Int
      BY <2>4 DEF In
    <3> QED
      BY <2>1, <3>1, <3>2
  <2> QED
    BY <2>3, <2>4
<1> QED
  BY <1>1, <1>2, PassStep

\* The meta word of an owned slot.
LEMMA ConstructionWord == State(Meta(StateConstruction, 0)) = 4
<1>1. 4 \in 0 .. 7 /\ 0 \in 0 .. CounterMod - 1
  BY CounterAssumption
<1> QED
  BY <1>1, MetaFields DEF StateConstruction

LEMMA ClockTakePasses ==
  ASSUME CInv, CInv', CountersWide, NoCarry, PassInv, NEW t \in Threads, ClockTake(t)
  PROVE  PassInv'
<1> PICK f \in Frames : f = frame[t]
  BY Actor
<1> PICK s : s = ClockSlot(t)
  OBVIOUS
<1>1. f.pc = "clockTake" /\ frame \in [Threads -> Frames]
      /\ UNCHANGED <<entry, displacements>> /\ Step(t)
  BY Actor DEF ClockTake, At, OnlyMeta, Step
<1>2. CASE /\ UNCHANGED meta
           /\ frame' = [frame EXCEPT ![t].i = @ + 1, ![t].m = 0, ![t].pc = "clockLoad"]
  <2>1. frame'[t] = [f EXCEPT !.i = @ + 1, !.m = 0, !.pc = "clockLoad"]
    BY <1>1, <1>2
  <2>2. frame'[t].pc = "clockLoad" /\ frame'[t].cur = f.cur /\ frame'[t].call = f.call
    BY <2>1 DEF Frames
  <2>3. Stored' = Stored
    BY <1>2, MetaSame
  <2> QED
    BY <1>1, <2>2, <2>3, SweepPasses DEF EvictLabels
<1>3. ASSUME /\ meta[s] = f.m
             /\ SetMeta(s, Meta(StateConstruction, 0))
             /\ frame' = [frame EXCEPT
                     ![t] = RollbackTo([f EXCEPT !.freed = @ + entry[s].charge,
                                                 !.count = @ + 1, !.m = 0],
                                       entry[s].key, s, "evictFree")]
      PROVE  PassInv'
  <2>1. s \in Slots /\ s \in Stored
    BY <1>1, <1>3, TakenStored
  <2>2. Stored' = Stored \ {s}
    BY <1>3, <2>1, ConstructionWord, MetaWrite
  <2> PICK x \in Nat : x = f.freed + entry[s].charge
    BY <2>1, FrameFacts DEF CInv, StateType, Entries
  <2> PICK y \in Nat : y = f.count + 1
    BY FrameFacts
  <2> PICK h : h = [f EXCEPT !.freed = x, !.count = y, !.m = 0]
    OBVIOUS
  <2>3. /\ h \in Frames /\ h.call = f.call /\ h.cur = f.cur /\ h.ptr = f.ptr /\ h.i = f.i
    BY SlotFacts DEF Frames
  <2>4. frame'[t] = RollbackTo(h, entry[s].key, s, "evictFree")
    BY <1>1, <1>3
  <2>5. entry[s].key \in Keys
    BY <2>1 DEF CInv, SlotInv, StoredInv
  <2>6. f.cur = Base[f.call.h.key] /\ Way(f, entry) = {}
    BY <1>1 DEF PassInv, PathInv, Evicting, EvictLabels, Way, PathLabels, ProbeLabels
  <2>7. (h.ptr + h.i) % Length = s
    BY <2>3 DEF ClockSlot
  <2>8. Way(frame'[t], entry') = Before(entry[s].key, s) /\ PathInv(frame'[t], entry')
    <3> PICK k \in Keys : k = entry[s].key
      BY <2>5
    <3>1. Turning(h, entry, k, s, "evictFree")
      BY <2>3, <2>6, <2>7 DEF Turning
    <3>2. /\ Way(RollbackTo(h, k, s, "evictFree"), entry) = Before(k, s)
          /\ PathInv(RollbackTo(h, k, s, "evictFree"), entry)
      BY <2>1, <2>3, <3>1, RolledWay
    <3>3. frame'[t] = RollbackTo(h, k, s, "evictFree") /\ entry' = entry
      BY <1>1, <2>4
    <3> QED
      BY <3>2, <3>3, Zenon
  <2>9. OneMore(Stored', Stored, s)
    BY <2>1, <2>2 DEF OneMore
  <2> QED
    BY <1>1, <2>1, <2>6, <2>8, <2>9, HandsOver
<1> QED
  BY <1>2, <1>3, TakeOutcome

LEMMA EraseOwnPasses ==
  ASSUME CInv, CInv', CountersWide, NoCarry, PassInv, NEW t \in Threads, EraseOwn(t)
  PROVE  PassInv'
<1> PICK f \in Frames : f = frame[t]
  BY Actor
<1> PICK s \in Slots : s = Cur(t)
  BY Actor, FrameFacts DEF Cur
<1>1. f.pc = "eraseOwn" /\ frame \in [Threads -> Frames] /\ f.cur = s
      /\ UNCHANGED <<entry, displacements>> /\ Step(t) /\ entry[s].key = f.call.h.key
  BY Actor DEF EraseOwn, At, OnlyMeta, Step, Cur, PassInv, PathInv
<1>2. Way(f, entry) = {}
  BY <1>1 DEF Way, PathLabels, ProbeLabels
<1>3. CASE RefDecr(s) /\ frame' = [frame EXCEPT ![t].m = 0, ![t].pc = "eraseNext"]
  <2>1. frame'[t] = [f EXCEPT !.m = 0, !.pc = "eraseNext"]
    BY <1>1, <1>3
  <2>2. frame'[t].pc = "eraseNext"
    BY <2>1 DEF Frames
  <2>3. Way(frame'[t], entry') = {} /\ PathInv(frame'[t], entry')
    BY <2>2, LightWay DEF LightLabels
  <2>4. t \in Probers(s)
    BY <1>1 DEF Probers, RefLabels
  <2>5. Stored' = Stored
    BY <1>3, <2>4, RefDecrStored
  <2> QED
    BY <1>1, <1>2, <2>3, <2>5, PassKept
<1>4. CASE UNCHANGED meta /\ frame' = [frame EXCEPT ![t].m = meta[s]]
  <2>1. frame'[t] = [f EXCEPT !.m = meta[s]]
    BY <1>1, <1>4
  <2>2. frame'[t].pc = "eraseOwn" /\ frame'[t].cur = f.cur /\ frame'[t].call = f.call
    BY <1>1, <2>1 DEF Frames
  <2>3. Way(frame'[t], entry') = {} /\ PathInv(frame'[t], entry')
    BY <1>1, <2>2 DEF Way, PathLabels, ProbeLabels, PathInv, Evicting, EvictLabels
  <2> QED
    BY <1>1, <1>2, <1>4, <2>3, MetaSame, PassKept
<1>5. CASE /\ SetMeta(s, Meta(StateConstruction, 0))
           /\ frame' = [frame EXCEPT ![t].m = 0, ![t].pc = "eraseFree"]
  <2>1. s \in Stored
    BY <1>1, ProberStored DEF RefLabels
  <2>2. Stored' = Stored \ {s}
    BY <1>5, <2>1, ConstructionWord, MetaWrite
  <2>3. OneMore(Stored', Stored, s)
    BY <2>1, <2>2 DEF OneMore
  <2>4. frame'[t] = [f EXCEPT !.m = 0, !.pc = "eraseFree"]
    BY <1>1, <1>5
  <2>5. frame'[t].pc = "eraseFree" /\ frame'[t].cur = s /\ frame'[t].call = f.call
    BY <1>1, <2>4 DEF Frames
  <2>6. Way(frame'[t], entry') = Before(entry[s].key, s)
    BY <1>1, <2>5 DEF Way, PathLabels
  <2>7. PathInv(frame'[t], entry')
    BY <1>1, <2>5 DEF PathInv, Evicting, EvictLabels
  <2> QED
    BY <1>1, <1>2, <2>3, <2>6, <2>7, HandsOver
<1> QED
  BY <1>3, <1>4, <1>5 DEF EraseOwn

LEMMA InsertFillPasses ==
  ASSUME CInv, CInv', PassInv, NEW t \in Threads, InsertFill(t)
  PROVE  PassInv'
<1> PICK f \in Frames : f = frame[t]
  BY Actor
<1> PICK s \in Slots : s = Cur(t)
  BY Actor, FrameFacts DEF Cur
<1>1. f.pc = "fill" /\ frame'[t] = Idle /\ UNCHANGED displacements /\ Step(t) /\ f.cur = s
  BY ReturnsIdle DEF InsertFill, At, Step, Cur
<1>2. s \notin Stored
  <2>1. Owns(t, s)
    BY <1>1 DEF Owns
  <2>2. State(meta[s]) = 4
    BY <2>1 DEF CInv, OwnerInv, StateConstruction
  <2> QED
    BY <2>2, StoredState
<1>3. Stored' = Stored \cup {s}
  <2>1. 7 \in 0 .. 7 /\ InitHitCount \in 0 .. CounterMod - 1
    BY CounterAssumption
  <2>2. State(Meta(7, InitHitCount)) = 7
    BY <2>1, MetaFields
  <2> QED
    BY <1>2, <2>2, MetaWrite DEF InsertFill, StateVisible
<1>4. OneMore(Stored, Stored', s)
  BY <1>2, <1>3 DEF OneMore
<1>5. entry'[s].key = f.call.h.key
  BY DEF InsertFill, CInv, StateType
<1>6. Way(f, entry) = Before(entry'[s].key, s)
  BY <1>1, <1>5 DEF Way, PathLabels, ProbeLabels
<1>7. Way(frame'[t], entry') = {} /\ PathInv(frame'[t], entry')
  BY <1>1, LightWay DEF Idle, LightLabels
<1> QED
  BY <1>1, <1>4, <1>6, <1>7, HandsOver
-----------------------------------------------------------------------------
(***************************************************************************)
(* The invariance, while the cache lives and after its destructor.         *)
(***************************************************************************)
LEMMA StepPasses ==
  ASSUME CInv, CInv', CountersWide, NoCarry, PassInv, NEW t \in Threads,
         Begin(t) \/ Step(t) \/ Release(t)
  PROVE  PassInv'
<1>1. CASE \/ LookupRef(t) \/ LookupMatch(t) \/ LookupHitDecr(t) \/ LookupUnref(t) \/ LookupNext(t)
           \/ UndoOccupancy(t) \/ FailOccupancy(t) \/ FailUsage(t) \/ EraseRef(t) \/ EraseUnref(t)
           \/ Begin(t) \/ Release(t)
  BY <1>1, LightPasses
<1>2. CASE \/ Reserve(t) \/ EvictOccupancy(t) \/ EvictUsage(t)
           \/ EvictStart(t) \/ ClockLoad(t) \/ EvictStep(t) \/ ClockAge(t) \/ EvictFree(t)
  BY <1>2, SettledPasses, EvictPasses
<1>3. CASE InsertSlot(t) \/ InsertRef(t) \/ InsertUnref(t) \/ EraseFree(t) \/ EraseOccupancy(t)
  BY <1>3, StandsPasses
<1>4. CASE InsertMatch(t) \/ EraseUsage(t)
  BY <1>4, TurnsPasses
<1>5. CASE InsertNext(t) \/ Rollback(t) \/ ClockTake(t) \/ InsertFill(t)
  BY <1>5, InsertNextPasses, RollbackPasses, ClockTakePasses, InsertFillPasses
<1>6. CASE EraseMatch(t) \/ EraseOwn(t) \/ EraseNext(t)
  BY <1>6, EraseMatchPasses, EraseOwnPasses, EraseNextPasses
<1> QED
  BY <1>1, <1>2, <1>3, <1>4, <1>5, <1>6, Zenon DEF Step

\* After the destructor nothing is displaced, and the table is what it was.
PassSafe ==
  IF alive THEN PassInv
  ELSE /\ displacements = [s \in Slots |-> 0]
       /\ meta \in [Slots -> Words] /\ entry \in [Slots -> Entries] /\ frame \in [Threads -> Frames]

LEMMA QuietPasses ==
  ASSUME CInv, CountInv, PassInv, Quiescent, NEW s \in Slots
  PROVE  displacements[s] = Cardinality(Passing(s)) + 0 /\ Cardinality(Passing(s)) \in Nat
<1>1. Bearers(s) = {}
  <2>1. \A t \in Threads : frame[t].pc \in LightLabels
    BY DEF Quiescent, At, LightLabels
  <2> QED
    BY <2>1, LightWay DEF Bearers
<1>2. Cardinality(Bearers(s)) = 0
  BY <1>1, FS_EmptySet
<1>3. Passing(s) \subseteq Stored
  BY DEF Passing
<1>4. Cardinality(Passing(s)) \in Nat
  BY <1>3, StoredFinite, FS_Subset, FS_CardinalityType
<1> QED
  BY <1>2, <1>4 DEF PassInv, PassedExact

LEMMA InitPasses ==
  ASSUME Init
  PROVE  PassSafe
<1>1. \A t \in Threads : frame[t].pc \in LightLabels
  BY DEF Init, Idle, LightLabels
<1>2. \A t \in Threads : Way(frame[t], entry) = {} /\ PathInv(frame[t], entry)
  BY <1>1, LightWay
<1>3. Stored = {}
  <2>1. StateUnit \in Nat \ {0}
    BY Products
  <2>2. State(0) = 0
    BY <2>1 DEF State
  <2> QED
    BY <2>2 DEF Stored, Init, StateInvisible, StateVisible
<1>4. ASSUME NEW s \in Slots
      PROVE  PassedExact(s)
  <2>1. Passing(s) = {} /\ Bearers(s) = {}
    BY <1>2, <1>3 DEF Passing, Bearers
  <2>2. Cardinality(Passing(s)) = 0 /\ Cardinality(Bearers(s)) = 0 /\ displacements[s] = 0
    BY <2>1, FS_EmptySet DEF Init
  <2> QED
    BY <2>2 DEF PassedExact
<1> QED
  BY <1>2, <1>4 DEF PassSafe, PassInv, Init

LEMMA NextPasses ==
  ASSUME CountSafe, CountSafe', PassSafe, CountersWide, NoCarry, [Next]_vars
  PROVE  PassSafe'
<1>1. CASE UNCHANGED vars
  <2>1. /\ UNCHANGED <<meta, entry, displacements, frame, alive>>
    BY <1>1 DEF vars, shared
  <2>2. \A s \in Slots : Passing(s)' = Passing(s) /\ Bearers(s)' = Bearers(s)
    BY <2>1 DEF Passing, Stored, Bearers
  <2>3. PassInv => PassInv'
    BY <2>1, <2>2 DEF PassInv, PassedExact
  <2> QED
    BY <2>1, <2>3 DEF PassSafe
<1>2. CASE alive /\ Destroy
  <2>1. CInv /\ CountInv /\ PassInv /\ Quiescent /\ ~alive'
    BY <1>2 DEF CountSafe, PassSafe, Destroy
  <2>2. \A s \in Slots : displacements[s] - Cardinality(Passing(s)) = 0
    <3> TAKE s \in Slots
    <3>1. displacements[s] = Cardinality(Passing(s)) + 0 /\ Cardinality(Passing(s)) \in Nat
      BY <2>1, QuietPasses
    <3> QED
      BY <3>1
  <2>3. displacements' = [s \in Slots |-> 0]
    BY <1>2, <2>2 DEF Destroy
  <2>4. entry' \in [Slots -> Entries]
    <3>1. ASSUME NEW s \in Slots
          PROVE  [entry[s] EXCEPT !.val = None] \in Entries /\ entry[s] \in Entries
      BY <2>1 DEF CInv, StateType, Entries
    <3> QED
      BY <1>2, <3>1 DEF Destroy
  <2>5. meta' \in [Slots -> Words] /\ frame' \in [Threads -> Frames]
    BY <1>2, <2>1 DEF Destroy, CInv, StateType
  <2> QED
    BY <2>1, <2>3, <2>4, <2>5 DEF PassSafe
<1>3. ASSUME alive, NEW t \in Threads, Begin(t) \/ Step(t) \/ Release(t)
      PROVE  PassSafe'
  <2>1. alive' /\ CInv /\ PassInv
    BY <1>3, Alive DEF CountSafe, PassSafe
  <2>2. CInv'
    BY <2>1 DEF CountSafe
  <2>3. PassInv'
    BY <1>3, <2>1, <2>2, StepPasses
  <2> QED
    BY <2>1, <2>3 DEF PassSafe
<1>4. CASE ~alive /\ Next
  BY <1>4, Alive DEF CountSafe, Next, Destroy
<1> QED
  BY <1>1, <1>2, <1>3, <1>4 DEF Next, Destroy

\* Every call is counted in exactly the displacements on its way, and the destructor
\* brings them all to 0.
THEOREM PassInvariance ==
  CountersWide /\ Spec /\ [](NoEraseRace /\ NoCarry) => []PassSafe
<1>1. CountersWide /\ CountSafe /\ CountSafe' /\ PassSafe /\ NoCarry /\ [Next]_vars => PassSafe'
  BY NextPasses
<1>2. SUFFICES ASSUME CountersWide
               PROVE  Spec /\ [](NoEraseRace /\ NoCarry) => []PassSafe
  OBVIOUS
<1>3. CountSafe /\ CountSafe' /\ (NoEraseRace /\ NoCarry) /\ PassSafe /\ [Next]_vars => PassSafe'
  BY <1>1, <1>2
<1>4. Init => PassSafe
  BY InitPasses
<1>5. Spec /\ [](NoEraseRace /\ NoCarry) => []CountSafe
  BY <1>2, CountInvariance
<1> QED
  BY <1>3, <1>4, <1>5, PTL DEF Spec

LEMMA CarriesWay ==
  ASSUME NEW t \in Threads, NEW s
  PROVE  Carries(t, s) <=> s \in Way(frame[t], entry)
<1>1. RollbackSlot(t) = EndSlot(frame[t]) /\ RollbackKey(t) = EndKey(frame[t], entry)
  BY DEF RollbackSlot, RollbackKey, EndSlot, EndKey, Key, Cur
<1> QED
  BY <1>1 DEF Carries, Way, PathLabels, ProbeLabels, Key

LEMMA PassParts ==
  ASSUME CountSafe, PassSafe
  PROVE  TypeOK /\ DisplacementsExact
<1>1. CASE alive
  <2>1. CInv /\ CountInv /\ PassInv
    BY <1>1 DEF CountSafe, PassSafe
  <2>2. \A s \in Slots : {t \in Threads : Carries(t, s)} = Bearers(s)
    BY CarriesWay DEF Bearers
  <2>3. DisplacementsExact
    BY <2>1, <2>2 DEF DisplacementsExact, PassInv, PassedExact
  <2>4. ASSUME NEW s \in Slots
        PROVE  displacements[s] \in Nat
    <3>1. Passing(s) \subseteq Stored /\ Bearers(s) \subseteq Threads
      BY DEF Passing, Bearers
    <3>2. Cardinality(Passing(s)) \in Nat /\ Cardinality(Bearers(s)) \in Nat
      BY <3>1, StoredFinite, ClientAssumption, FS_Subset, FS_CardinalityType
    <3> QED
      BY <2>1, <3>2 DEF PassInv, PassedExact
  <2>5. displacements \in [Slots -> Nat]
    BY <2>1, <2>4 DEF CInv, StateType
  <2>6. \A t \in Threads : frame[t].pc \in Labels /\ Cur(t) \in Slots
    BY <2>1, Actor DEF Frames, Cur
  <2>7. TypeOK
    BY <2>1, <2>5, <2>6, Bounded DEF TypeOK, CInv, StateType, Words
  <2> QED
    BY <2>3, <2>7
<1>2. CASE ~alive
  <2>1. /\ displacements = [s \in Slots |-> 0] /\ usage = 0 /\ occupancy = 0
        /\ meta \in [Slots -> Words] /\ entry \in [Slots -> Entries] /\ frame \in [Threads -> Frames]
    BY <1>2 DEF CountSafe, PassSafe
  <2>2. \A t \in Threads : frame[t].pc \in Labels /\ Cur(t) \in Slots
    BY <2>1 DEF Frames, Cur
  <2> QED
    BY <1>2, <2>1, <2>2 DEF TypeOK, DisplacementsExact, Words
<1> QED
  BY <1>1, <1>2

LEMMA DestroyedParts ==
  ASSUME Safe, CountSafe, PassSafe
  PROVE  DestructorAsserts
<1> SUFFICES ASSUME ~alive
             PROVE  /\ \A s \in Slots : State(meta[s]) \in {StateEmpty, StateInvisible, StateVisible}
                    /\ \A s \in Stored : RefCount(meta[s]) = 0
                    /\ \A s \in Slots : displacements[s] = 0
                    /\ usage = 0
                    /\ occupancy = 0
  BY DEF DestructorAsserts
<1>1. Quiescent /\ \A s \in Slots : SlotInv(s)
  BY DEF Safe
<1>2. ASSUME NEW s \in Slots
      PROVE  State(meta[s]) \in {StateEmpty, StateInvisible, StateVisible}
  <2>1. \A t \in Threads : ~Owns(t, s)
    BY <1>1 DEF Quiescent, Owns, At
  <2> QED
    BY <1>1, <2>1 DEF SlotInv
<1>3. ASSUME NEW s \in Stored
      PROVE  RefCount(meta[s]) = 0
  <2>1. s \in Slots /\ Holders(s) = {} /\ Probers(s) = {}
    BY <1>1 DEF Stored, Holders, Probers, Quiescent, At, RefLabels
  <2>2. Cardinality(Holders(s)) = 0 /\ Cardinality(Probers(s)) = 0
    BY <2>1, FS_EmptySet
  <2>3. RefCount(meta[s]) = Cardinality(Holders(s)) + Cardinality(Probers(s))
    BY <1>1, <2>1 DEF SlotInv, StoredInv
  <2> QED
    BY <2>2, <2>3
<1>4. \A s \in Slots : displacements[s] = 0
  BY DEF PassSafe
<1> QED
  BY <1>2, <1>3, <1>4 DEF CountSafe

\* Every displacement is, at every instant, the number of stored entries and of
\* running calls whose probe has passed the slot: FindSlot never stops short of an
\* entry, and no Rollback takes back too much or too little.
THEOREM DisplacementsAreExact ==
  CountersWide /\ Spec /\ [](NoEraseRace /\ NoCarry) => []DisplacementsExact
<1>1. CountSafe /\ PassSafe => DisplacementsExact
  BY PassParts
<1> QED
  BY <1>1, CountInvariance, PassInvariance, PTL

\* The meta words, usage_, occupancy_ and the displacements, all unsigned in the
\* code, never run below zero.
THEOREM TypeCorrect ==
  CountersWide /\ Spec /\ [](NoEraseRace /\ NoCarry) => []TypeOK
<1>1. CountSafe /\ PassSafe => TypeOK
  BY PassParts
<1> QED
  BY <1>1, CountInvariance, PassInvariance, PTL

\* The assertions of ~ClockCache hold whatever calls came before it.
THEOREM DestructorHolds ==
  CountersWide /\ Spec /\ [](NoEraseRace /\ NoCarry) => []DestructorAsserts
<1>1. Safe /\ CountSafe /\ PassSafe => DestructorAsserts
  BY DestroyedParts
<1> QED
  BY <1>1, ClockInvariance, CountInvariance, PassInvariance, PTL

\* With one writer and the readers CountersWide allows no premise is needed about the
\* schedule: the counters and the displacements are exact, the capacity and the
\* load factor are respected, and the destructor's assertions hold.
THEOREM SingleWriterExact ==
  CountersWide /\ SingleWriter /\ Spec /\ []NoCarry
    => [](/\ TypeOK /\ CountersExact /\ DisplacementsExact
          /\ CapacityRespected /\ LoadRespected /\ DestructorAsserts)
<1> DEFINE Exact == /\ TypeOK /\ CountersExact /\ DisplacementsExact
                    /\ CapacityRespected /\ LoadRespected /\ DestructorAsserts
<1>1. SUFFICES ASSUME CountersWide, SingleWriter
               PROVE  Spec /\ []NoCarry => []Exact
  OBVIOUS
<1>2. Safe /\ NoCarry /\ [Next]_vars => Safe'
  BY <1>1, NextSafe, WriterAlone
<1>3. Safe => NoEraseRace
  BY <1>1, WriterAlone
<1>4. Spec /\ [](NoEraseRace /\ NoCarry) => []CountSafe
  BY <1>1, CountInvariance
<1>5. Spec /\ [](NoEraseRace /\ NoCarry) => []PassSafe
  BY <1>1, PassInvariance
<1>6. Safe /\ CountSafe /\ PassSafe => Exact
  BY CountParts, PassParts, DestroyedParts
<1> HIDE DEF Exact
<1> QED
  BY <1>2, <1>3, <1>4, <1>5, <1>6, InitSafe, PTL DEF Spec
=============================================================================
