----------------------------- MODULE ClockCache -----------------------------
(***************************************************************************)
(* clock::ClockCache: an open-addressed hash table of slots with clock     *)
(* eviction, used by many threads without a lock.                          *)
(*                                                                         *)
(* A slot has a 64-bit meta word (state, hit counter, reference counter),  *)
(* an entry that only the owner of the slot may change, and a displacement *)
(* count: the entries whose probe sequence passes the slot.  The cache     *)
(* counts occupied slots in occupancy_ and stored charge in usage_.        *)
(*                                                                         *)
(* One action is one access to shared memory: a meta word, a displacement  *)
(* or a counter.  An entry is only touched by the thread that owns its     *)
(* slot (state Construction), or read by one that holds a reference, so    *)
(* the access to it is part of the neighbouring access to the meta word.   *)
(* The CAS loop that reserves usage is the one access that succeeds.       *)
(***************************************************************************)
EXTENDS Integers, FiniteSets, FiniteSetsExt, Sums

CONSTANTS
  Threads,
  Keys,
  Values,          \* what the handles point to
  Length,          \* length_, the number of slots
  Base,            \* Base[k] = ModLength(hashed_key[1])
  Increment,       \* Increment[k] = hashed_key[0] | 1, modulo Length
  Capacity,        \* capacity_
  OccupancyLimit,  \* occupancy_limit_
  Workload,        \* Workload[t]: the calls t will make, each once, in any order
  CounterMod,      \* 2^kCounterNumBits: 2^30 in the code
  InitHitCount,    \* kInitHitCount: 3
  MaxHitCount,     \* kMaxHitCount: 2000
  MaxCountdown,    \* kMaxCountdown: 3
  StepSize,        \* step_size: 4
  EffortCap,       \* eviction_effort_cap: 30
  DecrPeriod,      \* kDecrHitPerEntryCount: 5000
  HitDecrDeltaMin, \* hit_decr_delta_min_
  None             \* no value, no key, no handle

ASSUME TableAssumption ==
  /\ Length \in Nat \ {0}
  /\ Base \in [Keys -> 0 .. Length - 1]
  /\ Increment \in [Keys -> Nat]
  \* An odd increment visits every slot of a table of 2^n slots.
  /\ \A k \in Keys : \A s \in 0 .. Length - 1 :
       \E n \in 0 .. Length - 1 : s = (Base[k] + n * Increment[k]) % Length

ASSUME CounterAssumption ==
  /\ CounterMod \in Nat \ {0}
  /\ MaxHitCount \in 0 .. CounterMod - 1
  /\ InitHitCount \in 0 .. MaxHitCount
  /\ {Capacity, OccupancyLimit, MaxCountdown, StepSize, EffortCap, DecrPeriod,
      HitDecrDeltaMin} \subseteq Nat

\* What a slot may contain, and what the clients call.  Lookup and Erase take a
\* key and nothing else.
Entries == [key : Keys \cup {None}, val : Values \cup {None}, charge : Nat]
Handles == [key : Keys, val : Values \cup {None}, charge : Nat]
Calls == [op : {"lookup", "insert", "erase"}, h : Handles]

ASSUME ClientAssumption ==
  /\ IsFiniteSet(Threads)
  /\ None \notin Keys
  /\ None \notin [slot : 0 .. Length - 1, e : Entries]
  /\ Workload \in [Threads -> SUBSET Calls]

VARIABLES
  meta,            \* array_[s].meta
  entry,           \* array_[s] as a Handle: key, value, charge
  displacements,   \* array_[s].displacements
  occupancy,       \* occupancy_
  usage,           \* usage_
  clock_pointer,   \* clock_pointer_
  hit_decr_delta,  \* hit_decr_delta_
  todo,            \* todo[t]: the calls t has still to make
  held,            \* held[t]: the handle a Lookup of t returned, not yet released
  frame,           \* frame[t]: the call t is in, and its locals
  alive            \* FALSE once the destructor has run

shared == <<meta, entry, displacements, occupancy, usage, clock_pointer, hit_decr_delta>>
vars == <<shared, todo, held, frame, alive>>

Slots == 0 .. Length - 1
NextSlot(k, s) == (s + Increment[k]) % Length

\* The slot of the nth step of a probe for k, and the slots it passes before s.
Visit(k, n) == (Base[k] + n * Increment[k]) % Length
Passed == [k \in Keys |-> [s \in Slots |->
             {Visit(k, n) : n \in {i \in Slots : \A j \in 0 .. i : Visit(k, j) # s}}]]
Before(k, s) == Passed[k][s]
-----------------------------------------------------------------------------
(***************************************************************************)
(* The meta word: reference counter, hit counter, hit bit, state, from the *)
(* low bits to the high ones.  It is one number, so a counter that runs    *)
(* over or under carries into the field above, as it does in the code.     *)
(***************************************************************************)
HitIncrement == CounterMod
StateUnit == 2 * CounterMod * CounterMod
MetaMod == 8 * StateUnit

StateEmpty == 0
StateConstruction == 4
StateInvisible == 6
StateVisible == 7

State(m) == m \div StateUnit
RefCount(m) == m % CounterMod
HitCount(m) == (m \div CounterMod) % CounterMod
HitBit(m) == (m \div (CounterMod * CounterMod)) % 2
Meta(state, hit) == state * StateUnit + hit * HitIncrement

\* A new word that takes over the hit bit of m.
MetaAfter(m, state, hit) == Meta(state, hit) + HitBit(m) * (CounterMod * CounterMod)

IsShareable(m) == State(m) \in {2, 3, 6, 7}

Add(m, n) == (m + n) % MetaMod
SetOccupied(m) == IF State(m) < 4 THEN m + 4 * StateUnit ELSE m
ClearVisible(m) == IF State(m) % 2 = 1 THEN m - StateUnit ELSE m
-----------------------------------------------------------------------------
NoEntry == [key |-> None, val |-> None, charge |-> 0]
NoCall == [op |-> "none", h |-> NoEntry]

Idle == [pc |-> "idle", call |-> NoCall,
         cur |-> 0, m |-> 0,                        \* FindSlot
         rb |-> 0, to |-> "idle",                   \* Rollback
         occ |-> FALSE, need |-> 0, res |-> 0,      \* EvictForCharge
         ptr |-> 0, max |-> 0, i |-> 0, off |-> 0,  \* Evict
         delta |-> 0, freed |-> 0, count |-> 0, pinned |-> 0,
         again |-> FALSE,                           \* the second DoInsert
         found |-> FALSE, succ |-> FALSE,           \* Erase
         amount |-> 0]  \* a charge to take off usage_, or a hit overflow

Init ==
  /\ meta = [s \in Slots |-> 0]
  /\ entry = [s \in Slots |-> NoEntry]
  /\ displacements = [s \in Slots |-> 0]
  /\ occupancy = 0
  /\ usage = 0
  /\ clock_pointer = 0
  /\ hit_decr_delta = 1
  /\ todo = Workload
  /\ held = [t \in Threads |-> None]
  /\ frame = [t \in Threads |-> Idle]
  /\ alive = TRUE

Goto(t, l) == frame' = [frame EXCEPT ![t].pc = l]
Return(t) == frame' = [frame EXCEPT ![t] = Idle]
At(t, l) == frame[t].pc = l
Key(t) == frame[t].call.h.key
Cur(t) == frame[t].cur

SetMeta(s, m) == meta' = [meta EXCEPT ![s] = m]
RefIncr(s) == SetMeta(s, Add(meta[s], 1))
RefDecr(s) == SetMeta(s, Add(meta[s], MetaMod - 1))

\* What a call does not touch while it works on one kind of memory.
OnlyMeta == UNCHANGED <<entry, displacements, occupancy, usage, clock_pointer,
                        hit_decr_delta, todo, held, alive>>
OnlyDisplacements == UNCHANGED <<meta, entry, occupancy, usage, clock_pointer,
                                 hit_decr_delta, todo, held, alive>>
OnlyOccupancy == UNCHANGED <<meta, entry, displacements, usage, clock_pointer,
                             hit_decr_delta, todo, held, alive>>
OnlyUsage == UNCHANGED <<meta, entry, displacements, occupancy, clock_pointer,
                         hit_decr_delta, todo, held, alive>>

\* A client makes one of the calls it has still to make.
Take(t, c, op) == /\ alive
                  /\ At(t, "idle")
                  /\ c \in todo[t]
                  /\ c.op = op
                  /\ todo' = [todo EXCEPT ![t] = @ \ {c}]

\* FindSlot goes on to the next slot of the probe, at label l, or ends.
Probe(t, l, End) ==
  LET next == NextSlot(Key(t), Cur(t))
  IN  IF displacements[Cur(t)] = 0 \/ next = Base[Key(t)]
      THEN End
      ELSE frame' = [frame EXCEPT ![t].cur = next, ![t].pc = l]
-----------------------------------------------------------------------------
(***************************************************************************)
(* Lookup and Release.                                                     *)
(***************************************************************************)
LookupBegin(t, c) ==
  /\ Take(t, c, "lookup")
  /\ held[t] = None
  /\ frame' = [frame EXCEPT ![t].call = c, ![t].cur = Base[c.h.key], ![t].pc = "lookupRef"]
  /\ UNCHANGED <<shared, held, alive>>

\* Mutation: the reference is given back whatever the state of the slot was.
LookupRefMutant(t) ==
  /\ At(t, "lookupRef")
  /\ RefIncr(Cur(t))
  /\ Goto(t, IF State(meta[Cur(t)]) = StateVisible THEN "lookupMatch" ELSE "lookupUnref")
  /\ OnlyMeta

LookupRef(t) ==
  /\ At(t, "lookupRef")
  /\ RefIncr(Cur(t))
  /\ Goto(t, CASE State(meta[Cur(t)]) = StateVisible   -> "lookupMatch"
               [] State(meta[Cur(t)]) = StateInvisible -> "lookupUnref"
               [] OTHER                                -> "lookupNext")
  /\ OnlyMeta

\* The handle a matching Lookup returns.
Hold(t) == held' = [held EXCEPT ![t] = [slot |-> Cur(t), e |-> entry[Cur(t)]]]

\* Mutation: the hit counter is never brought back to its maximum.
LookupMatchMutant(t) ==
  /\ At(t, "lookupMatch")
  /\ entry[Cur(t)].key = Key(t)
  /\ SetMeta(Cur(t), Add(meta[Cur(t)], HitIncrement))
  /\ Return(t)
  /\ Hold(t)
  /\ UNCHANGED <<entry, displacements, occupancy, usage, clock_pointer,
                 hit_decr_delta, todo, alive>>

\* HitIncr, and the correction it makes when the counter passes its maximum.
LookupMatch(t) ==
  /\ At(t, "lookupMatch")
  /\ entry[Cur(t)].key = Key(t)
  /\ SetMeta(Cur(t), Add(meta[Cur(t)], HitIncrement))
  /\ LET overflow == HitCount(meta[Cur(t)]) + 1 - MaxHitCount
     IN \/ /\ overflow > 0
           /\ frame' = [frame EXCEPT ![t].amount = overflow, ![t].pc = "lookupHitDecr"]
           /\ UNCHANGED held
        \/ /\ overflow <= 0
           /\ Return(t)
           /\ Hold(t)
  /\ UNCHANGED <<entry, displacements, occupancy, usage, clock_pointer,
                 hit_decr_delta, todo, alive>>

LookupHitDecr(t) ==
  /\ At(t, "lookupHitDecr")
  /\ SetMeta(Cur(t), Add(meta[Cur(t)], MetaMod - frame[t].amount * HitIncrement))
  /\ Return(t)
  /\ Hold(t)
  /\ UNCHANGED <<entry, displacements, occupancy, usage, clock_pointer,
                 hit_decr_delta, todo, alive>>

LookupUnref(t) ==
  /\ \/ At(t, "lookupUnref")
     \/ At(t, "lookupMatch") /\ entry[Cur(t)].key # Key(t)
  /\ RefDecr(Cur(t))
  /\ Goto(t, "lookupNext")
  /\ OnlyMeta

\* Mutation: the probe only stops at a slot that no entry has passed.
LookupNextMutant(t) ==
  /\ At(t, "lookupNext")
  /\ IF displacements[Cur(t)] = 0 THEN Return(t)
     ELSE frame' = [frame EXCEPT ![t].cur = NextSlot(Key(t), Cur(t)), ![t].pc = "lookupRef"]
  /\ UNCHANGED <<shared, todo, held, alive>>

LookupNext(t) ==
  /\ At(t, "lookupNext")
  /\ Probe(t, "lookupRef", Return(t))
  /\ UNCHANGED <<shared, todo, held, alive>>

\* A client may keep its handle for as long as it likes.
Release(t) ==
  /\ At(t, "idle")
  /\ held[t] # None
  /\ RefDecr(held[t].slot)
  /\ held' = [held EXCEPT ![t] = None]
  /\ UNCHANGED <<entry, displacements, occupancy, usage, clock_pointer,
                 hit_decr_delta, todo, frame, alive>>
-----------------------------------------------------------------------------
(***************************************************************************)
(* Rollback takes one off every displacement from the base of a key up to, *)
(* not including, slot h, and goes on at label l.                          *)
(***************************************************************************)
RollbackTo(f, k, h, l) ==
  IF Base[k] = h THEN [f EXCEPT !.pc = l]
  ELSE [f EXCEPT !.rb = Base[k], !.to = l, !.pc = "rollback"]

\* Evict rolls back for the entry it takes, the others for their own key.
RollbackSlot(t) == IF frame[t].to = "evictFree" THEN (frame[t].ptr + frame[t].i) % Length ELSE Cur(t)
RollbackKey(t) == IF frame[t].to = "evictFree" THEN entry[RollbackSlot(t)].key ELSE Key(t)

\* Mutation: the rollback takes nothing off.
RollbackMutant(t) ==
  /\ At(t, "rollback")
  /\ frame' = [frame EXCEPT ![t].rb = 0, ![t].to = "idle", ![t].pc = frame[t].to]
  /\ UNCHANGED displacements
  /\ OnlyDisplacements

Rollback(t) ==
  /\ At(t, "rollback")
  /\ displacements' = [displacements EXCEPT ![frame[t].rb] = @ - 1]
  /\ LET next == NextSlot(RollbackKey(t), frame[t].rb)
     IN  frame' = IF next = RollbackSlot(t)
                  THEN [frame EXCEPT ![t].rb = 0, ![t].to = "idle", ![t].pc = frame[t].to]
                  ELSE [frame EXCEPT ![t].rb = next]
  /\ OnlyDisplacements
-----------------------------------------------------------------------------
(***************************************************************************)
(* Insert: count the slot, reserve the charge (EvictForCharge), evict what *)
(* does not fit, then place the entry (DoInsert).                          *)
(***************************************************************************)
Charge(t) == frame[t].call.h.charge

InsertBegin(t, c) ==
  /\ Take(t, c, "insert")
  /\ occupancy' = occupancy + 1
  /\ frame' = [frame EXCEPT ![t].call = c,
                            ![t].occ = (occupancy + 1 > OccupancyLimit),
                            ![t].pc = "reserve"]
  /\ UNCHANGED <<meta, entry, displacements, usage, clock_pointer, hit_decr_delta,
                 held, alive>>

\* Mutation: the charge is reserved without looking at the capacity.
ReserveMutant(t) ==
  /\ At(t, "reserve")
  /\ usage' = usage + Charge(t)
  /\ frame' = [frame EXCEPT ![t].res = Charge(t), ![t].cur = Base[Key(t)], ![t].pc = "slot"]
  /\ OnlyUsage

Reserve(t) ==
  /\ At(t, "reserve")
  /\ usage' = Min({Capacity, usage + Charge(t)})
  /\ LET need == usage + Charge(t) - usage'
     IN  frame' = [frame EXCEPT ![t].res = usage' - usage, ![t].need = need,
                                ![t].cur = Base[Key(t)],
                                ![t].pc = IF need > 0 \/ frame[t].occ THEN "evict" ELSE "slot"]
  /\ OnlyUsage
-----------------------------------------------------------------------------
(***************************************************************************)
(* Evict: sweep the clock hand over the slots, StepSize at a time.         *)
(***************************************************************************)
EvictStart(t) ==
  /\ At(t, "evict")
  /\ clock_pointer' = clock_pointer + StepSize
  /\ frame' = [frame EXCEPT ![t].ptr = clock_pointer,
                            ![t].max = clock_pointer + MaxCountdown * Length,
                            ![t].delta = hit_decr_delta,
                            ![t].pc = "clockLoad"]
  /\ UNCHANGED <<meta, entry, displacements, occupancy, usage, hit_decr_delta,
                 todo, held, alive>>

ClockSlot(t) == (frame[t].ptr + frame[t].i) % Length

\* ClockUpdate reads the meta word and decides what to do with the slot.
ClockLoad(t) ==
  /\ At(t, "clockLoad")
  /\ frame[t].i < StepSize
  /\ LET m == meta[ClockSlot(t)]
     IN \/ /\ ~IsShareable(m)
           /\ frame' = [frame EXCEPT ![t].i = @ + 1]
        \/ /\ IsShareable(m) /\ RefCount(m) > 0
           /\ frame' = [frame EXCEPT ![t].pinned = @ + 1, ![t].i = @ + 1]
        \/ /\ IsShareable(m) /\ RefCount(m) = 0
           /\ frame' = [frame EXCEPT ![t].m = m,
                          ![t].pc = IF State(m) = StateVisible /\ HitCount(m) > 0
                                    THEN "clockAge" ELSE "clockTake"]
  /\ UNCHANGED <<shared, todo, held, alive>>

\* One CAS to lower the hit counter; when it fails the slot is left alone.
ClockAge(t) ==
  /\ At(t, "clockAge")
  /\ IF meta[ClockSlot(t)] = frame[t].m
     THEN SetMeta(ClockSlot(t),
                  MetaAfter(frame[t].m, StateVisible,
                            Max({HitCount(frame[t].m) - frame[t].delta, 0})))
     ELSE UNCHANGED meta
  /\ frame' = [frame EXCEPT ![t].i = @ + 1, ![t].m = 0, ![t].pc = "clockLoad"]
  /\ OnlyMeta

\* Mutation: ownership is taken with a store, whatever happened since the load.
ClockTakeMutant(t) ==
  /\ At(t, "clockTake")
  /\ SetMeta(ClockSlot(t), MetaAfter(frame[t].m, StateConstruction, 0))
  /\ frame' = [frame EXCEPT
         ![t] = RollbackTo([frame[t] EXCEPT !.freed = @ + entry[ClockSlot(t)].charge,
                                            !.count = @ + 1, !.m = 0],
                           entry[ClockSlot(t)].key, ClockSlot(t), "evictFree")]
  /\ OnlyMeta

\* One CAS to take ownership of an entry that no one holds.
ClockTake(t) ==
  /\ At(t, "clockTake")
  /\ \/ /\ meta[ClockSlot(t)] = frame[t].m
        /\ SetMeta(ClockSlot(t), MetaAfter(frame[t].m, StateConstruction, 0))
        /\ frame' = [frame EXCEPT
               ![t] = RollbackTo([frame[t] EXCEPT !.freed = @ + entry[ClockSlot(t)].charge,
                                                  !.count = @ + 1, !.m = 0],
                                 entry[ClockSlot(t)].key, ClockSlot(t), "evictFree")]
     \/ /\ meta[ClockSlot(t)] # frame[t].m
        /\ frame' = [frame EXCEPT ![t].i = @ + 1, ![t].m = 0, ![t].pc = "clockLoad"]
        /\ UNCHANGED meta
  /\ OnlyMeta

\* FreeData deletes the value and clears the pointer; MarkEmpty frees the slot.
FreeDataMarkEmpty(s) == /\ entry' = [entry EXCEPT ![s].val = None]
                        /\ SetMeta(s, Meta(StateEmpty, 0))

EvictFree(t) ==
  /\ At(t, "evictFree")
  /\ FreeDataMarkEmpty(ClockSlot(t))
  /\ frame' = [frame EXCEPT ![t].i = @ + 1, ![t].pc = "clockLoad"]
  /\ UNCHANGED <<displacements, occupancy, usage, clock_pointer, hit_decr_delta,
                 todo, held, alive>>

IsEvictionEffortExceeded(f) == (f.count + 1) * EffortCap <= f.pinned

EvictDone(f) == \/ f.freed >= Max({f.need, 1})
                \/ f.ptr >= f.max
                \/ IsEvictionEffortExceeded(f)

\* The hit sum stays 0: ClockUpdate advances its pointer argument instead of
\* adding to what it points to.  So the new delta is max(0, 1), then clamped.
NextDelta(f) == IF f.off + 2 * StepSize >= DecrPeriod THEN Max({1, HitDecrDeltaMin}) ELSE f.delta

\* The end of a step: give up, or claim the next StepSize slots.
EvictStep(t) ==
  /\ At(t, "clockLoad")
  /\ frame[t].i = StepSize
  /\ \/ /\ EvictDone(frame[t])
        /\ hit_decr_delta' = frame[t].delta
        /\ Goto(t, "evictOccupancy")
        /\ UNCHANGED clock_pointer
     \/ /\ ~EvictDone(frame[t])
        /\ clock_pointer' = clock_pointer + StepSize
        /\ frame' = [frame EXCEPT ![t].ptr = clock_pointer, ![t].i = 0,
                                  ![t].off = @ + StepSize,
                                  ![t].delta = NextDelta(frame[t])]
        /\ UNCHANGED hit_decr_delta
  /\ UNCHANGED <<meta, entry, displacements, occupancy, usage, todo, held, alive>>

(***************************************************************************)
(* The end of EvictForCharge: settle occupancy_, then usage_.              *)
(***************************************************************************)
\* Mutation: an insert beyond the load factor goes on without evicting.
EvictFailsMutant(f) == f.freed < f.need

EvictFails(f) == /\ f.freed <= f.need
                 /\ f.freed < f.need \/ (f.occ /\ f.count = 0)

\* Mutation: the slots that were emptied stay counted.
EvictOccupancyMutant(t) ==
  /\ At(t, "evictOccupancy")
  /\ Goto(t, IF frame[t].freed = frame[t].need /\ ~EvictFails(frame[t])
             THEN "slot" ELSE "evictUsage")
  /\ UNCHANGED occupancy
  /\ OnlyOccupancy

EvictOccupancy(t) ==
  /\ At(t, "evictOccupancy")
  /\ occupancy' = occupancy - frame[t].count
  /\ Goto(t, IF frame[t].freed = frame[t].need /\ ~EvictFails(frame[t])
             THEN "slot" ELSE "evictUsage")
  /\ OnlyOccupancy

\* Mutation: a failed insert gives back its reservation, not what it evicted.
EvictUsageMutant(t) ==
  /\ At(t, "evictUsage")
  /\ LET f == frame[t]
     IN  IF EvictFails(f)
         THEN usage' = usage - f.res /\ Goto(t, "undoOccupancy")
         ELSE usage' = usage - (f.freed - f.need) /\ Goto(t, "slot")
  /\ OnlyUsage

\* Too much was freed: give the excess back.  Too little: give all of it back.
EvictUsage(t) ==
  /\ At(t, "evictUsage")
  /\ LET f == frame[t]
     IN  IF EvictFails(f)
         THEN usage' = usage - (f.freed + f.res) /\ Goto(t, "undoOccupancy")
         ELSE usage' = usage - (f.freed - f.need) /\ Goto(t, "slot")
  /\ OnlyUsage

\* Insert returns false: no slot after all.
UndoOccupancy(t) ==
  /\ At(t, "undoOccupancy")
  /\ occupancy' = occupancy - 1
  /\ Return(t)
  /\ OnlyOccupancy
-----------------------------------------------------------------------------
(***************************************************************************)
(* DoInsert: probe for an empty slot, or one that already has the key.     *)
(***************************************************************************)
\* BeginSlotInsert sets the occupied bit, which takes the slot if it was empty.
InsertSlot(t) ==
  /\ At(t, "slot")
  /\ SetMeta(Cur(t), SetOccupied(meta[Cur(t)]))
  /\ Goto(t, CASE State(meta[Cur(t)]) = StateEmpty   -> "fill"
               [] State(meta[Cur(t)]) = StateVisible -> "slotRef"
               [] OTHER                              -> "slotNext")
  /\ OnlyMeta

InsertRef(t) ==
  /\ At(t, "slotRef")
  /\ RefIncr(Cur(t))
  /\ Goto(t, CASE State(meta[Cur(t)]) = StateVisible   -> "slotMatch"
               [] State(meta[Cur(t)]) = StateInvisible -> "slotUnref"
               [] OTHER                                -> "slotNext")
  /\ OnlyMeta

\* The key is there: undo the displacements and try once more after an Erase.
InsertMatch(t) ==
  /\ At(t, "slotMatch")
  /\ entry[Cur(t)].key = Key(t)
  /\ RefDecr(Cur(t))
  /\ frame' = [frame EXCEPT ![t] = RollbackTo(@, Key(t), Cur(t),
                                  IF frame[t].again THEN "fail" ELSE "eraseFirst")]
  /\ OnlyMeta

InsertUnref(t) ==
  /\ \/ At(t, "slotUnref")
     \/ At(t, "slotMatch") /\ entry[Cur(t)].key # Key(t)
  /\ RefDecr(Cur(t))
  /\ Goto(t, "slotNext")
  /\ OnlyMeta

\* Mutation: an insert that passes a slot does not count itself there.
InsertNextMutant(t) ==
  /\ At(t, "slotNext")
  /\ LET next == NextSlot(Key(t), Cur(t))
     IN  frame' = IF next = Base[Key(t)]
                  THEN [frame EXCEPT ![t] = RollbackTo(@, Key(t), Cur(t), "fail")]
                  ELSE [frame EXCEPT ![t].cur = next, ![t].pc = "slot"]
  /\ UNCHANGED displacements
  /\ OnlyDisplacements

\* Go on to the next slot, or give up when every slot has been tried.
InsertNext(t) ==
  /\ At(t, "slotNext")
  /\ LET next == NextSlot(Key(t), Cur(t))
     IN \/ /\ next = Base[Key(t)]
           /\ frame' = [frame EXCEPT ![t] = RollbackTo(@, Key(t), Cur(t), "fail")]
           /\ UNCHANGED displacements
        \/ /\ next # Base[Key(t)]
           /\ displacements' = [displacements EXCEPT ![Cur(t)] = @ + 1]
           /\ frame' = [frame EXCEPT ![t].cur = next, ![t].pc = "slot"]
  /\ OnlyDisplacements

\* FinishSlotInsert: the entry is written and published; Insert returns true.
InsertFill(t) ==
  /\ At(t, "fill")
  /\ entry' = [entry EXCEPT ![Cur(t)] = frame[t].call.h]
  /\ SetMeta(Cur(t), Meta(StateVisible, InitHitCount))
  /\ Return(t)
  /\ UNCHANGED <<displacements, occupancy, usage, clock_pointer, hit_decr_delta,
                 todo, held, alive>>

\* Insert returns false: neither the slot nor the charge is used.
FailOccupancy(t) ==
  /\ At(t, "fail")
  /\ occupancy' = occupancy - 1
  /\ Goto(t, "failUsage")
  /\ OnlyOccupancy

\* Mutation: a failed insert keeps the charge it reserved.
FailUsageMutant(t) ==
  /\ At(t, "failUsage")
  /\ Return(t)
  /\ UNCHANGED usage
  /\ OnlyUsage

FailUsage(t) ==
  /\ At(t, "failUsage")
  /\ usage' = usage - Charge(t)
  /\ Return(t)
  /\ OnlyUsage
-----------------------------------------------------------------------------
(***************************************************************************)
(* Erase, called by a client or by an Insert that found its key.           *)
(***************************************************************************)
EraseBegin(t, c) ==
  /\ Take(t, c, "erase")
  /\ frame' = [frame EXCEPT ![t].call = c, ![t].cur = Base[c.h.key], ![t].pc = "eraseRef"]
  /\ UNCHANGED <<shared, held, alive>>

\* "eraseFirst" is the call from Insert: the probe starts again at the base.
\* Every slot that is not visible loses the reference again, whatever its state.
EraseRef(t) ==
  /\ At(t, "eraseRef") \/ At(t, "eraseFirst")
  /\ LET s == IF At(t, "eraseFirst") THEN Base[Key(t)] ELSE Cur(t)
     IN  /\ RefIncr(s)
         /\ frame' = [frame EXCEPT ![t].cur = s,
                 ![t].pc = IF State(meta[s]) = StateVisible THEN "eraseMatch" ELSE "eraseUnref"]
  /\ OnlyMeta

\* The entry turns invisible; m is the meta word without the visible bit.
EraseMatch(t) ==
  /\ At(t, "eraseMatch")
  /\ entry[Cur(t)].key = Key(t)
  /\ SetMeta(Cur(t), ClearVisible(meta[Cur(t)]))
  /\ frame' = [frame EXCEPT ![t].found = TRUE, ![t].m = ClearVisible(meta[Cur(t)]),
                            ![t].pc = "eraseOwn"]
  /\ OnlyMeta

EraseUnref(t) ==
  /\ \/ At(t, "eraseUnref")
     \/ At(t, "eraseMatch") /\ entry[Cur(t)].key # Key(t)
  /\ RefDecr(Cur(t))
  /\ Goto(t, "eraseNext")
  /\ OnlyMeta

\* Mutation: the entry is freed although another thread holds it.
EraseOwnMutant(t) ==
  /\ At(t, "eraseOwn")
  /\ SetMeta(Cur(t), Meta(StateConstruction, 0))
  /\ frame' = [frame EXCEPT ![t].m = 0, ![t].pc = "eraseFree"]
  /\ OnlyMeta

\* The loop that takes ownership: it leaves an entry that others hold to the
\* clock, and retries when the meta word changed under its CAS.
EraseOwn(t) ==
  /\ At(t, "eraseOwn")
  /\ \/ /\ RefCount(frame[t].m) > 1
        /\ RefDecr(Cur(t))
        /\ frame' = [frame EXCEPT ![t].m = 0, ![t].pc = "eraseNext"]
     \/ /\ RefCount(frame[t].m) <= 1
        /\ meta[Cur(t)] = frame[t].m
        /\ SetMeta(Cur(t), Meta(StateConstruction, 0))
        /\ frame' = [frame EXCEPT ![t].m = 0, ![t].pc = "eraseFree"]
     \/ /\ RefCount(frame[t].m) <= 1
        /\ meta[Cur(t)] # frame[t].m
        /\ frame' = [frame EXCEPT ![t].m = meta[Cur(t)]]
        /\ UNCHANGED meta
  /\ OnlyMeta

EraseFree(t) ==
  /\ At(t, "eraseFree")
  /\ FreeDataMarkEmpty(Cur(t))
  /\ frame' = [frame EXCEPT ![t].amount = entry[Cur(t)].charge, ![t].succ = TRUE,
                            ![t].pc = "eraseOccupancy"]
  /\ UNCHANGED <<displacements, occupancy, usage, clock_pointer, hit_decr_delta,
                 todo, held, alive>>

\* ReclaimEntryUsage, then Rollback of what the entry displaced.
EraseOccupancy(t) ==
  /\ At(t, "eraseOccupancy")
  /\ occupancy' = occupancy - 1
  /\ Goto(t, "eraseUsage")
  /\ OnlyOccupancy

\* Mutation: the displacements of an erased entry stay.
EraseUsageMutant(t) ==
  /\ At(t, "eraseUsage")
  /\ usage' = usage - frame[t].amount
  /\ frame' = [frame EXCEPT ![t].amount = 0, ![t].pc = "eraseNext"]
  /\ OnlyUsage

EraseUsage(t) ==
  /\ At(t, "eraseUsage")
  /\ usage' = usage - frame[t].amount
  /\ frame' = [frame EXCEPT ![t] = RollbackTo([@ EXCEPT !.amount = 0], Key(t), Cur(t), "eraseNext")]
  /\ OnlyUsage

\* A client's Erase returns; Insert goes on to its second DoInsert if the key
\* is gone, and gives up if someone still holds the old entry.
EraseEnd(t) ==
  IF frame[t].call.op = "erase" THEN Return(t)
  ELSE frame' = [frame EXCEPT ![t].again = TRUE, ![t].cur = Base[Key(t)],
                    ![t].pc = IF frame[t].succ \/ ~frame[t].found THEN "slot" ELSE "fail"]

EraseNext(t) ==
  /\ At(t, "eraseNext")
  /\ Probe(t, "eraseRef", EraseEnd(t))
  /\ UNCHANGED <<shared, todo, held, alive>>
-----------------------------------------------------------------------------
(***************************************************************************)
(* The destructor runs when nothing else does.  It frees every entry, and  *)
(* takes its displacements, its charge and its slot out of the counters.   *)
(***************************************************************************)
Stored == {s \in Slots : State(meta[s]) \in {StateInvisible, StateVisible}}
Passing(s) == {u \in Stored : s \in Before(entry[u].key, u)}
ChargeOf(S) == Total([s \in Slots |-> entry[s].charge], S)

Quiescent == \A t \in Threads : At(t, "idle") /\ held[t] = None

Destroy ==
  /\ alive
  /\ Quiescent
  /\ \A t \in Threads : todo[t] = {}
  /\ alive' = FALSE
  /\ entry' = [s \in Slots |-> IF s \in Stored THEN [entry[s] EXCEPT !.val = None] ELSE entry[s]]
  /\ displacements' = [s \in Slots |-> displacements[s] - Cardinality(Passing(s))]
  /\ usage' = usage - ChargeOf(Stored)
  /\ occupancy' = occupancy - Cardinality(Stored)
  /\ UNCHANGED <<meta, clock_pointer, hit_decr_delta, todo, held, frame>>
-----------------------------------------------------------------------------
Begin(t) == \E c \in todo[t] : LookupBegin(t, c) \/ InsertBegin(t, c) \/ EraseBegin(t, c)

\* The accesses a running call still has to make.
Step(t) ==
  \/ LookupRef(t) \/ LookupMatch(t) \/ LookupHitDecr(t) \/ LookupUnref(t) \/ LookupNext(t)
  \/ Reserve(t)
  \/ EvictStart(t) \/ ClockLoad(t) \/ ClockAge(t) \/ ClockTake(t) \/ EvictFree(t)
  \/ EvictStep(t) \/ EvictOccupancy(t) \/ EvictUsage(t) \/ UndoOccupancy(t)
  \/ InsertSlot(t) \/ InsertRef(t) \/ InsertMatch(t) \/ InsertUnref(t) \/ InsertNext(t)
  \/ InsertFill(t) \/ FailOccupancy(t) \/ FailUsage(t)
  \/ EraseRef(t) \/ EraseMatch(t) \/ EraseUnref(t) \/ EraseOwn(t) \/ EraseFree(t)
  \/ EraseOccupancy(t) \/ EraseUsage(t) \/ EraseNext(t)
  \/ Rollback(t)

Next == \/ \E t \in Threads : Begin(t) \/ Step(t) \/ Release(t)
        \/ Destroy

Spec == Init /\ [][Next]_vars

\* The scheduler keeps running every thread that is inside a call.  Clients
\* promise nothing: they need not make a call or release a handle.
FairSpec == Spec /\ \A t \in Threads : WF_vars(Step(t))
-----------------------------------------------------------------------------
EvictLabels == {"evict", "clockLoad", "clockAge", "clockTake", "evictFree",
                "evictOccupancy", "evictUsage"}
ProbeLabels == {"slot", "slotRef", "slotMatch", "slotUnref", "slotNext", "fill"}
Labels == EvictLabels \cup ProbeLabels \cup
          {"idle", "rollback", "reserve", "undoOccupancy", "fail", "failUsage",
           "lookupRef", "lookupMatch", "lookupHitDecr", "lookupUnref", "lookupNext",
           "eraseFirst", "eraseRef", "eraseMatch", "eraseUnref", "eraseOwn", "eraseFree",
           "eraseOccupancy", "eraseUsage", "eraseNext"}

(***************************************************************************)
(* The counters of the code are unsigned: that they stay natural numbers   *)
(* here is that they never wrap there.                                     *)
(***************************************************************************)
TypeOK ==
  /\ meta \in [Slots -> 0 .. MetaMod - 1]
  /\ entry \in [Slots -> Entries]
  /\ displacements \in [Slots -> Nat]
  /\ occupancy \in Nat
  /\ usage \in Nat
  /\ \A t \in Threads : frame[t].pc \in Labels /\ Cur(t) \in Slots

\* The slot that Evict, an Insert or an Erase of t has in state Construction.
Owns(t, s) ==
  \/ frame[t].pc \in {"fill", "eraseFree"} /\ s = Cur(t)
  \/ At(t, "evictFree") /\ s = ClockSlot(t)
  \/ At(t, "rollback") /\ frame[t].to = "evictFree" /\ s = ClockSlot(t)

(***************************************************************************)
(* Only one thread at a time writes or frees the entry of a slot, and it   *)
(* does so in state Construction, which nobody else can leave: insertion,  *)
(* eviction and erasure exclude one another on a slot.                     *)
(***************************************************************************)
SlotOwned ==
  \A s \in Slots : Cardinality({t \in Threads : Owns(t, s)})
                     = IF State(meta[s]) = StateConstruction THEN 1 ELSE 0

(***************************************************************************)
(* A handle stays valid until it is released: the entry a Lookup returned  *)
(* is neither freed nor replaced, whatever Insert, Erase and Evict do.     *)
(***************************************************************************)
HeldIntact ==
  \A t \in Threads :
    held[t] # None => /\ held[t].slot \in Stored
                      /\ entry[held[t].slot] = held[t].e

\* Between these labels a call has a reference on its current slot.
RefLabels == {"lookupMatch", "lookupHitDecr", "lookupUnref", "slotMatch", "slotUnref",
              "eraseMatch", "eraseUnref", "eraseOwn"}

(***************************************************************************)
(* The reference counter of a stored entry is the number of references to  *)
(* it: none is lost, and none is left behind by a probe of a slot that was *)
(* still empty or under construction.                                      *)
(***************************************************************************)
RefExact ==
  \A s \in Stored : RefCount(meta[s])
                      = Cardinality({t \in Threads : held[t] # None /\ held[t].slot = s})
                        + Cardinality({t \in Threads : Cur(t) = s /\ frame[t].pc \in RefLabels})

(***************************************************************************)
(* The hit counter never leaks into the bits above it, and passes its      *)
(* maximum only by the increments that are about to be taken back.         *)
(***************************************************************************)
HitSound ==
  \A s \in Stored :
    /\ HitBit(meta[s]) = 0
    /\ HitCount(meta[s]) <= MaxHitCount
         + Cardinality({t \in Threads : At(t, "lookupHitDecr") /\ Cur(t) = s})

\* What a running call has in usage_ that is not, or not yet, stored.
InEvict(t) == frame[t].pc \in EvictLabels \/ (At(t, "rollback") /\ frame[t].to = "evictFree")

OwedUsage(t) ==
  LET f == frame[t]
      reserved == IF f.call.op # "insert" \/ f.pc \in {"reserve", "undoOccupancy"} THEN 0
                  ELSE IF InEvict(t) THEN f.res + f.freed
                  ELSE f.call.h.charge
      erased == IF f.pc = "eraseFree" THEN entry[f.cur].charge
                ELSE IF f.pc \in {"eraseOccupancy", "eraseUsage"} THEN f.amount ELSE 0
  IN  reserved + erased

OwedOccupancy(t) ==
  LET f == frame[t]
      reserved == IF f.call.op # "insert" \/ f.pc = "failUsage" THEN 0 ELSE 1
      evicted == IF InEvict(t) /\ f.pc # "evictUsage" THEN f.count ELSE 0
      erased == IF f.pc \in {"eraseFree", "eraseOccupancy"} THEN 1 ELSE 0
  IN  reserved + evicted + erased

(***************************************************************************)
(* usage_ and occupancy_ are the charge and the number of the stored       *)
(* entries, plus what running calls have reserved or still have to give    *)
(* back: no path of Insert, Evict or Erase loses or repeats a share.       *)
(***************************************************************************)
CountersExact ==
  alive => /\ usage = ChargeOf(Stored) + Total([t \in Threads |-> OwedUsage(t)], Threads)
           /\ occupancy = Cardinality(Stored) + Total([t \in Threads |-> OwedOccupancy(t)], Threads)

(***************************************************************************)
(* The entries in the table fit in capacity_, at every instant.            *)
(***************************************************************************)
CapacityRespected == ChargeOf(Stored) <= Capacity

(***************************************************************************)
(* The entries in the table never exceed the load factor, though inserts   *)
(* check occupancy_ before they place anything.                            *)
(***************************************************************************)
LoadRespected == Cardinality(Stored) <= OccupancyLimit

\* The displacements a running call has added and not (or not yet) taken back.
Carries(t, s) ==
  LET f == frame[t]
  IN  \/ f.pc \in ProbeLabels \cup {"eraseFree", "eraseOccupancy", "eraseUsage"}
         /\ s \in Before(Key(t), f.cur)
      \/ f.pc = "rollback"
         /\ s \in Before(RollbackKey(t), RollbackSlot(t)) \ Before(RollbackKey(t), f.rb)

(***************************************************************************)
(* The displacement count of a slot is the number of stored entries whose  *)
(* probe passes it, plus those of running calls.  So every entry stays     *)
(* reachable by Lookup, and a slot whose entries are gone stops probes.    *)
(***************************************************************************)
DisplacementsExact ==
  alive => \A s \in Slots :
             displacements[s] = Cardinality(Passing(s))
                                + Cardinality({t \in Threads : Carries(t, s)})

(***************************************************************************)
(* The assertions of the destructor: no entry is under construction or     *)
(* referenced, and when all are freed the displacements, usage_ and        *)
(* occupancy_ are back at zero.                                            *)
(***************************************************************************)
DestructorAsserts ==
  ~alive => /\ \A s \in Slots : State(meta[s]) \in {StateEmpty, StateInvisible, StateVisible}
            /\ \A s \in Stored : RefCount(meta[s]) = 0
            /\ \A s \in Slots : displacements[s] = 0
            /\ usage = 0
            /\ occupancy = 0

(***************************************************************************)
(* Every call returns, even when handles are kept for ever: Evict gives up *)
(* on entries that are pinned, and the probes of FindSlot end when all the *)
(* slots are in use, or have been passed by some entry.                    *)
(***************************************************************************)
CallsReturn == \A t \in Threads : []<>At(t, "idle")
=============================================================================
