-------------------------- MODULE AtomicSharedPtr --------------------------
(***************************************************************************)
(* hash_skip::AtomicSharedPtr<T>: a std::shared_ptr<T> that many threads   *)
(* load and store at once.  The object is one 64-bit word that packs       *)
(*                                                                         *)
(*   - the address of a heap-allocated std::shared_ptr<T> (or null),       *)
(*   - a 14-bit version, used as the number of loads copying that cell,    *)
(*   - a mark bit, set by the one store that is replacing the cell.        *)
(*                                                                         *)
(* Load registers itself in the version with a CAS, copies the cell, and   *)
(* takes itself out again.  Store waits for version 0 and no mark, sets    *)
(* the mark, publishes a fresh cell, and deletes the old one.              *)
(*                                                                         *)
(* One action is one access to the shared word or to a heap cell.  A weak  *)
(* CAS that fails spuriously reloads the word it already expected, so it   *)
(* changes nothing and needs no action of its own.  The locals of a call   *)
(* are reset when it returns: they go out of scope.                        *)
(***************************************************************************)
EXTENDS Naturals, FiniteSets

CONSTANTS Threads,     \* the threads that use the object
          Addrs,       \* addresses the allocator hands out, reused when freed
          Values,      \* the T objects the cells point to
          VersionMod,  \* VERSION_MASK + 1: 2^14 in the code
          Null         \* the null address and the null shared_ptr

ASSUME NullAssumption == Null \notin Addrs /\ Null \notin Values

\* "concurrency < max version(2**14)", the comment on Load.
ASSUME ConcurrencyAssumption ==
  /\ IsFiniteSet(Threads)
  /\ VersionMod \in Nat
  /\ Cardinality(Threads) < VersionMod

VARIABLES ptr,   \* ptr_, the packed word
          heap,  \* heap[a]: the content of the cell at a, Null when not allocated
          pc,    \* pc[t]: the next access of t
          cur,   \* cur[t]: curr_ptr of Load, old_ptr of Store
          new,   \* new[t]: new_raw_ptr of Store
          ret    \* ret[t]: the result of the last call of t

vars == <<ptr, heap, pc, cur, new, ret>>

Raw == Addrs \cup {Null}
Word == [raw : Raw, ver : 0 .. VersionMod - 1, mark : BOOLEAN]

PackPtr(raw, ver, mark) == [raw |-> raw, ver |-> ver % VersionMod, mark |-> mark]
NullWord == PackPtr(Null, 0, FALSE)
Mark(w) == [w EXCEPT !.mark = TRUE]
UnMark(w) == [w EXCEPT !.mark = FALSE]
IncrVersion(w) == [w EXCEPT !.ver = (w.ver + 1) % VersionMod]
DecrVersion(w) == [w EXCEPT !.ver = (w.ver + VersionMod - 1) % VersionMod]

\* The shared_ptr a raw address stands for.
Deref(a) == IF a = Null THEN Null ELSE heap[a]

\* The two constructors: the default one, and the one that takes a value.
Init == /\ \E v \in Values \cup {Null}, a \in Addrs :
             /\ heap = [b \in Addrs |-> IF b = a THEN v ELSE Null]
             /\ ptr = PackPtr(IF v = Null THEN Null ELSE a, 0, FALSE)
        /\ pc = [t \in Threads |-> "idle"]
        /\ cur = [t \in Threads |-> NullWord]
        /\ new = [t \in Threads |-> Null]
        /\ ret = [t \in Threads |-> Null]

Goto(t, l) == pc' = [pc EXCEPT ![t] = l]

Return(t) == /\ Goto(t, "idle")
             /\ cur' = [cur EXCEPT ![t] = NullWord]
             /\ new' = [new EXCEPT ![t] = Null]
-----------------------------------------------------------------------------
(***************************************************************************)
(* Load.                                                                   *)
(***************************************************************************)
LoadBegin(t) ==
  /\ pc[t] = "idle"
  /\ Goto(t, "read")
  /\ ret' = [ret EXCEPT ![t] = Null]
  /\ UNCHANGED <<ptr, heap, cur, new>>

\* Mutation: the mark a failed CAS delivers is not taken off the expected word.
LoadExamineMutant(t) ==
  IF ptr.raw = Null
  THEN Return(t)
  ELSE /\ cur' = [cur EXCEPT ![t] = ptr]
       /\ Goto(t, "acquire")
       /\ UNCHANGED new

\* The head of the acquire loop, run on the word the load or the failed CAS
\* delivered: a null address ends the call, any other is expected unmarked.
LoadExamine(t) ==
  IF ptr.raw = Null
  THEN Return(t)
  ELSE /\ cur' = [cur EXCEPT ![t] = UnMark(ptr)]
       /\ Goto(t, "acquire")
       /\ UNCHANGED new

LoadRead(t) ==
  /\ pc[t] = "read"
  /\ LoadExamine(t)
  /\ UNCHANGED <<ptr, heap, ret>>

LoadAcquireFails(t) ==
  /\ pc[t] = "acquire"
  /\ ptr # cur[t]
  /\ LoadExamine(t)
  /\ UNCHANGED <<ptr, heap, ret>>

\* Mutation: the CAS that registers the load leaves the version alone.
LoadAcquireMutant(t) ==
  /\ pc[t] = "acquire"
  /\ ptr = cur[t]
  /\ Goto(t, "copy")
  /\ UNCHANGED <<ptr, heap, cur, new, ret>>

LoadAcquire(t) ==
  /\ pc[t] = "acquire"
  /\ ptr = cur[t]
  /\ ptr' = IncrVersion(ptr)
  /\ Goto(t, "copy")
  /\ UNCHANGED <<heap, cur, new, ret>>

LoadCopy(t) ==
  /\ pc[t] = "copy"
  /\ ret' = [ret EXCEPT ![t] = heap[cur[t].raw]]
  /\ Goto(t, "release")
  /\ UNCHANGED <<ptr, heap, cur, new>>

LoadReleaseFails(t) ==
  /\ pc[t] = "release"
  /\ ptr # cur[t]
  /\ cur' = [cur EXCEPT ![t] = UnMark(ptr)]
  /\ UNCHANGED <<ptr, heap, pc, new, ret>>

\* Mutation: the CAS that ends the load installs the expected word itself.
LoadReleaseMutant(t) ==
  /\ pc[t] = "release"
  /\ ptr = cur[t]
  /\ Return(t)
  /\ UNCHANGED <<ptr, heap, ret>>

LoadRelease(t) ==
  /\ pc[t] = "release"
  /\ ptr = cur[t]
  /\ ptr' = DecrVersion(ptr)
  /\ Return(t)
  /\ UNCHANGED <<heap, ret>>
-----------------------------------------------------------------------------
(***************************************************************************)
(* Store.                                                                  *)
(***************************************************************************)
\* Allocates the new cell (none for a null value) and reads the word.
StoreBegin(t, v) ==
  /\ pc[t] = "idle"
  /\ \/ /\ v = Null
        /\ new' = [new EXCEPT ![t] = Null]
        /\ UNCHANGED heap
     \/ /\ v # Null
        /\ \E a \in Addrs :
             /\ heap[a] = Null
             /\ new' = [new EXCEPT ![t] = a]
             /\ heap' = [heap EXCEPT ![a] = v]
  /\ cur' = [cur EXCEPT ![t] = PackPtr(ptr.raw, 0, FALSE)]
  /\ Goto(t, "mark")
  /\ ret' = [ret EXCEPT ![t] = Null]
  /\ UNCHANGED ptr

StoreMarkFails(t) ==
  /\ pc[t] = "mark"
  /\ ptr # cur[t]
  /\ cur' = [cur EXCEPT ![t] = PackPtr(ptr.raw, 0, FALSE)]
  /\ UNCHANGED <<ptr, heap, pc, new, ret>>

\* Mutation: the mark CAS compares the address only, not the version.
StoreMarkMutant(t) ==
  /\ pc[t] = "mark"
  /\ ptr.raw = cur[t].raw /\ ~ptr.mark
  /\ ptr' = Mark(cur[t])
  /\ Goto(t, "publish")
  /\ UNCHANGED <<heap, cur, new, ret>>

StoreMark(t) ==
  /\ pc[t] = "mark"
  /\ ptr = cur[t]
  /\ ptr' = Mark(ptr)
  /\ Goto(t, "publish")
  /\ UNCHANGED <<heap, cur, new, ret>>

\* Mutation: the new word is published with the mark still set.
StorePublishMutant(t) ==
  /\ pc[t] = "publish"
  /\ ptr' = PackPtr(new[t], 0, TRUE)
  /\ Goto(t, "reclaim")
  /\ UNCHANGED <<heap, cur, new, ret>>

StorePublish(t) ==
  /\ pc[t] = "publish"
  /\ ptr' = PackPtr(new[t], 0, FALSE)
  /\ Goto(t, "reclaim")
  /\ UNCHANGED <<heap, cur, new, ret>>

\* Mutation: the old cell is returned and never deleted.
StoreReclaimMutant(t) ==
  /\ pc[t] = "reclaim"
  /\ ret' = [ret EXCEPT ![t] = Deref(cur[t].raw)]
  /\ Return(t)
  /\ UNCHANGED <<ptr, heap>>

\* The old cell is copied into the result and deleted.
StoreReclaim(t) ==
  /\ pc[t] = "reclaim"
  /\ ret' = [ret EXCEPT ![t] = Deref(cur[t].raw)]
  /\ heap' = [a \in Addrs |-> IF a = cur[t].raw THEN Null ELSE heap[a]]
  /\ Return(t)
  /\ UNCHANGED ptr
-----------------------------------------------------------------------------
\* The accesses a running call still has to make.
Step(t) == \/ LoadRead(t) \/ LoadAcquireFails(t) \/ LoadAcquire(t)
           \/ LoadCopy(t) \/ LoadReleaseFails(t) \/ LoadRelease(t)
           \/ StoreMarkFails(t) \/ StoreMark(t) \/ StorePublish(t)
           \/ StoreReclaim(t)

Next == \E t \in Threads :
           \/ LoadBegin(t)
           \/ \E v \in Values \cup {Null} : StoreBegin(t, v)
           \/ Step(t)

Spec == Init /\ [][Next]_vars
-----------------------------------------------------------------------------
Loading == {"copy", "release"}
Readers == {t \in Threads : pc[t] \in Loading}

\* Types, and no CAS expects a marked word.
TypeOK ==
  /\ ptr \in Word
  /\ heap \in [Addrs -> Values \cup {Null}]
  /\ pc \in [Threads -> {"idle", "read", "acquire", "mark", "publish", "reclaim"}
                          \cup Loading]
  /\ cur \in [Threads -> Word] /\ \A t \in Threads : ~cur[t].mark
  /\ new \in [Threads -> Raw]
  /\ ret \in [Threads -> Values \cup {Null}]

(***************************************************************************)
(* No load copies a cell that a store has deleted, and no store deletes a  *)
(* cell twice: the address a thread is about to dereference is allocated   *)
(* and, for a load, still the published one.                               *)
(***************************************************************************)
NoUseAfterFree ==
  \A t \in Threads :
    /\ pc[t] = "copy" => cur[t].raw = ptr.raw /\ Deref(cur[t].raw) # Null
    /\ pc[t] = "reclaim" /\ cur[t].raw # Null => heap[cur[t].raw] # Null

(***************************************************************************)
(* The version field counts exactly the loads between their two CASes, so  *)
(* it neither wraps nor drifts, however loads and stores interleave.       *)
(***************************************************************************)
VersionCountsReaders == ptr.ver = Cardinality(Readers)

\* Addresses that some word or some call still refers to.
Reachable == {ptr.raw} \cup {new[t] : t \in {u \in Threads : pc[u] \in {"mark", "publish"}}}
                       \cup {cur[t].raw : t \in {u \in Threads : pc[u] = "reclaim"}}

(***************************************************************************)
(* Every cell Store allocates is deleted by the store that replaces it:    *)
(* the allocated cells are the published one and those of running stores.  *)
(***************************************************************************)
NoLeak == {a \in Addrs : heap[a] # Null} = Reachable \ {Null}

(***************************************************************************)
(* Linearizability.  A load takes effect when its acquiring CAS succeeds   *)
(* (or when it sees a null address), a store when it publishes.            *)
(***************************************************************************)
CellValue == Deref(ptr.raw)
CellPhase == [t \in Threads |-> CASE pc[t] \in {"read", "acquire"} -> "load"
                                  [] pc[t] \in {"mark", "publish"} -> "store"
                                  [] OTHER -> "idle"]
CellArg == [t \in Threads |-> IF pc[t] \in {"mark", "publish"}
                              THEN Deref(new[t]) ELSE Null]
CellResult == [t \in Threads |-> IF pc[t] \in {"copy", "reclaim"}
                                 THEN Deref(cur[t].raw) ELSE ret[t]]

Cell == INSTANCE AtomicCell WITH
  value <- CellValue, phase <- CellPhase, arg <- CellArg, result <- CellResult

(***************************************************************************)
(* Load and Store behave as atomic operations on one cell, and Store       *)
(* returns the value it replaced.                                          *)
(***************************************************************************)
ImplementsCell == Cell!Spec

Busy == {t \in Threads : pc[t] # "idle"}
=============================================================================
