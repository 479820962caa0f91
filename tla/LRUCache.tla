------------------------------ MODULE LRUCache ------------------------------
(***************************************************************************)
(* lru::LRUCache<Key>: shards chosen by key % shard_num, each a list of    *)
(* entries from the most to the least recently used, a map from keys to    *)
(* list nodes and the charge in use, behind one mutex.                     *)
(*                                                                         *)
(* Get and Insert run under the mutex of their shard, so one action is one *)
(* call.  A call with undefined behaviour is recorded in undefined:        *)
(*   "popped"  an evict loop reads the del_cb and the charge of the node   *)
(*             pop_back has just freed, as it does on every eviction.  The *)
(*             allocator leaves those fields alone until the memory is     *)
(*             handed out again, which no other statement of the call can  *)
(*             do: what the build reads is what the node had, and the      *)
(*             model goes on with that;                                    *)
(*   "lost"    any other use of memory the list no longer owns, and the    *)
(*             last entry of an empty list: the model stops.               *)
(***************************************************************************)
EXTENDS Integers, Sequences, SequencesExt, FiniteSetsExt

CONSTANTS
  Keys,       \* a finite set of natural numbers: the index is key % shard_num
  Handles,    \* Handles[k]: the handles k is inserted with
  ShardNum,   \* options.shard_num
  Capacity,   \* options.capacity
  EntryNum,   \* options.entry_num
  ValueSize,  \* options.value_size
  DelCb,      \* whether the handles have a del_cb
  SizeMod,    \* 2^w for the w bits of a size_t
  None        \* no value

ASSUME OptionsAssumption ==
  /\ Keys \subseteq Nat
  /\ {ShardNum, SizeMod} \subseteq Nat \ {0}
  /\ {Capacity, EntryNum, ValueSize} \subseteq 0 .. SizeMod - 1
  /\ DelCb \in BOOLEAN
  /\ \A k \in Keys : \A h \in Handles[k] : h.charge \in 0 .. SizeMod - 1

VARIABLES
  entries,   \* entries[s]: entries_ of shard s, most recently used first
  map,       \* map[s]: the keys of map_
  usage,     \* usage[s]: usage_
  got,       \* what the last Get put into *handle, or None
  undefined  \* the kinds of undefined behaviour the calls have had

vars == <<entries, map, usage, got, undefined>>

Shards == 0 .. ShardNum - 1
ShardOf(k) == k % ShardNum

\* The constructors: every shard gets the whole of options.capacity.
ShardCapacity == Capacity
MaxEntryNum == IF EntryNum > 0 THEN EntryNum
               ELSE IF ValueSize > 0 THEN ShardCapacity \div ValueSize ELSE 0

Init == /\ entries = [s \in Shards |-> <<>>]
        /\ map = [s \in Shards |-> {}]
        /\ usage = [s \in Shards |-> 0]
        /\ got = None
        /\ undefined = {}

\* Mutation: the shard is given its own number for the key.
EntryMutant(k, h) == [key |-> ShardOf(k), val |-> h.val, charge |-> h.charge]

\* A node of entries_.
Entry(k, h) == [key |-> k, val |-> h.val, charge |-> h.charge]

KeysOf(list) == {list[i].key : i \in DOMAIN list}
ChargeOf(list) ==
  LET sum[i \in 0 .. Len(list)] == IF i = 0 THEN 0 ELSE sum[i - 1] + list[i].charge
  IN  sum[Len(list)]

\* Mutation: the evict loops pop the front of the list.
KeptMutant(list, n) == SubSeq(list, n + 1, Len(list))

\* What is left of a list, and what goes, when its last n entries are evicted.
Kept(list, n) == SubSeq(list, 1, Len(list) - n)
Evicted(list, n) == SubSeq(list, Len(list) - n + 1, Len(list))

Undefined == undefined' = undefined \cup {"lost"} /\ UNCHANGED <<entries, map, usage, got>>
Defined == "lost" \notin undefined
-----------------------------------------------------------------------------
(***************************************************************************)
(* Get: a hit moves the entry to the front.                                *)
(***************************************************************************)
ToFront(list, i) == <<list[i]>> \o RemoveAt(list, i)

Get(k) ==
  LET s == ShardOf(k)
      list == entries[s]
  IN \/ /\ k \notin map[s]
        /\ got' = None
        /\ UNCHANGED <<entries, map, usage, undefined>>
     \/ /\ k \in map[s]
        /\ IF k \notin KeysOf(list) THEN Undefined
           ELSE \E i \in DOMAIN list :
                  /\ list[i].key = k
                  /\ entries' = [entries EXCEPT ![s] = ToFront(list, i)]
                  /\ got' = list[i].val
                  /\ UNCHANGED <<map, usage, undefined>>
-----------------------------------------------------------------------------
(***************************************************************************)
(* The evict loops of Insert.                                              *)
(***************************************************************************)
\* Mutation: the charge of an evicted entry stays in usage_.
UsageAfterMutant(s, n) == usage[s]

UsageAfter(s, n) == (usage[s] - ChargeOf(Evicted(entries[s], n))) % SizeMod

\* The loop of EvictForCharge ends after n evictions.
Fits(s, need, n) == \/ ShardCapacity = 0
                    \/ (UsageAfter(s, n) + need) % SizeMod <= ShardCapacity

ChargeEvictions(s, need) == {n \in 0 .. Len(entries[s]) : Fits(s, need, n)}

\* Mutation: one entry more than allowed.
OccupancyEvictionsMutant(s, n) ==
  IF MaxEntryNum = 0 THEN n ELSE Max({n, Len(entries[s]) - MaxEntryNum})

\* After n evictions for the charge, how many the two loops make together.
OccupancyEvictions(s, n) ==
  IF MaxEntryNum = 0 THEN n ELSE Max({n, Len(entries[s]) + 1 - MaxEntryNum})

\* Mutation: the evicted keys stay in the map.
MapAfterMutant(s, n) == map[s]

MapAfter(s, n) == map[s] \ KeysOf(Evicted(entries[s], n))

Charged(u, c) == (u + c) % SizeMod

\* n evictions read the node they have popped.
ReadsPopped(n) == undefined' = undefined \cup (IF n > 0 THEN {"popped"} ELSE {})

\* FreeData on a popped node runs the deleter on a destroyed shared_ptr.
DeletesFreed(n) == DelCb /\ n > 0
-----------------------------------------------------------------------------
(***************************************************************************)
(* Insert of a key the map does not have.                                  *)
(***************************************************************************)
InsertNew(k, h) ==
  LET s == ShardOf(k)
      forCharge == ChargeEvictions(s, h.charge)
      n == OccupancyEvictions(s, Min(forCharge))
  IN  /\ k \notin map[s]
      /\ IF forCharge = {} \/ DeletesFreed(n)
         THEN Undefined
         ELSE /\ entries' = [entries EXCEPT ![s] =
                     <<Entry(k, h)>> \o Kept(@, n)]
              /\ map' = [map EXCEPT ![s] = MapAfter(s, n) \cup {k}]
              /\ usage' = [usage EXCEPT ![s] = Charged(UsageAfter(s, n), h.charge)]
              /\ ReadsPopped(n)
              /\ UNCHANGED got

(***************************************************************************)
(* Insert of a key the map has.  The reference to the old handle is kept   *)
(* over the evictions, and usage_ is not adjusted to the new charge.       *)
(***************************************************************************)
InsertUpdate(k, h) ==
  LET s == ShardOf(k)
      list == entries[s]
      Old == {i \in DOMAIN list : list[i].key = k}
      need == (h.charge - list[Max(Old)].charge) % SizeMod
      forCharge == IF need > 0 THEN ChargeEvictions(s, need) ELSE {0}
      n == Min(forCharge)
  IN  /\ k \in map[s]
      /\ IF Old = {} \/ forCharge = {} \/ Max(Old) > Len(list) - n \/ DeletesFreed(n)
         THEN Undefined
         ELSE /\ entries' = [entries EXCEPT ![s] =
                     <<Entry(k, h)>> \o RemoveAt(Kept(@, n), Max(Old))]
              /\ map' = [map EXCEPT ![s] = MapAfter(s, n)]
              /\ usage' = [usage EXCEPT ![s] = UsageAfter(s, n)]
              /\ ReadsPopped(n)
              /\ UNCHANGED got

Next == /\ Defined
        /\ \E k \in Keys :
             \/ Get(k)
             \/ \E h \in Handles[k] : InsertNew(k, h) \/ InsertUpdate(k, h)

Spec == Init /\ [][Next]_vars
-----------------------------------------------------------------------------
\* What entries_ can be made of.
Entries ==
  UNION {{[key |-> k, val |-> h.val, charge |-> h.charge] : h \in Handles[k]} : k \in Keys}

TypeOK ==
  /\ entries \in [Shards -> Seq(Entries)]
  /\ map \in [Shards -> SUBSET Keys]
  /\ usage \in [Shards -> 0 .. SizeMod - 1]
  /\ got \in {None} \cup {e.val : e \in Entries}
  /\ undefined \subseteq {"popped", "lost"}

(***************************************************************************)
(* The reads of the node just popped are all there is: the map never names *)
(* a freed node, the evict loops stop before they run out of entries, and  *)
(* the entry an update holds a reference to survives its evictions.        *)
(***************************************************************************)
OnlyPoppedRead == undefined \subseteq {"popped"}

(***************************************************************************)
(* usage_ is the charge of the entries, through inserts, updates and       *)
(* evictions for charge and for occupancy.                                 *)
(***************************************************************************)
UsageExact == \A s \in Shards : usage[s] = ChargeOf(entries[s])

(***************************************************************************)
(* A shard never holds more charge or more entries than it was given.      *)
(***************************************************************************)
ShardBounded ==
  \A s \in Shards : /\ ShardCapacity # 0 => ChargeOf(entries[s]) <= ShardCapacity
                    /\ MaxEntryNum # 0 => Len(entries[s]) <= MaxEntryNum
=============================================================================
