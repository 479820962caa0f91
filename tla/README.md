# A TLA+ model of hyper_cache

hyper_cache is a C++ library of three caches and the concurrent structures they
are built from. This directory holds TLA+ modules that model its core, TLC
configurations that check them on small instances, and TLAPS proofs that hold
for every instance. Paths below are relative to the repository, which is `src/`.

## Inventory

| Component | State | Operations | What makes it correct |
| --- | --- | --- | --- |
| `hash_skip/atomic_shared_ptr.h`, `ptr_util.h` | one word: address, 14-bit version, mark; a heap cell per stored value | `Load`, `Store` | no cell is used after it is freed, none leaks, the version counts the loads in flight, both calls are atomic |
| `util/queue.h` | `head_`, `tail_`, a `seq` and a `data` per slot | `Push`, `Pop`, `Size` | exclusive access to `data`, first in first out, lock-free |
| `clock/clock_cache.cc`, `handle.h` | per slot a meta word (references, hits, state), an entry, displacements; `occupancy_`, `usage_`, `clock_pointer_` | `Lookup`, `Release`, `Insert`, `Erase`, `Evict` (inside Insert), destructor | a handle stays valid until released; all counters exact; capacity and load factor hold; every call returns |
| `clock/cache.cc` | shards | routing by hash | the shards share nothing |
| `lru/cache_shard.h`, `lru/cache.h` | per shard a list, a map, `usage_`, a mutex | `Get`, `Insert` | bounded, exact usage, least recently used goes first |
| `hash_skip/node.h`, `atomic_skiplist.h` | linked nodes with marked, versioned next pointers; handles; hit counters; two counts | `Get`, `Insert`, `IterateLevel`, `MarkDeleted` | one sorted chain at level 0, no lost node, complete iterations, no lost value |
| `hash_skip/cache.h` | buckets (AtomicSharedPtr of AtomicSkipList), generations, a Queue of cold keys, `memory_used_`, two threads | `Init`, `Get`, `Insert`, `Evict` (inside Insert), decay, compaction, destructor | a swap loses nothing it need not, memory accounted, calls and the destructor return |
| `util/skiplist.h` | a sequential skip list | insert, find, erase | sorted set |
| hash, random, benchmarks | none of the system's | | |

HashSkipCache calls the other three of its kind: a bucket is an
AtomicSharedPtr to an AtomicSkipList, a Node keeps its handle in an
AtomicSharedPtr, and the decay thread talks to the inserting threads through a
Queue. ClockCache and LRUCache depend on nothing but atomics and a mutex.

What is hard here: every structure but the LRU is used by many threads without
a lock; memory is freed by hand while others may be reading it; counters are
adjusted in several steps on several paths, each of which may fail in the
middle. `PROJECT.json` lists the hazards at their lines.

## Modules

| Module | Models |
| --- | --- |
| `AtomicSharedPtr` | `AtomicSharedPtr<T>` and `MarkVersionedPtr` |
| `AtomicCell` | the abstract cell it implements |
| `Queue` | `Queue<T>` |
| `FifoQueue` | the abstract bounded queue it implements |
| `ClockCache` | `clock::ClockCache` |
| `LRUCache` | `lru::LRUCache` and its shards |
| `LRUHistory` | LRUCache with a history of the uses of the keys |
| `AtomicSkipList` | `hash_skip::AtomicSkipList` and `Node` |
| `HashSkipCache` | `hash_skip::HashSkipCache`; extends `AtomicSkipList` and composes lists, atomic cells and a queue |
| `ListHistory` | AtomicSkipList with the nodes an iteration has still to visit |
| `CacheHistory` | HashSkipCache with the keys that changed while a compaction copies |
| `Sums` | sums as cardinalities, for the charges of ClockCache and HashSkipCache |
| `MC*` | instances for TLC; `MCClockUpdate` adds a history variable |
| `*Proofs` | an inductive invariant of the module, with TLAPS proofs of the theorems that follow from it |
| `ClockCacheCounts` | the counters and displacements of `ClockCache`, from the invariant of `ClockCacheProofs` |
| `AtomicSkipListCounts` | the counts, the chain and the iterations of the lists, from the invariant of `AtomicSkipListProofs` |
| `HashSkipCacheProofs` | the cache, on top of the invariant of `AtomicSkipListProofs` for its lists |

### AtomicSharedPtr

`ptr` is `ptr_` as a record of address, version and mark; `heap` maps addresses
to what the `std::shared_ptr` allocated there holds, `Null` when nothing is.
Addresses are reused as soon as they are freed, so a word may come back with
the address it had (ABA). `Load` is `LoadBegin`, `LoadRead`, the acquiring CAS
(`LoadAcquire`, `LoadAcquireFails`), `LoadCopy`, the releasing CAS. `Store` is
`StoreBegin` (allocation and first read), the marking CAS, `StorePublish`,
`StoreReclaim`. The first read of `Store` is merged with its allocation, which
no other thread can see, and the copy of the old cell with its deletion: the
store owns it by then. A spurious failure of a weak CAS reloads the word that
was expected; it changes nothing.

### Queue

`head`, `tail`, `seq`, `data` are the members; `pos`, `val` the locals. One action
is one access. `SpuriousFail` is a weak CAS that fails for no reason. `Size`
reads the two counters in either order. Positions are unbounded integers: the
code's `int64_t` takes centuries to overflow. `MaxPush` bounds `head_` for TLC
only; with a ring of two and `MaxPush = 4` every slot is used twice.

### ClockCache

The meta word is one number, laid out as in the code with narrower counters
(`CounterMod`), so that a counter that under- or overflows damages its
neighbours as it does there. `frame[t]` holds the call thread `t` is in: `pc` names
its next access, the other fields are its locals. `FindSlot` is the operator
`Probe` for Lookup and Erase and the action `InsertNext` for DoInsert. `Rollback`
is shared by all of its callers and returns to the label in `frame[t].to`.

An entry is read or written only by a thread that owns its slot or holds a
reference to it, so these accesses are merged into the next access to the meta
word. That this is sound is what `SlotOwned`, `RefExact` and `HeldIntact` check. The
CAS loop that reserves usage is one step, the one that succeeds. A key's hash
enters as its first slot `Base` and its `Increment`. `ClockUpdate` increments the
pointer `hit_count_sum` and not what it points to; `NextDelta` says what follows.

A thread makes the calls of its `Workload`, each once, in any order, and holds at
most one handle, for as long as it likes. A call is an operation and a handle with a
key of `Keys` and a value of `Values` (`ClientAssumption`). The state stops changing when the
workload is done and the destructor has run, so deadlock is not checked in the
runs of this module.

### LRUCache

`Get` and `Insert` hold the mutex of their shard, so each is one action. Sizes are
computed modulo `SizeMod`, as `size_t` is. `undefined` is the set of kinds of undefined
behaviour the calls have had. The evict loops read the `del_cb` and the charge of a
node after `pop_back` has freed it, on every eviction (`cache_shard.h:110-111`,
`122-123`): `ReadsPopped` records `"popped"`, and the model goes on with the values the
node had, which is what a build reads as long as nothing reuses the memory (see the
module comment). Any other use of freed memory, and the last entry of an empty list,
is `"lost"`, and the model stops there. `OnlyPoppedRead` says that the first kind is
the only one; no property says that it does not happen. Handles carry no `del_cb` in
the runs (`DelCb = FALSE`), as in both benchmarks; with one, the first eviction runs
it on a destroyed `shared_ptr`.

### AtomicSkipList

`node[n]` is a Node with its key, handle, hit count and words; `head_` and `tail_`
of list `l` are `HeadNode(l)` and `TailNode(l)`, with -1 and `MaxKey` for the two
ends of `int64_t`. A node is never reused. `frame[t]` is the operation thread `t`
is in: `Find` reads one word per step and continues at the label in `after`; an
operation returns to the label in `ret`, so that a cache operation can call it.
`Insert` returns at once without a handle (`StartInsert`); otherwise it is `Find`, then `UpdateHandle`, or `LinkBottom` / `LinkBottomFails` and
`LinkUpper` / `LinkUpperFails` for each level, then `InsertCount`. The new node is
private until the CAS of `LinkBottom`, so its construction is merged with it; the
moved handle is lost in `LinkBottomFails`, as in the code. `MarkDeleted` reads,
compares and swaps, takes the handle, and counts (`MarkRead`, `MarkCas`,
`MarkHandle`, `MarkCount`). `IterateLevel` reads a word and then the mark of the
node it leads to, and stops at `visit` for the function of its caller. A link
writes an unmarked word whatever the word it replaces was, so it clears the mark
of the node it links behind; the model does the same.

The calls are given as `Workloads`, sequences of calls with keys between those of the
sentinels and handles from `Handles`; a `LinkBottom` needs a node that is not yet
used (`MaxNodes` bounds TLC only).

On its own (`ListNext`) the list has threads that get, insert, look a node up to
mark it (as Evict does) and iterate, marking some nodes (as the decay thread does).

### HashSkipCache

`buckets[b]` is the number of a list, 0 for `nullptr`. Each list operation runs access
by access beside the operations of the other threads. `Load` and `Store` of a
bucket or a handle are atomic, which `asp` and `AtomicCell` justify. `low` is
`low_queue_` as a FIFO sequence (`q_safety`, `FifoQueue`) in which an entry whose
producer has not finished blocks `Pop`; `Size` is read at one instant. A `Push` may fail
when the queue is full, and also while a client that has popped may not have handed its
slot on (`queue.h:47`), which the model takes to last until its next step. A compaction
reads the number of marked nodes before that of all nodes; C++ leaves the order open,
and it decides only whether the bucket is copied now or later. `Init` may run
late: the constructor has already started the threads, and calls may come
first. The copy a compaction makes is private, so `CompactVisit` reads the handle
and inserts in one step. The hit counts 200, 100 and 1000 become 2, 1 and 2.
The old list of a swap is kept by the shared pointers of those who use it; its
destruction is not modelled. Sleeping is left out: a thread takes its next step
at any time.

## Runs

| Run | Shows |
| --- | --- |
| `asp` | 3 threads, 4 addresses, one value beside null, one thread that may stop for ever: `NoUseAfterFree`, `VersionCountsReaders`, `NoLeak`, `ImplementsCell` (the refinement of `AtomicCell`), and `OnlyWindowsBlock`: what a stopped call can block |
| `q_safety` | 3 threads, 2 values, ring of 2, 4 pushes: `NoDataRace`, `SizeBounds`, `ImplementsFifo` (the refinement of `FifoQueue`), and `FalseIsCurrent`: what a false of Push or Pop means |
| `q_progress` | `LockFree`, with one thread stopped anywhere |
| `clock_writer` | one writer, two readers of the key it updates and erases: `HeldIntact`, `RefExact`, `HitSound`, `CountersExact`, `DisplacementsExact`; together they give the assertions of the destructor |
| `clock_inserters` | two threads that insert four keys, evict and look up: `SlotOwned`, `CountersExact`, `CapacityRespected`, `LoadRespected` |
| `clock_returns` | a table of two slots: `CallsReturn`, with handles that may never be released; `CountersExact` and `DisplacementsExact` when an insert has found every slot taken |
| `clock_erase_race` | violated: `DestructorAsserts` |
| `clock_update` | violated: `UpdateSticks` |
| `lru_fixed` | 6 keys with fixed charges on 2 shards: `OnlyPoppedRead`, `UsageExact`, `ShardBounded`, `LeastRecentlyUsed` |
| `asl` | two levels, two keys, three threads: `Ordered`, `Chained`, `CountExact`, `IterationComplete`, `CallsReturn` |
| `asl_lost` | violated: `NodeHasHandle` |
| `hsc` | a client, the decay and the compaction thread on one bucket: `MemoryCovers`, `SwapComplete`, `StopJoins`, `ClientsReturn` |

**Bounds.** Three threads make a pair that interacts and a third that disturbs
it. Four addresses for three threads let every thread hold a cell beside the
published one. `VersionMod` is one more than the number of threads, the tightest
value the comment on `Load` allows. The clock tables have four slots with two
keys that start at the same slot and part after it, and a capacity and a load
limit that the workload exceeds. In `clock_writer` hit counters start at their
maximum of 3, so every lookup corrects unless the clock has aged the entry, and a
sweep of four rounds ages and evicts; three counter bits and a maximum of 3 are the
least that two readers need (`CountersWide`, below).
`clock_inserters` gives keys charges 1, 2, 1 and 4 with capacity 4, so that an
eviction frees too much, exactly enough, and too little. `lru_fixed` has a key
that fills a shard by itself. `clock_returns` has `load_factor` 1, the largest
sensible option; two slots are enough for an insert to see one taken before
the other is freed; its calls are inserts and lookups, so the retry of an Erase that
loses its CAS (`EraseOwn`) is not part of what `CallsReturn` shows. In `lru_fixed` a key keeps its charge, as in the
benchmarks.

`asl` starts from one of four workloads: three threads that insert neighbours
and one key while one of them iterates, in two arrangements; a marker and
reader beside inserts, one of which has no handle; a marker and an iteration on one node beside inserts. Two
levels are enough for an upper link to be stale. `VersionMod` is 1: words never
lead back to an earlier node, so the list has to be right without versions.
`hsc` gives the client an update, two keys of the one bucket, a hit, or an Insert without
a handle, with room
for one entry and one cold key, so that inserts evict and a push finds the queue
full. Two visits of the decay thread delete an entry. `ListNum = 2` bounds the
compactions that swap to one; it can take an empty bucket or one with dead nodes. Levels are
left to `asl` (`MaxLevel = 0`).

**Fairness.** Progress properties assume weak fairness of the steps of a thread
that is inside a call: the scheduler runs it. No client has to start a call or
release a handle. `q_progress` and `asp` take fairness away from one
thread, which may stop anywhere; spurious failures of a weak CAS are left out of
`q_progress`, since finitely many change nothing. In `hsc` the decay and the
compaction thread are run for as long as they have work; that the client's
Evict ends depends on it. Weak fairness on retry loops is enough because
a failed CAS means that another call has moved.

**Memory model.** All steps are sequentially consistent. The code's acquire and
release orders pair up where data is handed over; reorderings that relaxed
counters would allow on weaker hardware are not modelled.

## What the checks found

* `Load` is called lock-free, and spins while a store is between mark and publish.
  `OnlyWindowsBlock` states this exception and the mirrored one.
* `Pop` answers empty while a value waits behind a producer that has not finished,
  `Push` full while a consumer has not handed its slot on. `FalseIsCurrent` says
  that these are the only wrong answers.
* `Size` reads two counters at two instants. With `tail_` read first it may report more
  than the capacity, by what was popped between the two loads; with `head_` read first
  it may report less than the queue holds, down to the zero it is cut off at.
  `SizeBounds` states both.
* `ClockCache::Erase` returns a reference that the owner of the slot has already
  wiped. One concurrent Insert and Erase of a key leave a reference counter at
  2^30 - 1: the entry can no longer be evicted, until a lookup brings the counter
  to zero and makes an entry evictable that is in use. On a slot that an eviction
  has just emptied the same decrement borrows from the state bits, and the slot
  turns visible with a freed entry. The passing runs of ClockCache therefore
  never have an erase (or an update, which erases) beside another thread's insert.
* A Lookup takes back all the hits it sees above the maximum, so lookups that overlap
  take the same hits back more than once. With the maximum of 2000, 64 threads that find
  one saturated entry at the same time would take back 64 * 65 / 2 = 2080 hits from
  2064, and the counter would borrow from the bits above it. The proof asks for the
  square of the number of readers to be at most `kMaxHitCount + 1`: 44 of them are safe.
* `ClockCache::Insert` may store a key a second time in front of its old entry,
  and the old value returns when the new one is evicted.
* The evict loops of the LRU shard read `last.second` after `pop_back` has freed the node,
  on every eviction. `lru_fixed` records it (`"popped"`).
* The LRU shard does not adjust `usage_` on an update: with charges that vary, the
  entries outgrow the capacity, and an eviction during the update may free the
  handle it is about to use.
* `AtomicSkipList::Insert` loses its value when its first CAS fails, because it has
  moved the handle into the node it then deletes (`asl_lost`). The cache still
  adds the charge.
* A link clears the mark of the node it links behind. The node comes back without a
  handle; if an update stored one into the marked node, that value becomes
  visible. The comment in `Node::MarkDeleted` that only one thread gets past the
  CAS does not hold.
* A compaction drops what is inserted or updated in the old list while it copies.
  `SwapComplete` says that it drops nothing else: when the copy takes the place of
  the bucket it has the same for every key that did not change meanwhile. A key
  also changes when Insert stores a handle into its deleted node, although no Get
  can see it. The decay thread marks a node and takes its handle, a link behind the
  node clears the mark, the iteration passes the check of the mark, the decay
  thread marks the node again and an Insert of its key updates it: the compaction
  then copies a value that no Get of the old bucket would have found, and it becomes
  visible with the swap. The proof of `CompactionComplete` met this case; an instance
  with three inserts shows it.
* After a swap `memory_used_` may be too low: a node of the old list that decays after
  it was copied is subtracted once for itself and once for its copy. `Evict` adds
  what it frees, returns true when it has freed too little, and marks nodes without
  counting them, so that compaction does not notice them.
* The ratio of an empty bucket is NaN, so empty buckets are always compacted.
* Every LRU shard gets the whole capacity: `per_shard_capacity` is computed and
  not used. `ShardCapacity` follows the code; no run is spent on it.

## Proofs

All theorems hold for every value of the constants that the named assumptions
allow: any number of addresses, values, keys, levels, a ring of any size, and any number
of threads, limited by the version field for AtomicSharedPtr and by `CountersWide` for
ClockCache. The bounds that TLC needs (`MaxPush`, `MaxNodes`, `ListNum`) are constants
without an upper limit here.

### AtomicSharedPtr

From `NullAssumption` and `ConcurrencyAssumption` (fewer threads than versions, as
the comment on `Load` demands): `TypeCorrect`, `MemorySafe` (`NoUseAfterFree`),
`VersionExact` (`VersionCountsReaders`), `LeakFree` (`NoLeak`) and `Linearizable`
(`ImplementsCell`).

`TypeOK` says besides the types that no CAS expects a marked word: both loops take the
mark off what they have read, or a load would get past a store in its window.
The inductive invariant adds that the mark is a lock (the
word is marked while a store is about to publish, and only one is), that a marked
word has version 0, that a load about to copy has the published address, and that
the cells owned by running stores are allocated, distinct and not published.
`NoUseAfterFree` alone does not say why no store frees what a load copies.
The version is tied to the cardinality of the set of readers; lemmas about
adding and removing one reader and about arithmetic modulo `VersionMod` carry
the two CASes. `LeakFree` adds that every allocated cell has an owner. The
refinement takes a load to happen at its acquiring CAS and a store at its publication.

### Queue

From `CapicityAssumption` and `NilAssumption`: `TypeCorrect`, `RaceFree`
(`NoDataRace`), `RingInvariance`, `SizeBounded` (`SizeBounds`), `FalseAnswers`
(`FalseIsCurrent`) and `FirstInFirstOut` (`ImplementsFifo`).

The inductive invariant says what the `seq` of a slot is while a producer or a
consumer owns a position in it, that this `seq` already stands when a CAS can still
succeed (so the value read before the CAS is not stale), that positions read never
run ahead of their counter, and that a position is taken once on each side. Two
owners of one slot would need two values of its `seq`. `RingInvariance` adds the lap
every slot is on; the bounds of `Size` for either order of its loads, the meaning of a false answer and the
refinement rest on it. The arithmetic of slots is in lemmas.

### AtomicSkipList

From `ListAssumption` and `ClientAssumption` (the keys of the calls lie strictly
between those of `head_` and `tail_`; that Insert accepts the key of `tail_` is a
listed hazard): `ListInvariance`, `TypeCorrect` (`ListTypeOK`), `ListsOrdered`
(`Ordered`), `KeysLinkedOnce` and, in `AtomicSkipListCounts`, `NodesCounted`
(`CountExact`), `NoNodeLost` (`Chained`) and `NothingPassedOver` (`IterationComplete`).

The inductive invariant has a part about the lists and one about the operations
under way. The lists: words lead to nodes of the same list with larger keys, the
tail ends every level, level 0 has no gaps (no linked node has a key between a
node and its successor), and no two linked nodes share a key. The operations:
what a `Find` has read so far was once true and stays good, because lists only
grow: a predecessor keeps a smaller key than the one looked for, a successor a key
not smaller, and a `Find` that has met its key on an upper level meets it again
at level 0. So when the CAS of `LinkBottom` succeeds, its successor is still the
neighbour of its predecessor at level 0, and the new key fits between them and is
in the list nowhere else. `VersionMod` may be 1: none of this needs the versions.

`NothingPassedOver` is about the specification with the history variable of
`ListHistory`. Its invariant (`DueInv`) says that every node an iteration still owes is
linked and unmarked and has a larger key than the node the iteration comes from, and
no smaller one than the node it has reached. The step from a node to the one behind it keeps this because
level 0 has no gaps: a node that is owed cannot lie between the two.

### ClockCache

From `TableAssumption`, `CounterAssumption` and `ClientAssumption`, for every table,
every workload and every number of threads that satisfies `CountersWide` (the
counters are wide enough for all threads; with the constants of the code that is 44
readers): `ClockInvariance`, `SlotsOwned`
(`SlotOwned`), `HandlesIntact` (`HeldIntact`), `ReferencesExact` (`RefExact`) and
`HitsSound` (`HitSound`).

These theorems have two premises about the behaviour. `NoEraseRace`: no Erase has its
reference on a slot that another call owns. This is the race `clock_erase_race`
exhibits, and the theorems say that it is the only one: everything else that
inserts, evictions, erasures and lookups do to a slot at the same time is safe.
`NoCarry`: the references that probes leave on a vacant slot are wiped before they
carry into the state bits, which takes 2^61 of them in the code. `SingleWriterSafe`
proves `NoEraseRace` for workloads in which one thread inserts and erases
(`SingleWriter`); `clock_writer` is such an instance.

The hit bit of the word (`kHitBitMask`), which the code reserves and carries along when
the clock ages or takes an entry (`MetaAfter`), is never set: that is part of `HitSound`.

The meta word is one number and the code adds to it as a whole, so the proof starts
with the arithmetic of its fields: adding one to a counter that has room changes no
other field, adding to the word of a vacant slot changes nothing above the counters.
The inductive invariant then says of a slot with an entry that its reference counter
is the number of handles and probes, that its hit counter has enough to pay for all
corrections under way, and that its key is a key; of a slot without one, that nobody
holds it and that only an Erase about to leave has a reference there, which its low
bits still contain; and of a slot under construction that it has an owner. `RefExact`
alone is not inductive: a CAS that takes a slot relies on the counter being exact at
that instant, and the counter stays exact because a slot that is published again
starts at zero with nobody left on it. That last fact is where `NoEraseRace` is needed.

`ClockCacheCounts` proves, under the same premises, `CountersAreExact` (`CountersExact`),
`CapacityIsRespected` (`CapacityRespected`), `LoadIsRespected` (`LoadRespected`),
`DisplacementsAreExact` (`DisplacementsExact`), `TypeCorrect` (`TypeOK`: nothing unsigned
runs below zero) and `DestructorHolds` (`DestructorAsserts`, which `clock_erase_race`
violates: without the race it holds). `SingleWriterExact` has all of them for one writer
and the readers `CountersWide` allows, without `NoEraseRace`.

A sum over the threads or the slots is the cardinality of a set of units (`Total`), so
one changed term changes it by that term, and no induction is needed. Every action is
shown to change `usage_` by the change of its stored charge and of what its own thread
owes. For this a frame has to say more than `OwedUsage` reads (`FrameInv`): what Evict
has reserved and what it still needs make up the charge of the call; an insert above
the load factor goes on only after it has emptied a slot. `LoadRespected` is not
inductive: it becomes so when the inserts that may still fill a slot (`Placing`) are
counted with the stored entries. A call whose occupancy was within the limit when it
was counted finds room for itself and for all of them.

The displacements rest on the probe: as a probe visits every slot (`TableAssumption`)
it visits none twice, so the slots before the next one are those before this one and
this one. `Way` is where a running call is counted: the slots before its own, or those
its rollback has still to reach. An entry that is published or taken out hands its
displacements from the call to the table or back. `PathInv` says what keeps this
consistent across calls: an Erase that owns a slot has found its own key there, a
rollback has not passed the slot it ends at, and Evict runs before the probe begins.

### LRUCache

From `OptionsAssumption`: `ShardsConsistent` (in every shard the map has exactly the
keys of the list, each once), `TypesHold` (`TypeOK`) and `RecencyKept`
(`LeastRecentlyUsed`), for all options and handles of any charge. With keys that keep
their charge (`FixedCharges`) and options for which `usage_ + need_charge` cannot wrap
around (`NoWrap`): `AccountsHold`, `ShardsBounded` (`ShardBounded`) and, in a cache with
a capacity, `UsageIsExact` (`UsageExact`). If moreover every charge fits a shard
(`ChargesFit`) and the handles have no `del_cb`: `OnlyPoppedNodesRead`
(`OnlyPoppedRead`): the read of the node just popped is the only undefined behaviour.
The premises are the ones under which the code is right: charges that vary (above), a handle larger than the capacity, for which `EvictForCharge` pops
from an empty list, and the deleter that runs on a freed node break them.
`lru_fixed` satisfies all of them.

The inductive invariant says that the keys of a list are different and those of the
map, that `usage_` is the charge of the list as a `size_t`, and that both limits are
kept; for `RecencyKept`, that the list begins the history of uses, which has no key
twice. The charge of a list is a recursive function. Its partial sums are shown to
exist and to be unique by looking at the least index where they would fail, and what
a new head, a removal and an eviction do to the charge follows by giving the partial
sums of the new list.

### HashSkipCache

From the assumptions of the lists and `CacheAssumption`, for any number of clients,
buckets, keys, levels and compactions: `CacheInvariance`, `CacheTypeCorrect`
(`CacheTypeOK`), `CacheListsOrdered` (`Ordered` and `KeysUnique` for the lists of the
cache, those of past and coming compactions included), `MemoryAccounted`
(`MemoryCovers`) and, with the history variable of `CacheHistory`, `CompactionComplete`
(`SwapComplete`).

The inductive invariant (`CInv`) takes the invariant of the lists from
`AtomicSkipListProofs`. The lemmas about the steps of a list operation are stated there
for any frame and hold for the frames of the cache too, so what remains is that the cache goes on with
good frames: every label it returns to finds the node, the list and the locals it needs
(`CallsInv`). One step of the cache links a node by itself, the copying of a node by a
compaction. It is right for two reasons. Nobody else has the list it fills: a list that no
bucket has had yet is in no frame and no call (`Apart`), which depends on Get, Insert,
Evict and decay loading a bucket once. And the new key is larger than all keys of
the copy: they are the keys the iteration is past (`Copied`), and an iteration meets keys in
rising order.

`MemoryCovers` compares `memory_used_` with what the nodes hold and what threads have in
their hands, all as sums. A step changes the debts of one thread and the handle of at most
one node. `MInv` adds what an Insert knows of its own charge: it is that of the handle it
has, or has lost, until the node is linked. With this each action balances: a handle taken out of a node by
`MarkHandle` or replaced by `UpdateHandle` is in the hands of that thread when it leaves the
node, so no other thread gives it back a second time, also when a cleared mark lets two
threads past the CAS of `MarkDeleted`. `LinkBottomFails`, which loses the handle, and
`Evicted`, which adds what it should subtract, only leave `memory_used_` too high. The
statement ends at the first swap because it is false after it (see above).

`SwapInv` is the invariant of a compaction under way: for the keys the iteration is past, the
copy has what the bucket has, and at `visit` the node it is about to copy holds what Get
returns for its key; both for keys that have not changed. The steps of other threads are
in the history variable, or leave the key as it is; they cannot reach the copy (`Apart`).
A step of the iteration adds the keys between two neighbours, of which neither
list has any (`Gapless`), or the key of a marked node, for which both have nothing. `CompactVisit`
adds the key of its node. At the end the iteration is past the tail, so past all keys.

### What stays with TLC

The progress properties (`LockFree`, `OnlyWindowsBlock`, `CallsReturn`, `StopJoins`,
`ClientsReturn`): liveness is out of reach of the prover. Every invariant and refinement
that a run checks is also proved.

## Not modelled

The instance of `HashSkipCache` that TLC checks has one client and one bucket. The proofs
cover any number of both for the invariants; `StopJoins` and `ClientsReturn` are checked on that
instance only.

Left out: the arithmetic of the options of ClockCache and of a probe whose length is
no power of two; `util/skiplist.h`, a sequential skip list that nothing uses;
the destructor and `DebugPrint` of AtomicSkipList; `clock/cache.cc`, which only
routes calls; hashing and random numbers, which enter as constants; getters that read counters without synchronisation; destructors of
AtomicSharedPtr and LRUCache, which run when nothing else does; benchmarks.
