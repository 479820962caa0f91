--------------------------- MODULE HashSkipCache ---------------------------
(***************************************************************************)
(* hash_skip::HashSkipCache: buckets that are AtomicSkipLists, client      *)
(* threads that get, insert and evict, a decay thread that ages entries    *)
(* and queues or deletes the cold ones, and a compaction thread that       *)
(* replaces a bucket by a copy without its deleted nodes.                  *)
(*                                                                         *)
(* A bucket pointer is an AtomicSharedPtr, whose Load and Store are atomic *)
(* (AtomicCell).  low_queue_ is a FIFO queue (FifoQueue) in which an entry *)
(* can be popped once its producer has published it (Queue); its Size is   *)
(* read at one instant.  The threads do not sleep for a given time.  List  *)
(* operations run access by access in frame[t], and come back to the label *)
(* that frame[t].ret names.  call[t] holds the locals of the cache.        *)
(***************************************************************************)
EXTENDS AtomicSkipList, Sums

CONSTANTS
  Decayer, Compactor,  \* decay_thread_ and compact_thread_
  BucketNum,           \* buckets_.size()
  Capicity,            \* capicity_
  LowCapacity,         \* low_queue_: 10000 entries
  Delta,               \* what a decay takes from a hit count: 100
  ColdLimit            \* a hit count up to this one is cold: 100

ASSUME CacheAssumption ==
  /\ {Decayer, Compactor} \subseteq Threads /\ Decayer # Compactor
  /\ BucketNum \in 1 .. ListNum
  /\ {Capicity, LowCapacity, Delta, ColdLimit} \subseteq Nat

VARIABLES
  buckets,      \* buckets_[b]: the list, 0 for nullptr
  gen,          \* buckets_gen_[b]
  low,          \* low_queue_
  memory_used,  \* memory_used_
  stop,         \* stop_
  call          \* call[t]: what t keeps over the calls of a list

ownVars == <<buckets, gen, low, memory_used, stop, call>>
cacheVars == <<listVars, ownVars>>

Buckets == 0 .. BucketNum - 1
Clients == Threads \ {Decayer, Compactor}
BucketOf(k) == k % BucketNum

NoCall == [key |-> 0, h |-> None, charge |-> 0, list |-> 0,        \* Insert
           need |-> 0, entry |-> <<>>,                             \* Evict, Decay
           index |-> 0, marked |-> 0, new |-> 0]                   \* the two threads

CacheInit == /\ ListInit
             /\ buckets = [b \in Buckets |-> 0]
             /\ gen = [b \in Buckets |-> 0]
             /\ low = <<>>
             /\ memory_used = 0
             /\ stop = FALSE
             /\ call = [t \in Threads |-> NoCall]

\* Init() fills the buckets one after the other, with lists of their own.
InitBucket ==
  /\ \E b \in Buckets :
       /\ buckets[b] = 0
       /\ \A a \in Buckets : a < b => buckets[a] # 0
       /\ buckets' = [buckets EXCEPT ![b] = b + 1]
  /\ UNCHANGED <<listVars, gen, low, memory_used, stop, call>>

On(l) == [Idle EXCEPT !.list = l]
SetCall(t, c) == call' = [call EXCEPT ![t] = c]
-----------------------------------------------------------------------------
(***************************************************************************)
(* Get and Insert.  Both load the bucket once and keep that list.          *)
(***************************************************************************)
Get(t) ==
  /\ Take(t, "get")
  /\ LET l == buckets[BucketOf(Call(t).key)]
     IN  SetFrame(t, IF l = 0 THEN Idle ELSE Find(On(l), Call(t).key, "getFor"))
  /\ UNCHANGED <<node, counts, ownVars>>

Insert(t) ==
  /\ Take(t, "insert")
  /\ LET c == Call(t)
         l == buckets[BucketOf(c.key)]
     IN \/ l = 0 /\ UNCHANGED <<frame, call>>
        \/ /\ l # 0
           /\ Goto(t, "insertCheck")
           /\ SetCall(t, [NoCall EXCEPT !.key = c.key, !.h = c.h, !.charge = Charge(c.h),
                                        !.list = l])
  /\ UNCHANGED <<node, counts, buckets, gen, low, memory_used, stop>>

\* bucket->Insert(key, handle), in the bucket that was loaded at the start.
ListInsert(c) == StartInsert([On(c.list) EXCEPT !.h = c.h, !.ret = "inserted"], c.key)

InsertCheck(t) ==
  /\ At(t, "insertCheck")
  /\ LET c == call[t]
     IN \/ /\ memory_used + c.charge > Capicity
           /\ Goto(t, "evict")
           /\ SetCall(t, [c EXCEPT !.need = c.charge])
        \/ /\ memory_used + c.charge <= Capicity
           /\ SetFrame(t, ListInsert(c))
           /\ UNCHANGED call
  /\ UNCHANGED <<node, counts, todo, buckets, gen, low, memory_used, stop>>

\* Mutation: an update gives back the old charge and does not add the new one.
InsertedMutant(t) ==
  /\ At(t, "inserted")
  /\ memory_used' = IF frame[t].h = None THEN memory_used + call[t].charge
                    ELSE memory_used - Charge(frame[t].h)
  /\ SetFrame(t, Idle)
  /\ SetCall(t, NoCall)
  /\ UNCHANGED <<node, counts, todo, buckets, gen, low, stop>>

Inserted(t) ==
  /\ At(t, "inserted")
  /\ memory_used' = memory_used + call[t].charge - Charge(frame[t].h)
  /\ SetFrame(t, Idle)
  /\ SetCall(t, NoCall)
  /\ UNCHANGED <<node, counts, todo, buckets, gen, low, stop>>
-----------------------------------------------------------------------------
(***************************************************************************)
(* Evict: pop cold keys until enough is free or the queue is empty; it     *)
(* succeeds either way.                                                    *)
(***************************************************************************)
EvictSize(t) ==
  /\ At(t, "evict")
  /\ \/ /\ call[t].need > 0 /\ Len(low) > 0
        /\ Goto(t, "evictPop")
     \/ /\ call[t].need <= 0 \/ Len(low) = 0
        /\ SetFrame(t, ListInsert(call[t]))
  /\ UNCHANGED <<node, counts, todo, ownVars>>

EvictPop(t) ==
  /\ At(t, "evictPop")
  /\ \/ /\ low = <<>> \/ ~Head(low).ready
        /\ Goto(t, "evict")
        /\ UNCHANGED <<low, call>>
     \/ /\ low # <<>> /\ Head(low).ready
        /\ low' = Tail(low)
        /\ SetCall(t, [call[t] EXCEPT !.entry = Head(low)])
        /\ Goto(t, "evictGen")
  /\ UNCHANGED <<node, counts, todo, buckets, gen, memory_used, stop>>

EvictGen(t) ==
  /\ At(t, "evictGen")
  /\ Goto(t, IF call[t].entry.gen = gen[call[t].entry.bucket] THEN "evictLoad" ELSE "evict")
  /\ UNCHANGED <<node, counts, todo, ownVars>>

\* The bucket may have been replaced since its generation was read.
EvictLoad(t) ==
  /\ At(t, "evictLoad")
  /\ LET l == buckets[call[t].entry.bucket]
     IN  SetFrame(t, IF l = 0 THEN [Idle EXCEPT !.pc = "evict"]
                     ELSE Find([On(l) EXCEPT !.ret = "evictNode"], call[t].entry.key, "getNode"))
  /\ SetCall(t, [call[t] EXCEPT !.entry = <<>>])
  /\ UNCHANGED <<node, counts, todo, buckets, gen, low, memory_used, stop>>

EvictNode(t) ==
  /\ At(t, "evictNode")
  /\ SetFrame(t, IF frame[t].n = 0 THEN [Idle EXCEPT !.pc = "evict"]
                 ELSE MarkDeleted(frame[t], frame[t].n, FALSE, "evicted"))
  /\ UNCHANGED <<node, counts, todo, ownVars>>

\* The freed charge is added to memory_used_.
Evicted(t) ==
  /\ At(t, "evicted")
  /\ memory_used' = memory_used + frame[t].charge
  /\ SetCall(t, [call[t] EXCEPT !.need = @ - frame[t].charge])
  /\ SetFrame(t, [Idle EXCEPT !.pc = "evict"])
  /\ UNCHANGED <<node, counts, todo, buckets, gen, low, stop>>

Client(t) == \/ InsertCheck(t) \/ Inserted(t)
             \/ EvictSize(t) \/ EvictPop(t) \/ EvictGen(t) \/ EvictLoad(t) \/ EvictNode(t)
             \/ Evicted(t)
-----------------------------------------------------------------------------
(***************************************************************************)
(* The decay thread.  It sleeps while there is nothing to do.              *)
(***************************************************************************)
\* Mutation: the index does not go back to the first bucket.
NextIndexMutant(t) == SetCall(t, [NoCall EXCEPT !.index = call[t].index + 1])
NextIndex(t) == SetCall(t, [NoCall EXCEPT !.index = (call[t].index + 1) % BucketNum])

ShouldDecay == 10 * memory_used > 7 * Capicity \/ 10 * Len(low) < 7 * LowCapacity

\* Mutation: stop_ is looked at only when there is nothing to decay.
DecayCheckMutant(t) ==
  /\ At(t, "idle")
  /\ \/ stop /\ ~ShouldDecay /\ Goto(t, "exited")
     \/ ShouldDecay /\ Goto(t, "decayLoad")
  /\ UNCHANGED <<node, counts, todo, ownVars>>

DecayCheck(t) ==
  /\ At(t, "idle")
  /\ \/ stop /\ Goto(t, "exited")
     \/ ~stop /\ ShouldDecay /\ Goto(t, "decayLoad")
  /\ UNCHANGED <<node, counts, todo, ownVars>>

DecayLoad(t) ==
  /\ At(t, "decayLoad")
  /\ LET l == buckets[call[t].index]
     IN \/ /\ l = 0
           /\ SetFrame(t, Idle)
           /\ NextIndex(t)
        \/ /\ l # 0
           /\ SetFrame(t, IterateLevel(On(l), "decayEnd"))
           /\ UNCHANGED call
  /\ UNCHANGED <<node, counts, todo, buckets, gen, low, memory_used, stop>>

DecayVisit(t) ==
  /\ At(t, "visit")
  /\ LET f == frame[t]
         hit == DecrHitCount(node[f.n].hit, Delta)
     IN  /\ node' = [node EXCEPT ![f.n].hit = hit]
         /\ \/ hit > ColdLimit /\ SetFrame(t, IterateOn(f))
            \/ hit \in 1 .. ColdLimit /\ Goto(t, "decayGen")
            \/ hit = 0 /\ SetFrame(t, MarkDeleted(f, f.n, TRUE, "decayed"))
  /\ UNCHANGED <<counts, todo, ownVars>>

DecayGen(t) ==
  /\ At(t, "decayGen")
  /\ LET b == call[t].index
     IN  SetCall(t, [call[t] EXCEPT !.entry = [bucket |-> b, gen |-> gen[b], ready |-> FALSE,
                                               key |-> node[frame[t].n].key]])
  /\ Goto(t, "decayPush")
  /\ UNCHANGED <<node, counts, todo, buckets, gen, low, memory_used, stop>>

\* Push takes a position, or fails when the queue is full or may still hold
\* the slot of an entry that has been popped and not handed on yet.
DecayPush(t) ==
  /\ At(t, "decayPush")
  /\ \/ /\ Len(low) < LowCapacity
        /\ low' = Append(low, call[t].entry)
        /\ Goto(t, "decayPublish")
     \/ /\ Len(low) >= LowCapacity \/ \E u \in Clients : At(u, "evictGen")
        /\ SetFrame(t, IterateOn(frame[t]))
        /\ UNCHANGED low
  /\ SetCall(t, [call[t] EXCEPT !.entry = <<>>])
  /\ UNCHANGED <<node, counts, todo, buckets, gen, memory_used, stop>>

\* Mutation: the entry is never published.
DecayPublishMutant(t) ==
  /\ At(t, "decayPublish")
  /\ SetFrame(t, IterateOn(frame[t]))
  /\ UNCHANGED <<node, counts, todo, ownVars>>

DecayPublish(t) ==
  /\ At(t, "decayPublish")
  /\ low' = [low EXCEPT ![Len(low)].ready = TRUE]
  /\ SetFrame(t, IterateOn(frame[t]))
  /\ UNCHANGED <<node, counts, todo, buckets, gen, memory_used, stop, call>>

Decayed(t) ==
  /\ At(t, "decayed")
  /\ memory_used' = memory_used - frame[t].charge
  /\ SetFrame(t, IterateOn(frame[t]))
  /\ UNCHANGED <<node, counts, todo, buckets, gen, low, stop, call>>

DecayEnd(t) ==
  /\ At(t, "decayEnd")
  /\ SetFrame(t, Idle)
  /\ NextIndex(t)
  /\ UNCHANGED <<node, counts, todo, buckets, gen, low, memory_used, stop>>

Decay(t) == \/ DecayCheck(t) \/ DecayLoad(t) \/ DecayVisit(t) \/ DecayGen(t) \/ DecayPush(t)
            \/ DecayPublish(t) \/ Decayed(t) \/ DecayEnd(t)
-----------------------------------------------------------------------------
(***************************************************************************)
(* The compaction thread.                                                  *)
(***************************************************************************)
Unused == {l \in Lists : l > BucketNum /\ \A b \in Buckets : buckets[b] < l}

\* Bound: a compaction begins while there is a list left for its copy.
CompactCheck(t) ==
  /\ At(t, "idle")
  /\ \/ /\ stop
        /\ Goto(t, "exited")
        /\ UNCHANGED call
     \/ /\ ~stop /\ Unused # {} /\ buckets[call[t].index] = 0
        /\ NextIndex(t)
        /\ UNCHANGED frame
     \/ /\ ~stop /\ Unused # {} /\ buckets[call[t].index] # 0
        /\ SetFrame(t, [On(buckets[call[t].index]) EXCEPT !.pc = "compactMarked"])
        /\ UNCHANGED call
  /\ UNCHANGED <<node, counts, todo, buckets, gen, low, memory_used, stop>>

\* C++ leaves the order of the two reads open.  It decides only whether the
\* bucket is copied now or in a later round.
CompactMarked(t) ==
  /\ At(t, "compactMarked")
  /\ SetCall(t, [call[t] EXCEPT !.marked = counts[frame[t].list].marked])
  /\ Goto(t, "compactNodes")
  /\ UNCHANGED <<node, counts, todo, buckets, gen, low, memory_used, stop>>

\* marked / nodes < 0.3.  Without a node the quotient is NaN or infinite,
\* and the comparison false.
TooFewMarked(marked, nodes) == nodes # 0 /\ 10 * marked < 3 * nodes

CompactNodes(t) ==
  /\ At(t, "compactNodes")
  /\ LET few == TooFewMarked(call[t].marked, counts[frame[t].list].nodes)
     IN \/ /\ few
           /\ SetFrame(t, Idle)
           /\ NextIndex(t)
        \/ /\ ~few
           /\ SetFrame(t, IterateLevel(frame[t], "compactSwap"))
           /\ SetCall(t, [call[t] EXCEPT !.marked = 0, !.new = CHOOSE l \in Unused : TRUE])
  /\ UNCHANGED <<node, counts, todo, buckets, gen, low, memory_used, stop>>

\* Insert into a list that no other thread knows, behind all its nodes.
\* Bound: there is a node.
AppendNode(l, k, h) ==
  \E top \in RandomLevel :
    /\ \E n \in Nodes : node[n].list = 0
    /\ node' = [m \in AllNodes |->
         IF m = Fresh
         THEN NewNode(l, k, h, [i \in Levels |-> IF i > top THEN NullWord
                                                 ELSE PackPtr(TailNode(l), 0, FALSE)])
         ELSE [node[m] EXCEPT !.nexts = [i \in Levels |->
                 IF i <= top /\ @[i].to = TailNode(l) THEN LinkWord(@[i], Fresh) ELSE @[i]]]]
    /\ counts' = [counts EXCEPT ![l].nodes = @ + 1]

\* Mutation: entries that are about to be evicted are not copied.
CompactVisitMutant(t) ==
  /\ At(t, "visit")
  /\ LET n == node[frame[t].n]
     IN \/ (n.handle = None \/ n.hit <= ColdLimit) /\ UNCHANGED <<node, counts>>
        \/ n.handle # None /\ n.hit > ColdLimit /\ AppendNode(call[t].new, n.key, n.handle)
  /\ SetFrame(t, IterateOn(frame[t]))
  /\ UNCHANGED <<todo, ownVars>>

\* A node without a handle is not copied: Insert refuses it.
CompactVisit(t) ==
  /\ At(t, "visit")
  /\ LET n == node[frame[t].n]
     IN \/ n.handle = None /\ UNCHANGED <<node, counts>>
        \/ n.handle # None /\ AppendNode(call[t].new, n.key, n.handle)
  /\ SetFrame(t, IterateOn(frame[t]))
  /\ UNCHANGED <<todo, ownVars>>

CompactSwap(t) ==
  /\ At(t, "compactSwap")
  /\ buckets' = [buckets EXCEPT ![call[t].index] = call[t].new]
  /\ Goto(t, "compactGen")
  /\ UNCHANGED <<node, counts, todo, gen, low, memory_used, stop, call>>

CompactGen(t) ==
  /\ At(t, "compactGen")
  /\ gen' = [gen EXCEPT ![call[t].index] = @ + 1]
  /\ SetFrame(t, Idle)
  /\ NextIndex(t)
  /\ UNCHANGED <<node, counts, todo, buckets, low, memory_used, stop>>

Compact(t) == \/ CompactCheck(t) \/ CompactMarked(t) \/ CompactNodes(t) \/ CompactVisit(t)
              \/ CompactSwap(t) \/ CompactGen(t)
-----------------------------------------------------------------------------
\* The destructor, which its owner runs when no call is under way, tells the
\* two threads to stop and waits for them.
Destroy ==
  /\ ~stop
  /\ \A t \in Clients : At(t, "idle") /\ todo[t] = <<>>
  /\ stop' = TRUE
  /\ UNCHANGED <<listVars, buckets, gen, low, memory_used, call>>

CacheStep(t) == \/ ListStep(t) /\ UNCHANGED ownVars
                \/ t \in Clients /\ Client(t)
                \/ t = Decayer /\ Decay(t)
                \/ t = Compactor /\ Compact(t)

CacheNext == \/ InitBucket \/ Destroy
             \/ \E t \in Clients : Get(t) \/ Insert(t)
             \/ \E t \in Threads : CacheStep(t)

CacheSpec == CacheInit /\ [][CacheNext]_cacheVars

\* The scheduler keeps running both threads and every client inside a call.
CacheFairness == \A t \in Threads : WF_cacheVars(CacheStep(t))
-----------------------------------------------------------------------------
Entries == [bucket : Buckets, gen : Nat, ready : BOOLEAN, key : 0 .. MaxKey - 1]

CacheTypeOK ==
  /\ ListTypeOK
  /\ buckets \in [Buckets -> 0 .. ListNum]
  /\ gen \in [Buckets -> Nat]
  /\ low \in Seq(Entries) /\ Len(low) <= LowCapacity
  /\ memory_used \in Int
  /\ \A t \in Threads : call[t].index \in Buckets /\ call[t].list \in 0 .. ListNum

\* What an Insert has put into its list and not added to memory_used_ yet.
Unadded(t) == IF At(t, "inserted") \/ frame[t].new # 0 THEN call[t].charge ELSE 0

\* What an Insert has replaced, or the decay thread has taken out, and not
\* subtracted yet.
Unsubtracted(t) == IF At(t, "inserted") THEN Charge(frame[t].h)
                   ELSE IF frame[t].pc \in {"markCount", "decayed"} THEN frame[t].charge ELSE 0

\* What node n holds, if it is in one of the lists of Init().
Held(n) == IF node[n].list \in 1 .. BucketNum THEN Charge(node[n].handle) ELSE 0

(***************************************************************************)
(* Until a bucket is replaced, memory_used_ never falls short of what the  *)
(* buckets hold, however Insert, decay and eviction of one node interleave *)
(* (each takes a handle out and accounts for it in two steps), and also    *)
(* when a mark is cleared by a link and the node marked again.             *)
(***************************************************************************)
MemoryCovers ==
  (\A b \in Buckets : buckets[b] \in {0, b + 1}) =>
    memory_used + Total([t \in Threads |-> Unadded(t)], Threads) >=
      Total([n \in Nodes |-> Held(n)], Nodes) + Total([t \in Threads |-> Unsubtracted(t)], Threads)

(***************************************************************************)
(* The destructor returns: the threads it joins notice stop_, whatever     *)
(* they are in the middle of.                                              *)
(***************************************************************************)
StopJoins == stop ~> At(Decayer, "exited") /\ At(Compactor, "exited")

(***************************************************************************)
(* Every call of a client returns.  Evict goes on popping while the queue  *)
(* is not empty, but can only take what the decay thread has published.    *)
(***************************************************************************)
ClientsReturn == \A t \in Clients : []<>At(t, "idle")
=============================================================================
