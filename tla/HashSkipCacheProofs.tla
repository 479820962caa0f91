------------------------ MODULE HashSkipCacheProofs ------------------------
(***************************************************************************)
(* Proofs about HashSkipCache, for any number of clients, buckets, keys,   *)
(* levels and compactions.                                                 *)
(*                                                                         *)
(* The lists keep the invariant of AtomicSkipListProofs: the steps of list *)
(* operations are steps of the list's own specification, and the cache     *)
(* only goes on with frames that are good (Moves).  The one other step     *)
(* that links, the copying of a node by a compaction, appends behind all   *)
(* nodes of a list that no other thread has (Apart): this rests on the     *)
(* order in which the iteration meets the keys (Copied).                   *)
(*                                                                         *)
(* memory_used_ covers the buckets because every charge that is not        *)
(* accounted for yet is in the hands of one thread (MInv): a step changes  *)
(* what one node holds, what its thread has in hand and memory_used_ by    *)
(* amounts that balance.                                                   *)
(*                                                                         *)
(* The copy a compaction stores is complete because it has, at every step, *)
(* what the bucket has for the keys the iteration is past (SwapInv), and   *)
(* the iteration is past all keys when it ends.                            *)
(***************************************************************************)
EXTENDS CacheHistory, AtomicSkipListProofs

CallRecords == [key : 0 .. MaxKey, h : Handles \cup {None}, charge : Nat, list : 0 .. ListNum,
                need : Int, entry : Entries \cup {<<>>}, index : Buckets, marked : Nat,
                new : 0 .. ListNum]

OwnType ==
  /\ buckets \in [Buckets -> 0 .. ListNum]
  /\ gen \in [Buckets -> Nat]
  /\ low \in Seq(Entries) /\ Len(low) <= LowCapacity
  /\ memory_used \in Int
  /\ call \in [Threads -> CallRecords]

\* Where an Insert still has its list to insert into.
EvictLabels == {"insertCheck", "evict", "evictPop", "evictGen", "evictLoad", "evictNode", "evicted"}

\* What a thread keeps over the calls of a list.
CallInv(f, c) ==
  /\ {f.pc, f.ret} \cap EvictLabels # {} => c.list \in Lists /\ c.key \in 0 .. MaxKey - 1
  /\ f.pc \in {"evictGen", "evictLoad", "decayPush"} => c.entry \in Entries
  /\ f.pc \in {"compactMarked", "compactNodes"} => f.list \in Lists

CallsInv == \A t \in Threads : CallInv(frame[t], call[t])

\* No thread has a list that is not in use, and only a compaction fills one.
Apart ==
  /\ \A t \in Threads : frame[t].list \notin Unused /\ call[t].list \notin Unused
  /\ \A l \in Unused : l # call[Compactor].new => Linked(l) = {}

CopyLabels == {"iterate", "iterateMarked", "visit"}
RestLabels == {"idle", "exited", "compactMarked", "compactNodes"}

\* Where the compaction thread is, in frame f with locals c.
CompactorInv(f, c) ==
  /\ f.pc \in CopyLabels \cup RestLabels \cup {"compactSwap", "compactGen"} /\ f.ret = "idle"
  /\ f.pc \in RestLabels => c.new = 0
  /\ f.pc \in {"compactMarked", "compactNodes"} => Unused # {}
  /\ f.pc \in CopyLabels => f.after = "compactSwap"
  /\ f.pc \in CopyLabels \cup {"compactSwap"} => c.new \in Unused
  /\ f.pc = "compactGen" => c.new \notin Unused

\* The copies have the keys the iteration is past, and are not deleted.
Copied(f, c) ==
  f.pc \in CopyLabels \cup {"compactSwap"} =>
    \A n \in Linked(c.new) :
      /\ ~IsMarked(n)
      /\ f.pc = "iterate" => node[n].key <= node[f.pred].key
      /\ f.pc \in {"iterateMarked", "visit"} => node[n].key < node[f.n].key

CInv == /\ LInv /\ OwnType /\ CallsInv /\ Apart
        /\ CompactorInv(frame[Compactor], call[Compactor])
        /\ Copied(frame[Compactor], call[Compactor])
-----------------------------------------------------------------------------
(***************************************************************************)
(* memory_used_: what an Insert has in its hands.                          *)
(***************************************************************************)
Inserting(f) == f.pc \in {"insert", "linkUp", "count"} \/ (f.pc = "find" /\ f.after \in {"insert", "linkUp"})

InsertInv(f, c) ==
  /\ c.charge = Charge(c.h)
  /\ Inserting(f) <=> f.ret = "inserted"
  /\ Inserting(f) /\ f.new = 0 => f.h \in {c.h, None}

MInv == (\A t \in Threads : InsertInv(frame[t], call[t])) /\ MemoryCovers
-----------------------------------------------------------------------------
(***************************************************************************)
(* The copy of a bucket: the keys the iteration is past.                   *)
(***************************************************************************)
Past(f, k) == \/ f.pc = "iterate" /\ k <= node[f.pred].key
              \/ f.pc \in {"iterateMarked", "visit"} /\ k < node[f.n].key
              \/ f.pc = "compactSwap"

Swapping(f, c) ==
  f.pc \in CopyLabels \cup {"compactSwap"} =>
    /\ \A k \in Keys \ changed : Past(f, k) => Visible(c.new, k) = Visible(f.list, k)
    /\ f.pc = "visit" => \A k \in Keys \ changed : node[f.n].key = k => Visible(f.list, k) = node[f.n].handle

SwapInv == Swapping(frame[Compactor], call[Compactor])
-----------------------------------------------------------------------------
(***************************************************************************)
(* A step of a list operation: it stays in its list, goes on inside the    *)
(* operation or comes back to where it has to return.                      *)
(***************************************************************************)
StepLabels == {"idle", "find", "count", "getHandle", "getHit", "iterate", "iterateMarked", "visit",
               "decayEnd", "compactSwap"} \cup SearchLabels \cup MarkLabels

ListShape(f, g) == /\ g.list \in {f.list, 0}
                   /\ g.ret \in {f.ret, "idle"}
                   /\ \/ g.pc \in StepLabels
                      \/ g.pc = f.ret /\ f.ret \in FindReturns \cup MarkReturns

LEMMA IdleShape == ASSUME NEW f PROVE ListShape(f, Idle)
BY DEF ListShape, Idle, StepLabels

LEMMA DoneShape ==
  ASSUME NEW f \in Frames, f.ret \in FindReturns, NEW n, NEW h
  PROVE  ListShape(f, Done(f, n, h))
<1>1. CASE f.ret = "idle"
  BY <1>1, IdleShape DEF Done
<1>2. CASE f.ret # "idle"
  <2> DEFINE g == [Idle EXCEPT !.pc = f.ret, !.list = f.list, !.n = n, !.h = h]
  <2>1. g.pc = f.ret /\ g.list = f.list /\ g.ret = "idle"
    BY DEF Idle
  <2> QED BY <1>2, <2>1 DEF Done, ListShape
<1> QED BY <1>1, <1>2

LEMMA MarkedShape ==
  ASSUME NEW f \in Frames, f.ret \in MarkReturns, NEW c
  PROVE  ListShape(f, Marked(f, c))
<1>1. CASE f.ret = "idle"
  BY <1>1, IdleShape DEF Marked
<1>2. CASE f.ret # "idle"
  <2> DEFINE g == [f EXCEPT !.pc = f.ret, !.word = NullWord, !.counted = FALSE, !.charge = c]
  <2>1. g.pc = f.ret /\ g.list = f.list /\ g.ret = f.ret
    BY DEF Frames
  <2> QED BY <1>2, <2>1 DEF Marked, ListShape
<1> QED BY <1>1, <1>2

LEMMA FindShape ==
  ASSUME NEW f \in Frames, NEW k, NEW a
  PROVE  /\ Find(f, k, a).list = f.list /\ Find(f, k, a).ret = f.ret /\ Find(f, k, a).pc = "find"
         /\ Find(f, k, a).after = a /\ Find(f, k, a).h = f.h /\ Find(f, k, a).new = f.new
         /\ Find(f, k, a).charge = f.charge
BY DEF Find, Frames

LEMMA IterateOnShape ==
  ASSUME NEW f \in Frames
  PROVE  /\ IterateOn(f).list = f.list /\ IterateOn(f).ret = "idle" /\ IterateOn(f).pc = "iterate"
         /\ IterateOn(f).after = f.after /\ IterateOn(f).pred = f.n /\ IterateOn(f).new = f.new
BY DEF IterateOn, Frames

LEMMA CountingShape ==
  ASSUME NEW f \in Frames, NEW n
  PROVE  /\ Counting(f, n).list = f.list /\ Counting(f, n).ret = f.ret /\ Counting(f, n).pc = "count"
         /\ Counting(f, n).new = n
BY DEF Counting, Idle

LEMMA ListStepFrame ==
  ASSUME NEW t \in Threads, ListStep(t)
  PROVE  \E g : frame' = [frame EXCEPT ![t] = g]
BY DEF ListStep, SetFrame, Goto, FindStep, GetNode, GetHandle, GetHit, UpdateHandle, LinkBottom,
       LinkBottomFails, LinkUpper, LinkUpperFails, InsertCount, MarkRead, MarkCas, MarkHandle,
       MarkCount, IterateRead, IterateMarked

LEMMA ListStepShape ==
  ASSUME LInv, NEW t \in Threads, ListStep(t)
  PROVE  ListShape(frame[t], frame'[t])
<1>1. PICK f \in Frames : f = frame[t] /\ FrameInv(f)
  BY ActorFrame
<1>2. SUFFICES ASSUME NEW g, frame' = [frame EXCEPT ![t] = g]
               PROVE  ListShape(f, g)
  BY <1>1, ListStepFrame, FrameMoves
<1>3. frame'[t] = g
  BY <1>2, FrameMoves
<1> USE DEF At, SetFrame, Goto
<1>16. ASSUME GetNode(t) \/ GetHit(t) \/ UpdateHandle(t) \/ InsertCount(t) PROVE f.ret \in FindReturns
  BY <1>1, <1>16 DEF GetNode, GetHit, UpdateHandle, InsertCount, FrameInv, ReturnInv, SearchLabels
<1>17. ASSUME MarkCas(t) \/ MarkHandle(t) \/ MarkCount(t) PROVE f.ret \in MarkReturns
  BY <1>1, <1>17 DEF MarkCas, MarkHandle, MarkCount, FrameInv, ReturnInv, MarkLabels
<1>4. CASE FindStep(t)
  <2>1. f.pc = "find" /\ f.after \in SearchLabels
    BY <1>1, <1>4 DEF FindStep, FrameInv, FindInv
  <2> DEFINE w == Word(f.pred, f.level)
             h == [f EXCEPT !.preds[f.level] = f.pred, !.succs[f.level] = w,
                            !.found = @ \/ node[w.to].key = f.key]
  <2>2. \/ g = [f EXCEPT !.pred = w.to] \/ g = [h EXCEPT !.level = @ - 1]
        \/ g = [h EXCEPT !.pc = f.after, !.pred = 0]
    BY <1>1, <1>3, <1>4, FrameMoves DEF FindStep
  <2>3. g.list = f.list /\ g.ret = f.ret /\ g.pc \in {"find", f.after}
    BY <2>1, <2>2 DEF Frames
  <2> QED BY <2>1, <2>3 DEF ListShape, StepLabels
<1>5. CASE GetNode(t)
  <2>1. \/ \E n : g = Done(f, n, None)
        \/ g = [Idle EXCEPT !.pc = "getHandle", !.ret = f.ret, !.list = f.list, !.n = f.succs[0].to]
    BY <1>1, <1>3, <1>5, FrameMoves DEF GetNode
  <2>2. CASE g = [Idle EXCEPT !.pc = "getHandle", !.ret = f.ret, !.list = f.list, !.n = f.succs[0].to]
    <3>1. g.list = f.list /\ g.ret = f.ret /\ g.pc = "getHandle"
      BY <2>2 DEF Idle
    <3> QED BY <3>1 DEF ListShape, StepLabels
  <2> QED BY <1>5, <1>16, <2>1, <2>2, DoneShape
<1>6. CASE GetHandle(t) \/ MarkRead(t) \/ IterateRead(t)
  <2>1. \/ \E h : g = [f EXCEPT !.h = h, !.pc = "getHit"]
        \/ \E w : g = [f EXCEPT !.word = w, !.pc = "markCas"]
        \/ \E n : g = [f EXCEPT !.n = n, !.pc = "iterateMarked"]
    BY <1>1, <1>3, <1>6, FrameMoves DEF GetHandle, MarkRead, IterateRead
  <2>2. g.list = f.list /\ g.ret = f.ret /\ g.pc \in {"getHit", "markCas", "iterateMarked"}
    BY <2>1 DEF Frames
  <2> QED BY <2>2 DEF ListShape, StepLabels, MarkLabels
<1>7. CASE GetHit(t) \/ UpdateHandle(t) \/ InsertCount(t)
  <2>1. \E n, h : g = Done(f, n, h)
    BY <1>1, <1>3, <1>7, FrameMoves DEF GetHit, UpdateHandle, InsertCount
  <2> QED BY <1>7, <1>16, <2>1, DoneShape
<1>8. CASE LinkBottom(t)
  <2>1. \E n, top : g = IF top = 0 THEN Counting(f, n)
                       ELSE [f EXCEPT !.new = n, !.top = top, !.up = 1, !.h = None, !.pc = "linkUp"]
    <3>1. \E top \in RandomLevel :
            SetFrame(t, IF top = 0 THEN Counting(f, Fresh)
                        ELSE [f EXCEPT !.new = Fresh, !.top = top, !.up = 1, !.h = None, !.pc = "linkUp"])
      BY <1>1, <1>8 DEF LinkBottom
    <3> QED BY <1>3, <3>1, FrameMoves
  <2>2. CASE \E n, top : g = [f EXCEPT !.new = n, !.top = top, !.up = 1, !.h = None, !.pc = "linkUp"]
    <3>1. g.list = f.list /\ g.ret = f.ret /\ g.pc = "linkUp"
      BY <2>2 DEF Frames
    <3> QED BY <3>1 DEF ListShape, StepLabels, SearchLabels
  <2>3. CASE \E n : g = Counting(f, n)
    BY <2>3, CountingShape DEF ListShape, StepLabels
  <2> QED BY <2>1, <2>2, <2>3
<1>9. CASE LinkBottomFails(t)
  <2> DEFINE e == [f EXCEPT !.h = None]
  <2>1. g = Find(e, f.key, "insert")
    BY <1>1, <1>3, <1>9, FrameMoves DEF LinkBottomFails
  <2>2. e \in Frames /\ e.list = f.list /\ e.ret = f.ret
    BY DEF Frames
  <2> HIDE DEF e
  <2>3. g.list = f.list /\ g.ret = f.ret /\ g.pc = "find"
    BY <2>1, <2>2, FindShape
  <2> QED BY <2>3 DEF ListShape, StepLabels
<1>10. CASE LinkUpper(t)
  <2>1. g = Counting(f, f.new) \/ g = [f EXCEPT !.up = @ + 1]
    BY <1>1, <1>3, <1>10, FrameMoves DEF LinkUpper
  <2>2. CASE g = [f EXCEPT !.up = @ + 1]
    <3>1. g.list = f.list /\ g.ret = f.ret /\ g.pc = "linkUp"
      BY <1>1, <1>10, <2>2 DEF Frames, LinkUpper
    <3> QED BY <3>1 DEF ListShape, StepLabels, SearchLabels
  <2> QED BY <2>1, <2>2, CountingShape DEF ListShape, StepLabels
<1>11. CASE LinkUpperFails(t)
  <2>1. g = Find(f, f.key, "linkUp")
    BY <1>1, <1>3, <1>11, FrameMoves DEF LinkUpperFails
  <2> QED BY <2>1, FindShape DEF ListShape, StepLabels
<1>12. CASE MarkCas(t)
  <2>1. \/ g = Marked(f, 0) \/ g = [f EXCEPT !.pc = "markHandle"]
        \/ (g = [f EXCEPT !.word = Word(f.n, 0)] /\ f.pc = "markCas")
    BY <1>1, <1>3, <1>12, FrameMoves DEF MarkCas
  <2>2. CASE g = [f EXCEPT !.pc = "markHandle"] \/ (g = [f EXCEPT !.word = Word(f.n, 0)] /\ f.pc = "markCas")
    <3>1. g.list = f.list /\ g.ret = f.ret /\ g.pc \in MarkLabels
      BY <2>2 DEF Frames, MarkLabels
    <3> QED BY <3>1 DEF ListShape, StepLabels
  <2> QED BY <1>12, <1>17, <2>1, <2>2, MarkedShape
<1>13. CASE MarkHandle(t)
  <2>1. \E c : g = Marked(f, c) \/ g = [f EXCEPT !.charge = c, !.pc = "markCount"]
    BY <1>1, <1>3, <1>13, FrameMoves DEF MarkHandle
  <2>2. ASSUME NEW c, g = [f EXCEPT !.charge = c, !.pc = "markCount"] PROVE ListShape(f, g)
    <3>1. g.list = f.list /\ g.ret = f.ret /\ g.pc \in MarkLabels
      BY <2>2 DEF Frames, MarkLabels
    <3> QED BY <3>1 DEF ListShape, StepLabels
  <2> QED BY <1>13, <1>17, <2>1, <2>2, MarkedShape
<1>14. CASE MarkCount(t)
  BY <1>1, <1>3, <1>14, <1>17, FrameMoves, MarkedShape DEF MarkCount
<1>15. CASE IterateMarked(t)
  <2>1. f.after \in IterateEnds
    BY <1>1, <1>15 DEF IterateMarked, FrameInv, ReturnInv, IterateLabels
  <2>2. \/ g = IterateOn(f) \/ g = Idle \/ g = [Idle EXCEPT !.pc = f.after, !.list = f.list]
        \/ g = [f EXCEPT !.pc = "visit"]
    BY <1>1, <1>3, <1>15, FrameMoves DEF IterateMarked
  <2>3. CASE g = [Idle EXCEPT !.pc = f.after, !.list = f.list] \/ g = [f EXCEPT !.pc = "visit"]
    <3>1. g.list = f.list /\ g.ret \in {f.ret, "idle"} /\ g.pc \in IterateEnds \cup {"visit"}
      BY <2>1, <2>3 DEF Frames, Idle
    <3> QED BY <3>1 DEF ListShape, StepLabels, IterateEnds
  <2>4. CASE g = IterateOn(f)
    BY <2>4, IterateOnShape DEF ListShape, StepLabels
  <2> QED BY <2>2, <2>3, <2>4, IdleShape
<1> QED BY <1>4, <1>5, <1>6, <1>7, <1>8, <1>9, <1>10, <1>11, <1>12, <1>13, <1>14, <1>15 DEF ListStep

\* The nodes a list operation changes belong to its own list.
LEMMA OtherLists ==
  ASSUME LInv, NEW t \in Threads, ListStep(t), NEW l \in Lists, l # frame[t].list
  PROVE  Linked(l)' = Linked(l) /\ \A n \in Linked(l) : node'[n] = node[n]
<1>1. PICK f \in Frames : f = frame[t] /\ FrameInv(f)
  BY ActorFrame
<1>2. node \in [AllNodes -> NodeRecords] /\ Nodes \subseteq AllNodes
  BY Numbers DEF LInv, StateType
<1>3. ASSUME node' = node PROVE Linked(l)' = Linked(l) /\ \A n \in Linked(l) : node'[n] = node[n]
  BY <1>3 DEF Linked
<1>4. ASSUME Quiet, NEW m \in Linked(f.list) \cup {HeadNode(f.list)}, f.list \in Lists,
             \A n \in AllNodes : n # m => node'[n] = node[n]
      PROVE  Linked(l)' = Linked(l) /\ \A n \in Linked(l) : node'[n] = node[n]
  <2>1. m \notin Linked(l)
    BY <1>1, <1>4, Numbers DEF Linked
  <2> QED BY <1>2, <1>4, <2>1, QuietSets DEF Linked
<1>5. CASE LocalStep(t) \/ InsertCount(t) \/ MarkCount(t)
  <2>1. node' = node
    BY <1>5, LocalMoves DEF InsertCount, MarkCount
  <2> QED BY <1>3, <2>1
<1>6. CASE GetHit(t) \/ MarkCas(t) \/ MarkHandle(t)
  <2>1. f.pc \in NodeLabels \ {"iterateMarked"}
    BY <1>1, <1>6 DEF GetHit, MarkCas, MarkHandle, At, NodeLabels, MarkLabels
  <2>2. f.list \in Lists /\ f.n \in Linked(f.list)
    BY <1>1, <2>1, NodeInHand
  <2>3. \A n \in AllNodes : n # f.n => node'[n] = node[n]
    BY <1>1, <1>2, <1>6 DEF GetHit, MarkCas, MarkHandle, SetWord
  <2>4. Quiet
    BY <1>6, NodeMoves DEF NodeStep
  <2> QED BY <1>4, <2>2, <2>3, <2>4
<1>7. CASE UpdateHandle(t)
  <2>1. f.list \in Lists /\ f.succs[0].to \in Linked(f.list)
    BY <1>1, <1>7 DEF UpdateHandle, At, FrameInv, FindInv, SearchLabels
  <2>2. \A n \in AllNodes : n # f.succs[0].to => node'[n] = node[n]
    BY <1>1, <1>2, <1>7 DEF UpdateHandle
  <2>3. Quiet
    BY <1>7, NodeMoves DEF NodeStep
  <2> QED BY <1>4, <2>1, <2>2, <2>3
<1>8. CASE LinkUpper(t)
  <2>1. f.list \in Lists /\ f.up \in Levels /\ Searched(f, f.up)
    BY <1>1, <1>8, LinkUpFrame DEF LinkUpper
  <2>2. f.preds[f.up] \notin Linked(l)
    BY <1>1, <2>1, Numbers DEF Searched, Before, OnLevel, Linked
  <2>3. \A n \in AllNodes : n # f.preds[f.up] => node'[n] = node[n]
    BY <1>1, <1>2, <1>8 DEF LinkUpper, SetWord
  <2>4. Linked(l)' = Linked(l)
    BY <1>8, LinkUpperStructure
  <2> QED BY <1>2, <2>2, <2>3, <2>4 DEF Linked
<1>9. CASE LinkBottom(t)
  <2>1. PICK g \in Frames, new \in Nodes, top \in Levels :
          /\ g = frame[t] /\ g.pc = "insert" /\ FrameInv(g) /\ LinksBehind(g, new, top)
          /\ frame' = [frame EXCEPT ![t] =
               IF top = 0 THEN Counting(g, new)
               ELSE [g EXCEPT !.new = new, !.top = top, !.up = 1, !.h = None, !.pc = "linkUp"]]
          /\ node' \in [AllNodes -> NodeRecords]
          /\ node'[new].handle = g.h
          /\ \A m \in AllNodes : m # new => /\ node'[m].handle = node[m].handle
                                            /\ m # g.preds[0] => node'[m] = node[m]
    BY <1>9, LinkBottomEffect
  <2>2. Linked(l)' = Linked(l)
    BY <2>1, LinkBottomSets
  <2>3. g.preds[0] \in Linked(g.list) \cup {HeadNode(g.list)} /\ new \notin Linked(l) /\ g.list \in Lists
    BY <2>1, Neighbours DEF LinksBehind
  <2>4. g.preds[0] \notin Linked(l)
    BY <2>1, <2>3, Numbers DEF Linked
  <2>5. \A n \in Linked(l) : n \in AllNodes /\ n # new /\ n # g.preds[0]
    BY <1>2, <2>3, <2>4 DEF Linked
  <2>6. \A m \in AllNodes : m # new /\ m # g.preds[0] => node'[m] = node[m]
    BY <2>1, Zenon
  <2> QED BY <2>2, <2>5, <2>6
<1> QED BY <1>5, <1>6, <1>7, <1>8, <1>9, StepKinds DEF Step, NodeStep, ListStep, LocalStep

\* A list operation is one of the list's own specification.
LEMMA ListStepNext ==
  ASSUME NEW t \in Threads, ListStep(t)
  PROVE  [ListNext]_listVars
BY DEF ListNext, Step
-----------------------------------------------------------------------------
(***************************************************************************)
(* The frames and the locals the cache goes on with.                       *)
(***************************************************************************)
LEMMA Parties ==
  /\ Decayer \in Threads /\ Compactor \in Threads /\ Decayer # Compactor
  /\ Clients \subseteq Threads /\ Compactor \notin Clients /\ Decayer \notin Clients
  /\ BucketNum \in Nat \ {0} /\ 0 \in Buckets /\ \A b \in Buckets : b + 1 \in 1 .. BucketNum /\ b + 1 \in Lists
  /\ \A l \in Unused : l \in Lists /\ l > BucketNum
  /\ 0 \notin Unused
BY CacheAssumption, ListAssumption DEF Clients, Buckets, Lists, Unused

LEMMA BucketList ==
  ASSUME OwnType, NEW b \in Buckets
  PROVE  buckets[b] \in 0 .. ListNum /\ buckets[b] \notin Unused /\ (buckets[b] # 0 => buckets[b] \in Lists)
<1>1. buckets[b] \in 0 .. ListNum
  BY DEF OwnType
<1> QED BY <1>1, ListAssumption DEF Unused, Lists

LEMMA NoCallType == NoCall \in CallRecords /\ NoCall.list = 0 /\ NoCall.new = 0 /\ NoCall.entry = <<>>
<1>1. 0 \in 0 .. MaxKey /\ 0 \in 0 .. ListNum /\ 0 \in Nat /\ 0 \in Int /\ 0 \in Buckets
  BY Parties, ListAssumption
<1>2. None \in Handles \cup {None} /\ <<>> \in Entries \cup {<<>>}
  OBVIOUS
<1> QED BY <1>1, <1>2 DEF NoCall, CallRecords

LEMMA IndexType ==
  ASSUME NEW c \in CallRecords
  PROVE  /\ [NoCall EXCEPT !.index = (c.index + 1) % BucketNum] \in CallRecords
         /\ [NoCall EXCEPT !.index = (c.index + 1) % BucketNum].list = 0
         /\ [NoCall EXCEPT !.index = (c.index + 1) % BucketNum].new = 0
<1>1. (c.index + 1) % BucketNum \in Buckets
  <2>1. c.index \in Buckets
    BY DEF CallRecords
  <2> QED BY <2>1, Parties DEF Buckets
<1> QED BY <1>1, NoCallType DEF CallRecords

LEMMA OnFrame ==
  ASSUME NEW l \in Lists
  PROVE  /\ On(l) \in Frames /\ FrameInv(On(l))
         /\ On(l).list = l /\ On(l).n = 0 /\ On(l).new = 0 /\ On(l).ret = "idle" /\ On(l).pc = "idle"
<1> DEFINE f == On(l)
<1>1. l \in 0 .. ListNum
  BY DEF Lists
<1>2. f \in Frames
  BY <1>1, IdleType DEF On, Frames
<1>3. f.list = l /\ f.n = 0 /\ f.new = 0 /\ f.ret = "idle" /\ f.pc = "idle"
  BY DEF On, Idle
<1> HIDE DEF f
<1>4. FrameInv(f)
  BY <1>3 DEF FrameInv, FindInv, NewInv, NodeInv, ReturnInv, SearchLabels, MarkLabels,
              IterateLabels, VisitLabels, NodeLabels, IsLinking
<1> QED BY <1>2, <1>3, <1>4 DEF f

LEMMA GotoFrame ==
  ASSUME NEW f \in Frames, FrameInv(f), f.new = 0, f.pc # "iterateMarked", NEW a \in CacheLabels
  PROVE  /\ [f EXCEPT !.pc = a] \in Frames /\ FrameInv([f EXCEPT !.pc = a])
         /\ [f EXCEPT !.pc = a].pc = a /\ [f EXCEPT !.pc = a].list = f.list
         /\ [f EXCEPT !.pc = a].ret = f.ret /\ [f EXCEPT !.pc = a].new = 0
<1> DEFINE g == [f EXCEPT !.pc = a]
<1>1. g \in Frames
  BY LabelType DEF Frames
<1>2. g.pc = a /\ g.list = f.list /\ g.ret = f.ret /\ g.new = 0 /\ g.n = f.n
  BY DEF Frames
<1>3. /\ a \notin {"find", "count"} \cup SearchLabels \cup NodeLabels \cup IterateLabels \cup MarkLabels
      /\ a \notin {"marking", "evictNode", "getHandle", "getHit"}
  BY DEF CacheLabels, SearchLabels, NodeLabels, IterateLabels, VisitLabels, MarkLabels
<1> HIDE DEF g
<1>4. FindInv(g)
  BY <1>2, <1>3 DEF FindInv
<1>5. NewInv(g)
  BY <1>2, <1>3 DEF NewInv, IsLinking, SearchLabels
<1>6. NodeInv(g) /\ ReturnInv(g)
  BY <1>2, <1>3 DEF NodeInv, ReturnInv, FrameInv, IterateLabels
<1> QED BY <1>1, <1>2, <1>4, <1>5, <1>6 DEF FrameInv, g

LEMMA IterateLevelFrame ==
  ASSUME NEW f \in Frames, FrameInv(f), f.list \in Lists, f.new = 0, f.pc # "iterateMarked",
         NEW a \in IterateEnds
  PROVE  /\ IterateLevel(f, a) \in Frames /\ FrameInv(IterateLevel(f, a))
         /\ IterateLevel(f, a).pc = "iterate" /\ IterateLevel(f, a).list = f.list
         /\ IterateLevel(f, a).ret = f.ret /\ IterateLevel(f, a).after = a
         /\ IterateLevel(f, a).pred = HeadNode(f.list)
<1> DEFINE g == IterateLevel(f, a)
<1>1. HeadNode(f.list) \in Refs /\ "iterate" \in Labels /\ a \in Labels
  BY Numbers, LabelType DEF IterateLabels
<1>2. g \in Frames
  BY <1>1 DEF Frames, IterateLevel
<1>3. /\ g.pc = "iterate" /\ g.list = f.list /\ g.pred = HeadNode(f.list) /\ g.after = a /\ g.n = f.n
      /\ g.new = 0 /\ g.ret = f.ret
  BY DEF Frames, IterateLevel
<1> HIDE DEF g
<1>4. f.n # 0 => f.n \in Linked(f.list)
  BY DEF FrameInv, NodeInv
<1>5. FrameInv(g)
  BY <1>3, <1>4 DEF FrameInv, FindInv, NewInv, NodeInv, ReturnInv, SearchLabels, MarkLabels, IterateLabels,
                    VisitLabels, NodeLabels, IsLinking
<1> QED BY <1>2, <1>3, <1>5 DEF g

LEMMA VisitFrame ==
  ASSUME NEW f \in Frames, FrameInv(f), f.pc \in VisitLabels, NEW a \in VisitLabels
  PROVE  /\ [f EXCEPT !.pc = a] \in Frames /\ FrameInv([f EXCEPT !.pc = a])
         /\ [f EXCEPT !.pc = a].pc = a /\ [f EXCEPT !.pc = a].list = f.list
         /\ [f EXCEPT !.pc = a].ret = f.ret
<1> DEFINE g == [f EXCEPT !.pc = a]
<1>1. g \in Frames
  BY LabelType DEF Frames, IterateLabels
<1>2. g.pc = a /\ g.list = f.list /\ g.ret = f.ret /\ g.new = f.new /\ g.n = f.n /\ g.after = f.after
  BY DEF Frames
<1>3. f.list \in Lists /\ f.n \in Linked(f.list) /\ f.new = 0 /\ f.after \in IterateEnds
  BY NodeInHand DEF NodeLabels, VisitLabels, IterateLabels
<1>4. a \in NodeLabels /\ a \notin {"getHandle", "getHit"} \cup MarkLabels
  BY DEF NodeLabels, VisitLabels, MarkLabels
<1> HIDE DEF g
<1>5. FrameInv(g)
  BY <1>1, <1>2, <1>3, <1>4, NodeFrame
<1> QED BY <1>1, <1>2, <1>5 DEF g
-----------------------------------------------------------------------------
(***************************************************************************)
(* What a step of a thread leaves: a frame g and locals c that fit.        *)
(***************************************************************************)
Effect(t, g, c) ==
  /\ g \in Frames /\ frame' = [frame EXCEPT ![t] = g]
  /\ c \in CallRecords /\ call' = [call EXCEPT ![t] = c]
  /\ CallInv(g, c) /\ g.list \notin Unused /\ c.list \notin Unused

\* What the cache owns keeps its types.
OwnKept == /\ buckets' = buckets /\ gen' \in [Buckets -> Nat] /\ memory_used' \in Int
           /\ low' \in Seq(Entries) /\ Len(low') <= LowCapacity

\* The lists that are not in use, and the one a compaction fills, are as before.
Sealed == \A l \in Unused : /\ Linked(l)' = Linked(l)
                            /\ \A n \in Linked(l) : IsMarked(n)' = IsMarked(n)

LEMMA SameUnused == buckets' = buckets => Unused' = Unused
BY DEF Unused

LEMMA UnchangedSealed == node' = node => Sealed
BY DEF Sealed, Linked, IsMarked, Word

LEMMA EffectThreads ==
  ASSUME CInv, NEW t \in Threads, NEW g, NEW c, Effect(t, g, c)
  PROVE  /\ frame'[t] = g /\ call'[t] = c
         /\ \A u \in Threads : u # t => frame'[u] = frame[u] /\ call'[u] = call[u]
         /\ call' \in [Threads -> CallRecords]
BY DEF CInv, LInv, StateType, OwnType, Effect

LEMMA EffectCalls ==
  ASSUME CInv, NEW t \in Threads, NEW g, NEW c, Effect(t, g, c), buckets' = buckets
  PROVE  /\ CallsInv'
         /\ \A u \in Threads : frame'[u].list \notin Unused' /\ call'[u].list \notin Unused'
<1>1. /\ frame'[t] = g /\ call'[t] = c
      /\ \A u \in Threads : u # t => frame'[u] = frame[u] /\ call'[u] = call[u]
  BY EffectThreads
<1>2. ASSUME NEW u \in Threads
      PROVE  CallInv(frame[u], call[u])' /\ frame'[u].list \notin Unused' /\ call'[u].list \notin Unused'
  <2>1. CASE u = t
    BY <1>1, <2>1, SameUnused DEF Effect, CallInv
  <2>2. CASE u # t
    BY <1>1, <2>2, SameUnused DEF CInv, CallsInv, Apart, CallInv
  <2> QED BY <2>1, <2>2
<1> QED BY <1>2 DEF CallsInv

\* A step of another thread than the compaction thread.
LEMMA ThreadKeeps ==
  ASSUME CInv, LInv', Grow, Sealed, OwnKept, NEW t \in Threads \ {Compactor}, NEW g, NEW c, Effect(t, g, c)
  PROVE  CInv'
<1> DEFINE f == frame[Compactor]
           d == call[Compactor]
<1>1. frame'[Compactor] = f /\ call'[Compactor] = d /\ call' \in [Threads -> CallRecords]
  BY EffectThreads, Parties
<1>2. OwnType'
  BY <1>1 DEF OwnType, OwnKept, CInv
<1>3. Unused' = Unused
  BY SameUnused DEF OwnKept
<1>4. Apart'
  BY <1>1, <1>3, EffectCalls DEF Apart, CInv, Sealed, OwnKept
<1>5. CompactorInv(f, d)'
  BY <1>1, <1>3 DEF CInv, CompactorInv
<1>6. Copied(f, d)'
  <2> SUFFICES ASSUME f.pc \in CopyLabels \cup {"compactSwap"}, NEW n \in Linked(d.new)'
               PROVE  /\ ~IsMarked(n)'
                      /\ f.pc = "iterate" => node'[n].key <= node'[f.pred].key
                      /\ f.pc \in {"iterateMarked", "visit"} => node'[n].key < node'[f.n].key
    BY <1>1 DEF Copied
  <2>1. d.new \in Unused /\ d.new \in Lists
    BY Parties DEF CInv, CompactorInv
  <2>2. n \in Linked(d.new) /\ IsMarked(n)' = IsMarked(n)
    BY <1>1, <2>1 DEF Sealed
  <2>3. Sentinels /\ FrameInv(f) /\ f \in Frames
    BY ActorFrame, Parties DEF CInv, LInv, Structure
  <2>4. node'[n].key = node[n].key
    BY <2>1, <2>2, <2>3, GrowSets
  <2>5. f.pc = "iterate" => node'[f.pred].key = node[f.pred].key
    BY <2>3, GrowSets DEF FrameInv, NodeInv
  <2>6. f.pc \in {"iterateMarked", "visit"} => node'[f.n].key = node[f.n].key
    <3>1. f.pc \in {"iterateMarked", "visit"} =>
            f.list \in Lists /\ f.n \in Linked(f.list) \cup {TailNode(f.list)}
      BY <2>3 DEF FrameInv, NodeInv, NodeLabels, VisitLabels
    <3> QED BY <2>3, <3>1, GrowSets
  <2> QED BY <2>2, <2>4, <2>5, <2>6 DEF CInv, Copied
<1> QED BY <1>1, <1>2, <1>4, <1>5, <1>6, EffectCalls DEF CInv, OwnKept

\* A step of the compaction thread that changes neither lists nor buckets.
LEMMA CompactorKeeps ==
  ASSUME CInv, UNCHANGED <<node, counts, todo>>, OwnKept, NEW g, NEW c, Effect(Compactor, g, c), FrameInv(g),
         CompactorInv(g, c), Copied(g, c),
         \A l \in Unused : l # c.new => Linked(l) = {}
  PROVE  CInv'
<1>1. frame'[Compactor] = g /\ call'[Compactor] = c /\ call' \in [Threads -> CallRecords]
  BY EffectThreads, Parties
<1>2. OwnType'
  BY <1>1 DEF OwnType, OwnKept, CInv
<1>3. Unused' = Unused
  BY SameUnused DEF OwnKept
<1>4. LInv'
  <2>1. Moves(Compactor)
    BY DEF Moves, Effect
  <2>2. /\ node \in [AllNodes -> NodeRecords] /\ counts \in [Lists -> [nodes : Nat, marked : Nat]]
        /\ todo \in [Threads -> Seq(Calls)]
    BY DEF CInv, LInv, StateType
  <2> QED BY <2>1, <2>2, UnchangedQuiet, QuietLInv, Parties DEF CInv
<1>5. \A l : Linked(l)' = Linked(l)
  BY DEF Linked
<1>6. Apart'
  BY <1>1, <1>3, <1>5, EffectCalls, Parties DEF Apart, OwnKept
<1>7. CompactorInv(g, c)'
  BY <1>3 DEF CompactorInv
<1>8. Copied(g, c)'
  BY <1>5 DEF Copied, IsMarked, Word
<1> QED BY <1>1, <1>2, <1>4, <1>6, <1>7, <1>8, EffectCalls, Parties DEF CInv, OwnKept
-----------------------------------------------------------------------------
(***************************************************************************)
(* The invariant is kept by the steps of list operations.                  *)
(***************************************************************************)
LEMMA ShapeCall ==
  ASSUME NEW f, NEW g, NEW c, CallInv(f, c), ListShape(f, g)
  PROVE  CallInv(g, c)
<1>1. g.pc \notin {"evictGen", "evictLoad", "decayPush", "compactMarked", "compactNodes"}
  BY DEF ListShape, StepLabels, SearchLabels, MarkLabels, FindReturns, MarkReturns
<1>2. g.pc \in EvictLabels => g.pc = f.ret
  BY DEF ListShape, StepLabels, SearchLabels, MarkLabels, EvictLabels
<1>3. g.ret \in EvictLabels => g.ret = f.ret
  BY DEF ListShape, EvictLabels
<1> QED BY <1>1, <1>2, <1>3 DEF CallInv

LEMMA ListStepEffect ==
  ASSUME CInv, NEW t \in Threads, ListStep(t), UNCHANGED ownVars
  PROVE  /\ LInv' /\ Grow /\ OwnKept /\ Effect(t, frame'[t], call[t])
         /\ ListShape(frame[t], frame'[t])
<1>1. LInv' /\ Grow
  BY ListStepNext, NextLInv, StepGrows DEF CInv
<1>2. OwnKept
  BY DEF OwnKept, ownVars, CInv, OwnType
<1>3. PICK g : frame' = [frame EXCEPT ![t] = g]
  BY ListStepFrame
<1>4. frame'[t] = g
  BY <1>3, FrameMoves DEF CInv
<1>5. g \in Frames
  BY <1>1, <1>4 DEF LInv, StateType
<1>6. ListShape(frame[t], g)
  BY <1>4, ListStepShape DEF CInv
<1>7. call[t] \in CallRecords /\ call' = [call EXCEPT ![t] = call[t]]
  BY DEF ownVars, CInv, OwnType
<1>8. CallInv(g, call[t])
  BY <1>6, ShapeCall DEF CInv, CallsInv
<1>9. g.list \notin Unused /\ call[t].list \notin Unused
  BY <1>6, Parties DEF CInv, Apart, ListShape
<1> QED BY <1>1, <1>2, <1>3, <1>4, <1>5, <1>6, <1>7, <1>8, <1>9 DEF Effect

LEMMA ListStepSealed ==
  ASSUME CInv, NEW t \in Threads, ListStep(t)
  PROVE  Sealed
<1> SUFFICES ASSUME NEW l \in Unused
             PROVE  Linked(l)' = Linked(l) /\ \A n \in Linked(l) : IsMarked(n)' = IsMarked(n)
  BY DEF Sealed
<1>1. l \in Lists /\ l # frame[t].list
  BY Parties DEF CInv, Apart
<1>2. Linked(l)' = Linked(l) /\ \A n \in Linked(l) : node'[n] = node[n]
  BY <1>1, OtherLists DEF CInv
<1> QED BY <1>2 DEF IsMarked, Word

LEMMA ListStepKeeps ==
  ASSUME CInv, NEW t \in Threads \ {Compactor}, ListStep(t), UNCHANGED ownVars
  PROVE  CInv'
BY ListStepEffect, ListStepSealed, ThreadKeeps

LEMMA CompactorIterates ==
  ASSUME CInv, ListStep(Compactor)
  PROVE  IterateRead(Compactor) \/ IterateMarked(Compactor)
<1>1. frame[Compactor].pc \in CopyLabels \cup RestLabels \cup {"compactSwap", "compactGen"}
  BY DEF CInv, CompactorInv
<1> QED BY <1>1 DEF ListStep, At, CopyLabels, RestLabels, FindStep, GetNode, GetHandle, GetHit, UpdateHandle,
                    LinkBottom, LinkBottomFails, LinkUpper, LinkUpperFails, InsertCount, MarkRead, MarkCas,
                    MarkHandle, MarkCount

\* The keys of the copies stay behind the iteration.
LEMMA IterateKeeps ==
  ASSUME CInv, ListStep(Compactor), UNCHANGED ownVars
  PROVE  CInv'
<1> DEFINE c == call[Compactor]
<1>1. PICK f \in Frames : f = frame[Compactor] /\ FrameInv(f)
  BY ActorFrame, Parties DEF CInv
<1>2. PICK g \in Frames : frame' = [frame EXCEPT ![Compactor] = g] /\ FrameInv(g)
  BY CompactorIterates, IterateReadMoves, IterateMarkedMoves, Parties DEF CInv, Moves
<1>11. frame'[Compactor] = g
  BY <1>2, FrameMoves, Parties DEF CInv
<1>3. OwnKept /\ Effect(Compactor, g, c)
  BY <1>11, ListStepEffect, Parties
<1>4. /\ node' = node /\ UNCHANGED <<node, counts, todo>>
      /\ \/ f.pc = "iterate" /\ g = [f EXCEPT !.n = Word(f.pred, 0).to, !.pc = "iterateMarked"]
         \/ f.pc = "iterateMarked" /\ IsMarked(f.n) /\ g = IterateOn(f)
         \/ f.pc = "iterateMarked" /\ ~IsMarked(f.n) /\ f.n = TailNode(f.list)
            /\ g = IF f.after = "idle" THEN Idle ELSE [Idle EXCEPT !.pc = f.after, !.list = f.list]
         \/ f.pc = "iterateMarked" /\ ~IsMarked(f.n) /\ f.n # TailNode(f.list) /\ g = [f EXCEPT !.pc = "visit"]
  BY <1>1, <1>2, <1>11, CompactorIterates, FrameMoves, Parties DEF CInv, IterateRead, IterateMarked, SetFrame, At
<1>5. f.after = "compactSwap" /\ f.ret = "idle" /\ c.new \in Unused /\ c.new \in Lists
  BY <1>1, <1>4, Parties DEF CInv, CompactorInv, CopyLabels
<1>6. /\ g.pc \in CopyLabels \cup {"compactSwap"} /\ g.ret = "idle"
      /\ g.pc \in CopyLabels => g.after = "compactSwap"
  <2>1. CASE g = IF f.after = "idle" THEN Idle ELSE [Idle EXCEPT !.pc = f.after, !.list = f.list]
    BY <1>5, <2>1 DEF CopyLabels, Idle
  <2>2. CASE g = IterateOn(f)
    BY <1>5, <2>2, IterateOnShape DEF CopyLabels
  <2>3. CASE \E n : g = [f EXCEPT !.n = n, !.pc = "iterateMarked"]
    BY <1>5, <2>3 DEF Frames, CopyLabels
  <2>4. CASE g = [f EXCEPT !.pc = "visit"]
    BY <1>5, <2>4 DEF Frames, CopyLabels
  <2> QED BY <1>4, <2>1, <2>2, <2>3, <2>4
<1>7. CompactorInv(g, c)
  BY <1>5, <1>6 DEF CompactorInv, CopyLabels, RestLabels
<1>8. \A l \in Unused : l # c.new => Linked(l) = {}
  BY DEF CInv, Apart
<1>9. ASSUME NEW n \in Linked(c.new)
      PROVE  /\ ~IsMarked(n) /\ node[n].key \in Int
             /\ f.pc = "iterate" => node[n].key <= node[f.pred].key
             /\ f.pc = "iterateMarked" => node[n].key < node[f.n].key
  BY <1>1, <1>4, <1>5, ListKeys DEF CInv, Copied, CopyLabels
<1>10. Copied(g, c)
  <2> SUFFICES ASSUME NEW n \in Linked(c.new)
               PROVE  /\ g.pc = "iterate" => node[n].key <= node[g.pred].key
                      /\ g.pc \in {"iterateMarked", "visit"} => node[n].key < node[g.n].key
    BY <1>9 DEF Copied
  <2>1. CASE f.pc = "iterate" /\ g = [f EXCEPT !.n = Word(f.pred, 0).to, !.pc = "iterateMarked"]
    <3>1. g.pc = "iterateMarked" /\ g.n = Word(f.pred, 0).to
      BY <2>1 DEF Frames
    <3>2. f.list \in Lists /\ f.pred \in Linked(f.list) \cup {HeadNode(f.list)}
      BY <1>1, <2>1 DEF FrameInv, NodeInv
    <3>3. /\ g.n \in Linked(f.list) \cup {TailNode(f.list)} /\ node[f.pred].key < node[g.n].key
      BY <3>1, <3>2, BottomLink DEF CInv, LInv
    <3>4. node[f.pred].key \in Int /\ node[g.n].key \in Int
      BY <3>2, <3>3, ListKeys, ListAssumption DEF CInv
    <3> QED BY <1>9, <2>1, <3>1, <3>3, <3>4
  <2>2. CASE f.pc = "iterateMarked" /\ IsMarked(f.n) /\ g = IterateOn(f)
    <3>1. g.pc = "iterate" /\ g.pred = f.n
      BY <2>2, IterateOnShape
    <3>2. f.list \in Lists /\ f.n \in Linked(f.list) \cup {TailNode(f.list)}
      BY <1>1, <2>2 DEF FrameInv, NodeInv, NodeLabels
    <3>3. node[f.n].key \in Int
      BY <3>2, ListKeys, ListAssumption DEF CInv
    <3> QED BY <1>9, <2>2, <3>1, <3>3
  <2>3. CASE g = IF f.after = "idle" THEN Idle ELSE [Idle EXCEPT !.pc = f.after, !.list = f.list]
    BY <1>5, <2>3 DEF Idle
  <2>4. CASE f.pc = "iterateMarked" /\ g = [f EXCEPT !.pc = "visit"]
    BY <1>9, <2>4 DEF Frames
  <2> QED BY <1>4, <2>1, <2>2, <2>3, <2>4
<1> QED BY <1>2, <1>3, <1>4, <1>7, <1>8, <1>10, CompactorKeeps
-----------------------------------------------------------------------------
(***************************************************************************)
(* The invariant is kept by the steps the cache takes between the calls of *)
(* a list: the clients first.                                              *)
(***************************************************************************)
LEMMA ActorCall ==
  ASSUME CInv, NEW t \in Threads
  PROVE  /\ frame[t] \in Frames /\ FrameInv(frame[t]) /\ frame[t].list \notin Unused
         /\ call[t] \in CallRecords /\ CallInv(frame[t], call[t]) /\ call[t].list \notin Unused
BY ActorFrame DEF CInv, OwnType, CallsInv, Apart

\* Locals that a frame does not need.
LEMMA PlainCall ==
  ASSUME NEW g, NEW c, g.ret \notin EvictLabels,
         g.pc \notin EvictLabels \cup {"decayPush", "compactMarked", "compactNodes"}
  PROVE  CallInv(g, c)
BY DEF CallInv, EvictLabels

\* Locals of an Insert that still has its list.
LEMMA InsertCall ==
  ASSUME NEW g, NEW c, c.list \in Lists, c.key \in 0 .. MaxKey - 1,
         g.pc \notin {"evictGen", "evictLoad", "decayPush", "compactMarked", "compactNodes"}
  PROVE  CallInv(g, c)
BY DEF CallInv

LEMMA OwnStepKeeps ==
  ASSUME CInv, NEW t \in Threads \ {Compactor}, NEW g, NEW c, Effect(t, g, c), FrameInv(g), OwnKept,
         UNCHANGED <<node, counts>>, todo' \in [Threads -> Seq(Calls)]
  PROVE  CInv'
<1>1. node \in [AllNodes -> NodeRecords] /\ counts \in [Lists -> [nodes : Nat, marked : Nat]]
  BY DEF CInv, LInv, StateType
<1>2. Moves(t)
  BY DEF Moves, Effect
<1>3. LInv'
  BY <1>1, <1>2, UnchangedQuiet, QuietLInv DEF CInv
<1> QED BY <1>3, UnchangedQuiet, QuietGrows, UnchangedSealed, ThreadKeeps

LEMMA SameTodo == CInv /\ UNCHANGED todo => todo' \in [Threads -> Seq(Calls)]
BY DEF CInv, LInv, StateType

LEMMA SameOwn ==
  CInv /\ UNCHANGED <<buckets, gen, low>> /\ memory_used' \in Int => OwnKept
BY DEF OwnKept, CInv, OwnType

LEMMA SameMemory == CInv /\ UNCHANGED memory_used => memory_used' \in Int
BY DEF CInv, OwnType

LEMMA SameGen == CInv /\ UNCHANGED gen => gen' \in [Buckets -> Nat]
BY DEF CInv, OwnType

LEMMA SameCall ==
  ASSUME CInv, NEW t \in Threads, UNCHANGED call
  PROVE  SetCall(t, call[t])
BY DEF CInv, OwnType, SetCall

LEMMA TakeType ==
  ASSUME CInv, NEW t \in Threads, NEW op, Take(t, op)
  PROVE  /\ Call(t).key \in 0 .. MaxKey - 1 /\ Call(t).h \in Handles \cup {None}
         /\ todo' \in [Threads -> Seq(Calls)] /\ BucketOf(Call(t).key) \in Buckets
<1>1. todo \in [Threads -> Seq(Calls)] /\ todo[t] # <<>> /\ todo' = [todo EXCEPT ![t] = Tail(todo[t])]
  BY DEF CInv, LInv, StateType, Take
<1>2. todo[t] \in Seq(Calls) /\ Call(t) \in Calls /\ Tail(todo[t]) \in Seq(Calls)
  BY <1>1 DEF Call
<1>3. todo' \in [Threads -> Seq(Calls)]
  BY <1>1, <1>2
<1>4. Call(t).key \in 0 .. MaxKey - 1 /\ Call(t).h \in Handles \cup {None}
  BY <1>2 DEF Calls
<1>5. BucketOf(Call(t).key) \in Buckets
  BY <1>4, Parties DEF BucketOf, Buckets
<1> QED BY <1>3, <1>4, <1>5

LEMMA GetKeeps ==
  ASSUME CInv, NEW t \in Clients, Get(t)
  PROVE  CInv'
<1> DEFINE k == Call(t).key
           l == buckets[BucketOf(k)]
           g == IF l = 0 THEN Idle ELSE Find(On(l), k, "getFor")
<1>1. t \in Threads \ {Compactor}
  BY Parties
<1>2. k \in 0 .. MaxKey - 1 /\ todo' \in [Threads -> Seq(Calls)] /\ BucketOf(k) \in Buckets
  BY <1>1, TakeType DEF Get
<1>3. l \notin Unused /\ (l # 0 => l \in Lists)
  BY <1>2, BucketList DEF CInv
<1>4. g \in Frames /\ FrameInv(g) /\ g.list \notin Unused /\ g.ret = "idle" /\ g.pc \in {"idle", "find"}
  <2>1. CASE l = 0
    BY <2>1, IdleType, IdleFrame, Parties DEF Idle
  <2>2. CASE l # 0
    <3>1. "getFor" \in SearchLabels /\ "getFor" # "linkUp" /\ "idle" \in FindReturns /\ Structure
      BY DEF SearchLabels, FindReturns, CInv, LInv
    <3>2. On(l) \in Frames /\ On(l).list = l /\ On(l).n = 0 /\ On(l).new = 0 /\ On(l).ret = "idle"
      BY <1>3, <2>2, OnFrame
    <3>3. Find(On(l), k, "getFor") \in Frames /\ FrameInv(Find(On(l), k, "getFor"))
      BY <1>2, <1>3, <2>2, <3>1, <3>2, FindFrame
    <3> QED BY <1>3, <2>2, <3>2, <3>3, FindShape
  <2> QED BY <2>1, <2>2
<1> HIDE DEF g
<1>5. frame' = [frame EXCEPT ![t] = g] /\ UNCHANGED <<node, counts, ownVars>>
  BY DEF Get, SetFrame, g
<1>6. CallInv(g, call[t])
  BY <1>4, PlainCall DEF EvictLabels
<1>7. Effect(t, g, call[t])
  BY <1>1, <1>4, <1>5, <1>6, ActorCall, SameCall DEF SetCall, Effect, ownVars
<1>8. OwnKept
  BY <1>5, SameOwn, SameMemory DEF ownVars
<1> QED BY <1>1, <1>2, <1>4, <1>5, <1>7, <1>8, OwnStepKeeps

LEMMA InsertKeeps ==
  ASSUME CInv, NEW t \in Clients, Insert(t)
  PROVE  CInv'
<1> DEFINE f == frame[t]
           h == Call(t).h
           k == Call(t).key
           l == buckets[BucketOf(k)]
           g == [f EXCEPT !.pc = "insertCheck"]
           c == [NoCall EXCEPT !.key = k, !.h = h, !.charge = Charge(h), !.list = l]
<1>1. t \in Threads \ {Compactor}
  BY Parties
<1>2. /\ k \in 0 .. MaxKey - 1 /\ h \in Handles \cup {None} /\ todo' \in [Threads -> Seq(Calls)]
      /\ BucketOf(k) \in Buckets
  BY <1>1, TakeType DEF Insert
<1>3. l \in 0 .. ListNum /\ l \notin Unused /\ (l # 0 => l \in Lists)
  BY <1>2, BucketList DEF CInv
<1>4. OwnKept /\ UNCHANGED <<node, counts>>
  BY SameOwn, SameMemory DEF Insert
<1>5. CASE UNCHANGED <<frame, call>>
  <2>1. frame' = [frame EXCEPT ![t] = f]
    BY <1>1, <1>5 DEF CInv, LInv, StateType
  <2>2. Effect(t, f, call[t])
    BY <1>1, <1>5, <2>1, ActorCall, SameCall DEF SetCall, Effect
  <2> QED BY <1>1, <1>2, <1>4, <2>2, ActorCall, OwnStepKeeps
<1>6. CASE l # 0 /\ Goto(t, "insertCheck") /\ SetCall(t, c)
  <2>1. f \in Frames /\ FrameInv(f) /\ f.pc = "idle" /\ f.list \notin Unused /\ f.new = 0
    BY <1>1, ActorCall, NotLinking DEF Insert, Take, At, CInv
  <2>2. "insertCheck" \in CacheLabels
    BY DEF CacheLabels
  <2>3. g \in Frames /\ FrameInv(g) /\ g.pc = "insertCheck" /\ g.list = f.list
    BY <2>1, <2>2, GotoFrame
  <2>4. c \in CallRecords /\ c.list = l /\ c.key = k
    <3>1. k \in 0 .. MaxKey /\ Charge(h) \in Nat
      BY <1>2, ClientAssumption, ListAssumption DEF Charge
    <3> QED BY <1>2, <1>3, <3>1, NoCallType DEF CallRecords
  <2> HIDE DEF g, c
  <2>5. CallInv(g, c)
    BY <1>2, <1>3, <1>6, <2>3, <2>4, InsertCall
  <2>6. frame' = [frame EXCEPT ![t] = g] /\ call' = [call EXCEPT ![t] = c]
    BY <1>6 DEF Goto, SetCall, g
  <2>7. Effect(t, g, c)
    BY <1>3, <2>1, <2>3, <2>4, <2>5, <2>6 DEF Effect
  <2> QED BY <1>1, <1>2, <1>4, <2>3, <2>7, OwnStepKeeps
<1> QED BY <1>5, <1>6 DEF Insert

\* Locals c for a frame f that goes on at label a.
Fits(f, a, c) ==
  /\ a \in CacheLabels /\ f.pc \notin {"iterateMarked", "linkUp", "count", "find"}
  /\ c \in CallRecords /\ c.list \notin Unused
  /\ {a, f.ret} \cap EvictLabels # {} => c.list \in Lists /\ c.key \in 0 .. MaxKey - 1
  /\ a \in {"evictGen", "evictLoad"} => c.entry \in Entries
  /\ a \in {"compactMarked", "compactNodes"} => f.list \in Lists

LEMMA GotoEffect ==
  ASSUME CInv, NEW t \in Threads, NEW a, Goto(t, a), NEW c, SetCall(t, c), Fits(frame[t], a, c)
  PROVE  \E g : Effect(t, g, c) /\ FrameInv(g) /\ g.pc = a /\ g.list = frame[t].list
<1> DEFINE f == frame[t]
           g == [f EXCEPT !.pc = a]
<1>1. f \in Frames /\ FrameInv(f) /\ f.list \notin Unused /\ f.new = 0
  BY ActorCall, NotLinking DEF CInv, Fits
<1>2. g \in Frames /\ FrameInv(g) /\ g.pc = a /\ g.list = f.list /\ g.ret = f.ret
  BY <1>1, GotoFrame DEF Fits
<1>3. frame' = [frame EXCEPT ![t] = g]
  BY DEF Goto
<1> HIDE DEF g
<1>4. CallInv(g, c)
  <2>1. a # "decayPush"
    BY DEF CacheLabels, Fits
  <2> QED BY <1>2, <2>1 DEF CallInv, Fits
<1> QED BY <1>1, <1>2, <1>3, <1>4 DEF Effect, Fits, SetCall

LEMMA ListInsertFrame ==
  ASSUME Structure, NEW c \in CallRecords, c.list \in Lists, c.key \in 0 .. MaxKey - 1
  PROVE  /\ ListInsert(c) \in Frames /\ FrameInv(ListInsert(c))
         /\ ListInsert(c).list = c.list /\ ListInsert(c).h = c.h /\ ListInsert(c).new = 0
         /\ \/ /\ ListInsert(c).pc = "find" /\ ListInsert(c).ret = "inserted"
               /\ ListInsert(c).after = "insert"
            \/ ListInsert(c).pc = "inserted" /\ ListInsert(c).ret = "idle" /\ c.h = None
<1> DEFINE f == [On(c.list) EXCEPT !.h = c.h, !.ret = "inserted"]
<1>1. "inserted" \in FindReturns /\ "inserted" \in Labels /\ "insert" \in SearchLabels /\ "insert" # "linkUp"
  BY LabelType DEF FindReturns, SearchLabels
<1>2. c.h \in Handles \cup {None}
  BY DEF CallRecords
<1>3. f \in Frames /\ f.list = c.list /\ f.n = 0 /\ f.new = 0 /\ f.ret = "inserted" /\ f.h = c.h
  <2>1. PICK o \in Frames : o = On(c.list) /\ o.list = c.list /\ o.n = 0 /\ o.new = 0
    BY OnFrame
  <2>2. f = [o EXCEPT !.h = c.h, !.ret = "inserted"]
    BY <2>1
  <2> QED BY <1>1, <1>2, <2>1, <2>2 DEF Frames
<1> HIDE DEF f
<1>4. ListInsert(c) = StartInsert(f, c.key)
  BY DEF ListInsert, f
<1>5. CASE ListInsert(c) = Find(f, c.key, "insert")
  <2>1. Find(f, c.key, "insert") \in Frames /\ FrameInv(Find(f, c.key, "insert"))
    BY <1>1, <1>3, FindFrame
  <2> QED BY <1>3, <1>5, <2>1, FindShape
<1>6. CASE c.h = None /\ ListInsert(c) = Done(f, 0, None)
  <2>1. 0 \in Refs
    BY ListAssumption DEF Refs
  <2>2. Done(f, 0, None) \in Frames /\ FrameInv(Done(f, 0, None))
    BY <1>1, <1>3, <2>1, DoneFrame
  <2>3. /\ Done(f, 0, None).pc = "inserted" /\ Done(f, 0, None).list = c.list
        /\ Done(f, 0, None).h = None /\ Done(f, 0, None).new = 0 /\ Done(f, 0, None).ret = "idle"
    BY <1>3 DEF Done, Idle
  <2> QED BY <1>6, <2>2, <2>3
<1> QED BY <1>3, <1>4, <1>5, <1>6, StartInsertFrame

LEMMA ListInsertEffect ==
  ASSUME CInv, NEW t \in Threads, frame[t].pc \in EvictLabels, SetFrame(t, ListInsert(call[t])), UNCHANGED call
  PROVE  Effect(t, ListInsert(call[t]), call[t]) /\ FrameInv(ListInsert(call[t]))
<1> DEFINE c == call[t]
           g == ListInsert(c)
<1>1. c \in CallRecords /\ c.list \in Lists /\ c.key \in 0 .. MaxKey - 1 /\ c.list \notin Unused
  BY ActorCall DEF CallInv
<1>2. g \in Frames /\ FrameInv(g) /\ g.list = c.list /\ g.pc \in {"find", "inserted"}
  BY <1>1, ListInsertFrame DEF CInv, LInv
<1>3. frame' = [frame EXCEPT ![t] = g] /\ call' = [call EXCEPT ![t] = c]
  BY SameCall DEF SetFrame, SetCall
<1> HIDE DEF g
<1>4. CallInv(g, c)
  BY <1>1, <1>2, InsertCall
<1> QED BY <1>1, <1>2, <1>3, <1>4 DEF Effect, g

LEMMA EvictAgain ==
  ASSUME NEW g, g = [Idle EXCEPT !.pc = "evict"]
  PROVE  /\ g \in Frames /\ FrameInv(g) /\ g.pc = "evict" /\ g.list = 0 /\ g.ret = "idle" /\ g.new = 0
<1>1. "evict" \in CacheLabels /\ Idle.new = 0 /\ Idle.pc = "idle" /\ Idle.list = 0 /\ Idle.ret = "idle"
  BY DEF CacheLabels, Idle
<1> QED BY <1>1, IdleType, IdleFrame, GotoFrame

LEMMA InsertCheckKeeps ==
  ASSUME CInv, NEW t \in Threads \ {Compactor}, InsertCheck(t)
  PROVE  CInv'
<1> DEFINE c == call[t]
           d == [c EXCEPT !.need = c.charge]
<1>1. frame[t].pc = "insertCheck" /\ "insertCheck" \in EvictLabels /\ "evict" \in CacheLabels
  BY DEF InsertCheck, At, EvictLabels, CacheLabels
<1>2. OwnKept /\ UNCHANGED <<node, counts>> /\ todo' \in [Threads -> Seq(Calls)]
  BY SameOwn, SameMemory, SameTodo DEF InsertCheck
<1>3. c \in CallRecords /\ c.list \notin Unused /\ c.list \in Lists /\ c.key \in 0 .. MaxKey - 1
  BY <1>1, ActorCall DEF CallInv
<1>4. CASE Goto(t, "evict") /\ SetCall(t, d)
  <2>1. d \in CallRecords /\ d.list = c.list /\ d.key = c.key
    BY <1>3 DEF CallRecords
  <2> HIDE DEF d
  <2>2. Fits(frame[t], "evict", d)
    BY <1>1, <1>3, <2>1 DEF Fits
  <2>3. \E g : Effect(t, g, d) /\ FrameInv(g) /\ g.pc = "evict" /\ g.list = frame[t].list
    BY <1>4, <2>2, GotoEffect
  <2> QED BY <1>2, <2>3, OwnStepKeeps
<1>5. CASE SetFrame(t, ListInsert(c)) /\ UNCHANGED call
  BY <1>1, <1>2, <1>5, ListInsertEffect, OwnStepKeeps
<1> QED BY <1>4, <1>5 DEF InsertCheck

LEMMA ChargeType == \A h \in Handles \cup {None} : Charge(h) \in Nat
BY ClientAssumption DEF Charge

LEMMA InsertedKeeps ==
  ASSUME CInv, NEW t \in Threads \ {Compactor}, Inserted(t)
  PROVE  CInv'
<1>1. memory_used' \in Int
  <2>1. call[t].charge \in Nat /\ Charge(frame[t].h) \in Nat /\ memory_used \in Int
    BY ActorCall, ChargeType DEF CallRecords, Frames, CInv, OwnType
  <2> QED BY <2>1 DEF Inserted
<1>2. OwnKept /\ UNCHANGED <<node, counts>> /\ todo' \in [Threads -> Seq(Calls)]
  BY <1>1, SameOwn, SameTodo DEF Inserted
<1>3. Idle.pc = "idle" /\ Idle.ret = "idle" /\ Idle.list = 0
  BY DEF Idle
<1>4. CallInv(Idle, NoCall)
  BY <1>3, PlainCall DEF EvictLabels
<1>5. Effect(t, Idle, NoCall)
  BY <1>3, <1>4, IdleType, NoCallType, Parties DEF Inserted, SetFrame, SetCall, Effect
<1> QED BY <1>2, <1>5, IdleFrame, OwnStepKeeps

LEMMA EvictSizeKeeps ==
  ASSUME CInv, NEW t \in Threads \ {Compactor}, EvictSize(t)
  PROVE  CInv'
<1>1. frame[t].pc = "evict" /\ "evict" \in EvictLabels /\ "evictPop" \in CacheLabels
  BY DEF EvictSize, At, EvictLabels, CacheLabels
<1>2. OwnKept /\ UNCHANGED <<node, counts, call>> /\ todo' \in [Threads -> Seq(Calls)]
  BY SameOwn, SameMemory, SameTodo DEF EvictSize, ownVars
<1>3. CASE Goto(t, "evictPop")
  <2>1. /\ call[t] \in CallRecords /\ call[t].list \notin Unused
        /\ call[t].list \in Lists /\ call[t].key \in 0 .. MaxKey - 1
    BY <1>1, ActorCall DEF CallInv
  <2>2. \E g : Effect(t, g, call[t]) /\ FrameInv(g) /\ g.pc = "evictPop" /\ g.list = frame[t].list
    <3>1. Fits(frame[t], "evictPop", call[t])
      BY <1>1, <2>1 DEF Fits
    <3> QED BY <1>2, <1>3, <3>1, SameCall, GotoEffect
  <2> QED BY <1>2, <2>2, OwnStepKeeps
<1>4. CASE SetFrame(t, ListInsert(call[t]))
  BY <1>1, <1>2, <1>4, ListInsertEffect, OwnStepKeeps
<1> QED BY <1>3, <1>4 DEF EvictSize

LEMMA EvictPopKeeps ==
  ASSUME CInv, NEW t \in Threads \ {Compactor}, EvictPop(t)
  PROVE  CInv'
<1> DEFINE c == call[t]
           d == [c EXCEPT !.entry = Head(low)]
<1>1. /\ frame[t].pc = "evictPop" /\ "evictPop" \in EvictLabels
      /\ "evict" \in CacheLabels /\ "evictGen" \in CacheLabels
  BY DEF EvictPop, At, EvictLabels, CacheLabels
<1>2. UNCHANGED <<node, counts>> /\ todo' \in [Threads -> Seq(Calls)] /\ UNCHANGED <<buckets, gen>>
      /\ memory_used' \in Int
  BY SameMemory, SameTodo DEF EvictPop
<1>3. c \in CallRecords /\ c.list \notin Unused /\ c.list \in Lists /\ c.key \in 0 .. MaxKey - 1
  BY <1>1, ActorCall DEF CallInv
<1>4. CASE Goto(t, "evict") /\ UNCHANGED <<low, call>>
  <2>1. \E g : Effect(t, g, c) /\ FrameInv(g) /\ g.pc = "evict" /\ g.list = frame[t].list
    <3>1. Fits(frame[t], "evict", c)
      BY <1>1, <1>3 DEF Fits
    <3> QED BY <1>4, <3>1, SameCall, GotoEffect
  <2>2. OwnKept
    BY <1>2, <1>4, SameOwn
  <2> QED BY <1>2, <2>1, <2>2, OwnStepKeeps
<1>5. CASE low # <<>> /\ low' = Tail(low) /\ SetCall(t, d) /\ Goto(t, "evictGen")
  <2>1. low \in Seq(Entries) /\ Len(low) <= LowCapacity /\ LowCapacity \in Nat
    BY CacheAssumption DEF CInv, OwnType
  <2>2. low' \in Seq(Entries) /\ Len(low') <= LowCapacity /\ Head(low) \in Entries
    BY <1>5, <2>1
  <2>3. OwnKept
    BY <1>2, <2>2, SameGen DEF OwnKept
  <2>4. d \in CallRecords /\ d.list = c.list /\ d.key = c.key /\ d.entry \in Entries
    BY <1>3, <2>2 DEF CallRecords
  <2> HIDE DEF d
  <2>5. Fits(frame[t], "evictGen", d)
    BY <1>1, <1>3, <2>4 DEF Fits
  <2>6. \E g : Effect(t, g, d) /\ FrameInv(g) /\ g.pc = "evictGen" /\ g.list = frame[t].list
    BY <1>5, <2>5, GotoEffect
  <2> QED BY <1>2, <2>3, <2>6, OwnStepKeeps
<1> QED BY <1>4, <1>5 DEF EvictPop

LEMMA EvictGenKeeps ==
  ASSUME CInv, NEW t \in Threads \ {Compactor}, EvictGen(t)
  PROVE  CInv'
<1>1. /\ frame[t].pc = "evictGen" /\ "evictGen" \in EvictLabels
      /\ "evict" \in CacheLabels /\ "evictLoad" \in CacheLabels
  BY DEF EvictGen, At, EvictLabels, CacheLabels
<1>2. OwnKept /\ UNCHANGED <<node, counts, call>> /\ todo' \in [Threads -> Seq(Calls)]
  BY SameOwn, SameMemory, SameTodo DEF EvictGen, ownVars
<1>3. PICK a \in {"evict", "evictLoad"} : Goto(t, a)
  BY DEF EvictGen
<1>4. \E g : Effect(t, g, call[t]) /\ FrameInv(g) /\ g.pc = a /\ g.list = frame[t].list
  <2>1. Fits(frame[t], a, call[t])
    BY <1>1, ActorCall DEF CallInv, Fits
  <2> QED BY <1>2, <1>3, <2>1, SameCall, GotoEffect
<1> QED BY <1>2, <1>4, OwnStepKeeps

LEMMA EvictLoadKeeps ==
  ASSUME CInv, NEW t \in Threads \ {Compactor}, EvictLoad(t)
  PROVE  CInv'
<1> DEFINE c == call[t]
           l == buckets[c.entry.bucket]
           k == c.entry.key
           o == [On(l) EXCEPT !.ret = "evictNode"]
           g == IF l = 0 THEN [Idle EXCEPT !.pc = "evict"] ELSE Find(o, k, "getNode")
           d == [c EXCEPT !.entry = <<>>]
<1>1. frame[t].pc = "evictLoad" /\ "evictLoad" \in EvictLabels
  BY DEF EvictLoad, At, EvictLabels
<1>2. OwnKept /\ UNCHANGED <<node, counts>> /\ todo' \in [Threads -> Seq(Calls)]
  BY SameOwn, SameMemory, SameTodo DEF EvictLoad
<1>3. /\ c \in CallRecords /\ c.list \notin Unused /\ c.list \in Lists /\ c.key \in 0 .. MaxKey - 1
      /\ c.entry \in Entries
  BY <1>1, ActorCall DEF CallInv
<1>4. c.entry.bucket \in Buckets /\ k \in 0 .. MaxKey - 1
  BY <1>3 DEF Entries
<1>5. l \notin Unused /\ (l # 0 => l \in Lists)
  BY <1>4, BucketList DEF CInv
<1>6. d \in CallRecords /\ d.list = c.list /\ d.key = c.key
  BY <1>3 DEF CallRecords
<1>7. g \in Frames /\ FrameInv(g) /\ g.list \notin Unused /\ g.pc \in {"evict", "find"}
  <2>1. CASE l = 0
    BY <2>1, EvictAgain, Parties
  <2>2. CASE l # 0
    <3>1. "evictNode" \in FindReturns /\ "evictNode" \in Labels /\ "getNode" \in SearchLabels /\ "getNode" # "linkUp"
      BY LabelType DEF FindReturns, SearchLabels
    <3>2. o \in Frames /\ o.list = l /\ o.n = 0 /\ o.new = 0 /\ o.ret = "evictNode"
      BY <1>5, <2>2, <3>1, OnFrame DEF Frames
    <3> HIDE DEF o
    <3>3. Find(o, k, "getNode") \in Frames /\ FrameInv(Find(o, k, "getNode"))
      BY <1>4, <1>5, <2>2, <3>1, <3>2, FindFrame DEF CInv, LInv
    <3> QED BY <1>5, <2>2, <3>2, <3>3, FindShape
  <2> QED BY <2>1, <2>2
<1>8. frame' = [frame EXCEPT ![t] = g] /\ call' = [call EXCEPT ![t] = d]
  BY DEF EvictLoad, SetFrame, SetCall
<1> HIDE DEF g, d
<1>9. CallInv(g, d)
  BY <1>3, <1>6, <1>7, InsertCall
<1>10. Effect(t, g, d)
  BY <1>3, <1>6, <1>7, <1>8, <1>9 DEF Effect
<1> QED BY <1>2, <1>7, <1>10, OwnStepKeeps

LEMMA EvictNodeKeeps ==
  ASSUME CInv, NEW t \in Threads \ {Compactor}, EvictNode(t)
  PROVE  CInv'
<1>1. PICK f \in Frames : f = frame[t] /\ FrameInv(f) /\ f.list \notin Unused
  BY ActorCall
<1> DEFINE c == call[t]
           g == IF f.n = 0 THEN [Idle EXCEPT !.pc = "evict"] ELSE MarkDeleted(f, f.n, FALSE, "evicted")
<1>2. f.pc = "evictNode" /\ "evictNode" \in EvictLabels
  BY <1>1 DEF EvictNode, At, EvictLabels
<1>3. OwnKept /\ UNCHANGED <<node, counts, call>> /\ todo' \in [Threads -> Seq(Calls)]
  BY SameOwn, SameMemory, SameTodo DEF EvictNode, ownVars
<1>4. c \in CallRecords /\ c.list \notin Unused /\ c.list \in Lists /\ c.key \in 0 .. MaxKey - 1
  BY <1>1, <1>2, ActorCall DEF CallInv
<1>5. g \in Frames /\ FrameInv(g) /\ g.list \notin Unused /\ g.pc \in {"evict", "mark"}
  <2>1. CASE f.n = 0
    BY <2>1, EvictAgain, Parties
  <2>2. CASE f.n # 0
    <3>1. f.list \in Lists /\ f.n \in Linked(f.list) /\ f.after \in IterateEnds /\ f.new = 0
      BY <1>1, <1>2, <2>2 DEF FrameInv, NodeInv, ReturnInv, NewInv, IsLinking
    <3>2. FALSE \in BOOLEAN /\ "evicted" \in MarkReturns
      BY DEF MarkReturns
    <3>3. MarkDeleted(f, f.n, FALSE, "evicted") \in Frames /\ FrameInv(MarkDeleted(f, f.n, FALSE, "evicted"))
      BY <3>1, <3>2, MarkDeletedFrame
    <3>4. /\ MarkDeleted(f, f.n, FALSE, "evicted").pc = "mark"
          /\ MarkDeleted(f, f.n, FALSE, "evicted").list = f.list
      BY DEF MarkDeleted, Frames
    <3> QED BY <1>1, <2>2, <3>3, <3>4
  <2> QED BY <2>1, <2>2
<1>6. frame' = [frame EXCEPT ![t] = g] /\ call' = [call EXCEPT ![t] = c]
  BY <1>1, <1>3, SameCall DEF EvictNode, SetFrame, SetCall
<1> HIDE DEF g
<1>7. CallInv(g, c)
  BY <1>4, <1>5, InsertCall
<1>8. Effect(t, g, c)
  BY <1>4, <1>5, <1>6, <1>7 DEF Effect
<1> QED BY <1>3, <1>5, <1>8, OwnStepKeeps

LEMMA EvictedKeeps ==
  ASSUME CInv, NEW t \in Threads \ {Compactor}, Evicted(t)
  PROVE  CInv'
<1> DEFINE c == call[t]
           g == [Idle EXCEPT !.pc = "evict"]
           d == [c EXCEPT !.need = @ - frame[t].charge]
<1>1. frame[t].pc = "evicted" /\ "evicted" \in EvictLabels
  BY DEF Evicted, At, EvictLabels
<1>2. frame[t].charge \in Nat /\ memory_used \in Int
  BY ActorCall DEF Frames, CInv, OwnType
<1>3. OwnKept /\ UNCHANGED <<node, counts>> /\ todo' \in [Threads -> Seq(Calls)]
  BY <1>2, SameOwn, SameTodo DEF Evicted
<1>4. c \in CallRecords /\ c.list \notin Unused /\ c.list \in Lists /\ c.key \in 0 .. MaxKey - 1
  BY <1>1, ActorCall DEF CallInv
<1>5. d \in CallRecords /\ d.list = c.list /\ d.key = c.key
  <2>1. c.need - frame[t].charge \in Int
    BY <1>2, <1>4 DEF CallRecords
  <2> QED BY <1>4, <2>1 DEF CallRecords
<1>6. frame' = [frame EXCEPT ![t] = g] /\ call' = [call EXCEPT ![t] = d]
  BY DEF Evicted, SetFrame, SetCall
<1>7. g \in Frames /\ FrameInv(g) /\ g.pc = "evict" /\ g.list = 0
  BY EvictAgain
<1> HIDE DEF g, d
<1>8. CallInv(g, d)
  BY <1>4, <1>5, <1>7, InsertCall
<1>9. Effect(t, g, d)
  BY <1>4, <1>5, <1>6, <1>7, <1>8, Parties DEF Effect
<1> QED BY <1>3, <1>7, <1>9, OwnStepKeeps

LEMMA ClientKeeps ==
  ASSUME CInv, NEW t \in Clients, Client(t)
  PROVE  CInv'
<1>1. t \in Threads \ {Compactor}
  BY Parties
<1> QED BY <1>1, InsertCheckKeeps, InsertedKeeps, EvictSizeKeeps, EvictPopKeeps, EvictGenKeeps, EvictLoadKeeps,
           EvictNodeKeeps, EvictedKeeps DEF Client
-----------------------------------------------------------------------------
(***************************************************************************)
(* The decay thread.                                                       *)
(***************************************************************************)
LEMMA NextIndexEffect ==
  ASSUME CInv, NEW t \in Threads, SetFrame(t, Idle), NextIndex(t)
  PROVE  \E c : Effect(t, Idle, c) /\ c.new = 0
<1> DEFINE c == [NoCall EXCEPT !.index = (call[t].index + 1) % BucketNum]
<1>1. c \in CallRecords /\ c.list = 0 /\ c.new = 0
  BY ActorCall, IndexType
<1>2. call' = [call EXCEPT ![t] = c] /\ frame' = [frame EXCEPT ![t] = Idle]
  BY DEF NextIndex, SetCall, SetFrame
<1> HIDE DEF c
<1>3. Idle.pc = "idle" /\ Idle.ret = "idle" /\ Idle.list = 0
  BY DEF Idle
<1>4. CallInv(Idle, c)
  BY <1>3, PlainCall DEF EvictLabels
<1> QED BY <1>1, <1>2, <1>3, <1>4, IdleType, Parties DEF Effect

LEMMA DecayCheckKeeps ==
  ASSUME CInv, NEW t \in Threads \ {Compactor}, DecayCheck(t)
  PROVE  CInv'
<1>1. frame[t].pc = "idle"
  BY DEF DecayCheck, At
<1>2. OwnKept /\ UNCHANGED <<node, counts, call>> /\ todo' \in [Threads -> Seq(Calls)]
  BY SameOwn, SameMemory, SameTodo DEF DecayCheck, ownVars
<1>3. PICK a \in {"exited", "decayLoad"} : Goto(t, a)
  BY DEF DecayCheck
<1>4. Fits(frame[t], a, call[t])
  BY <1>1, ActorCall DEF Fits, CallInv, CacheLabels, EvictLabels
<1> QED BY <1>2, <1>3, <1>4, SameCall, GotoEffect, OwnStepKeeps

LEMMA DecayLoadKeeps ==
  ASSUME CInv, NEW t \in Threads \ {Compactor}, DecayLoad(t)
  PROVE  CInv'
<1> DEFINE l == buckets[call[t].index]
           g == IterateLevel(On(l), "decayEnd")
<1>1. OwnKept /\ UNCHANGED <<node, counts>> /\ todo' \in [Threads -> Seq(Calls)]
  BY SameOwn, SameMemory, SameTodo DEF DecayLoad
<1>2. CASE SetFrame(t, Idle) /\ NextIndex(t)
  BY <1>1, <1>2, NextIndexEffect, IdleFrame, OwnStepKeeps
<1>3. CASE l # 0 /\ SetFrame(t, g) /\ UNCHANGED call
  <2>1. l \in Lists /\ l \notin Unused
    BY <1>3, ActorCall, BucketList DEF CallRecords, CInv
  <2>2. On(l) \in Frames /\ FrameInv(On(l)) /\ On(l).list = l /\ On(l).new = 0 /\ On(l).ret = "idle"
    BY <2>1, OnFrame
  <2>3. On(l).pc # "iterateMarked"
    BY DEF On, Idle
  <2>4. "decayEnd" \in IterateEnds
    BY DEF IterateEnds
  <2>5. g \in Frames /\ FrameInv(g) /\ g.pc = "iterate" /\ g.list = l /\ g.ret = "idle"
    BY <2>1, <2>2, <2>3, <2>4, IterateLevelFrame
  <2> HIDE DEF g
  <2>6. CallInv(g, call[t])
    BY <2>5, PlainCall DEF EvictLabels
  <2>7. Effect(t, g, call[t])
    BY <1>3, <2>1, <2>5, <2>6, ActorCall, SameCall DEF Effect, SetFrame, SetCall
  <2> QED BY <1>1, <2>5, <2>7, OwnStepKeeps
<1> QED BY <1>2, <1>3 DEF DecayLoad

\* The iteration goes on behind the node it is at.
LEMMA OnEffect ==
  ASSUME CInv, NEW t \in Threads, frame[t].pc \in VisitLabels, SetFrame(t, IterateOn(frame[t])),
         NEW c \in CallRecords, c.list \notin Unused, SetCall(t, c)
  PROVE  Effect(t, IterateOn(frame[t]), c) /\ FrameInv(IterateOn(frame[t]))
<1>1. PICK f \in Frames : f = frame[t] /\ FrameInv(f) /\ f.list \notin Unused
  BY ActorCall
<1> DEFINE g == IterateOn(f)
<1>2. f.list \in Lists /\ f.n \in Linked(f.list) /\ f.new = 0 /\ f.after \in IterateEnds
  BY <1>1, NodeInHand DEF NodeLabels, VisitLabels, IterateLabels
<1>3. g \in Frames /\ FrameInv(g) /\ g.list = f.list /\ g.pc = "iterate" /\ g.ret = "idle"
  BY <1>2, IterateOnFrame, IterateOnShape
<1> HIDE DEF g
<1>4. CallInv(g, c)
  BY <1>3, PlainCall DEF EvictLabels
<1>5. frame' = [frame EXCEPT ![t] = g] /\ call' = [call EXCEPT ![t] = c]
  BY <1>1 DEF SetFrame, SetCall, g
<1> QED BY <1>1, <1>3, <1>4, <1>5 DEF Effect, g

\* A visit goes on at another of its labels.
LEMMA VisitEffect ==
  ASSUME CInv, NEW t \in Threads, frame[t].pc \in VisitLabels, NEW a \in VisitLabels, Goto(t, a),
         NEW c \in CallRecords, c.list = call[t].list, c.key = call[t].key, SetCall(t, c),
         a = "decayPush" => c.entry \in Entries
  PROVE  \E g : Effect(t, g, c) /\ FrameInv(g)
<1>1. PICK f \in Frames : f = frame[t] /\ FrameInv(f) /\ f.list \notin Unused
  BY ActorCall
<1> DEFINE g == [f EXCEPT !.pc = a]
<1>2. g \in Frames /\ FrameInv(g) /\ g.list = f.list /\ g.pc = a /\ g.ret = f.ret
  BY <1>1, VisitFrame
<1>3. frame' = [frame EXCEPT ![t] = g] /\ call' = [call EXCEPT ![t] = c]
  BY <1>1 DEF Goto, SetCall
<1> HIDE DEF g
<1>4. CallInv(g, c)
  <2>1. CallInv(f, call[t])
    BY <1>1, ActorCall
  <2> QED BY <1>2, <2>1 DEF CallInv, VisitLabels, EvictLabels
<1>5. c.list \notin Unused
  BY ActorCall
<1> QED BY <1>1, <1>2, <1>3, <1>4, <1>5 DEF Effect

LEMMA DecayedKeeps ==
  ASSUME CInv, NEW t \in Threads \ {Compactor}, Decayed(t)
  PROVE  CInv'
<1>1. frame[t].pc \in VisitLabels /\ SetFrame(t, IterateOn(frame[t])) /\ UNCHANGED call
  BY DEF Decayed, At, VisitLabels
<1>2. frame[t].charge \in Nat /\ memory_used \in Int
  BY ActorCall DEF Frames, CInv, OwnType
<1>3. OwnKept /\ UNCHANGED <<node, counts>> /\ todo' \in [Threads -> Seq(Calls)]
  BY <1>2, SameOwn, SameTodo DEF Decayed
<1>4. Effect(t, IterateOn(frame[t]), call[t]) /\ FrameInv(IterateOn(frame[t]))
  BY <1>1, ActorCall, SameCall, OnEffect
<1> QED BY <1>3, <1>4, OwnStepKeeps

LEMMA DecayPublishKeeps ==
  ASSUME CInv, NEW t \in Threads \ {Compactor}, DecayPublish(t)
  PROVE  CInv'
<1>1. frame[t].pc \in VisitLabels /\ SetFrame(t, IterateOn(frame[t])) /\ UNCHANGED call
  BY DEF DecayPublish, At, VisitLabels
<1>2. low' \in Seq(Entries) /\ Len(low') <= LowCapacity
  <2>1. low \in Seq(Entries) /\ Len(low) <= LowCapacity
    BY DEF CInv, OwnType
  <2>2. \A e \in Entries : [e EXCEPT !.ready = TRUE] \in Entries
    BY DEF Entries
  <2>3. low' = [low EXCEPT ![Len(low)] = [low[Len(low)] EXCEPT !.ready = TRUE]]
    BY DEF DecayPublish
  <2>4. CASE Len(low) = 0
    <3>1. low = <<>> /\ low' = low
      BY <2>1, <2>3, <2>4
    <3> QED BY <2>1, <3>1
  <2>5. CASE Len(low) # 0
    <3>1. Len(low) \in 1 .. Len(low) /\ low[Len(low)] \in Entries
      BY <2>1, <2>5
    <3>2. [low[Len(low)] EXCEPT !.ready = TRUE] \in Entries
      BY <2>2, <3>1
    <3> QED BY <2>1, <2>3, <3>1, <3>2
  <2> QED BY <2>4, <2>5
<1>3. OwnKept /\ UNCHANGED <<node, counts>> /\ todo' \in [Threads -> Seq(Calls)]
  BY <1>2, SameMemory, SameTodo, SameGen DEF DecayPublish, OwnKept
<1>4. Effect(t, IterateOn(frame[t]), call[t]) /\ FrameInv(IterateOn(frame[t]))
  BY <1>1, ActorCall, SameCall, OnEffect
<1> QED BY <1>3, <1>4, OwnStepKeeps

LEMMA DecayGenKeeps ==
  ASSUME CInv, NEW t \in Threads \ {Compactor}, DecayGen(t)
  PROVE  CInv'
<1> DEFINE c == call[t]
           n == frame[t].n
           e == [bucket |-> c.index, gen |-> gen[c.index], ready |-> FALSE, key |-> node[n].key]
           d == [c EXCEPT !.entry = e]
<1>1. frame[t].pc \in VisitLabels /\ Goto(t, "decayPush") /\ SetCall(t, d) /\ "decayPush" \in VisitLabels
  BY DEF DecayGen, At, VisitLabels
<1>2. OwnKept /\ UNCHANGED <<node, counts>> /\ todo' \in [Threads -> Seq(Calls)]
  BY SameOwn, SameMemory, SameTodo DEF DecayGen
<1>3. c \in CallRecords /\ c.list \notin Unused /\ c.index \in Buckets
  BY ActorCall DEF CallRecords
<1>4. e \in Entries
  <2>1. frame[t].list \in Lists /\ n \in Linked(frame[t].list)
    BY <1>1, ActorCall, NodeInHand DEF NodeLabels, VisitLabels
  <2>2. node[n].key \in 0 .. MaxKey - 1
    BY <2>1, ListKeys DEF CInv
  <2>3. gen[c.index] \in Nat
    BY <1>3 DEF CInv, OwnType
  <2> QED BY <1>3, <2>2, <2>3 DEF Entries
<1> HIDE DEF e
<1>5. d \in CallRecords /\ d.list = c.list /\ d.key = c.key /\ d.entry = e
  BY <1>3, <1>4 DEF CallRecords
<1> HIDE DEF d
<1> QED BY <1>1, <1>2, <1>3, <1>4, <1>5, VisitEffect, OwnStepKeeps

LEMMA DecayPushKeeps ==
  ASSUME CInv, NEW t \in Threads \ {Compactor}, DecayPush(t)
  PROVE  CInv'
<1> DEFINE c == call[t]
           d == [c EXCEPT !.entry = <<>>]
<1>1. frame[t].pc = "decayPush" /\ frame[t].pc \in VisitLabels /\ SetCall(t, d) /\ "decayPublish" \in VisitLabels
  BY DEF DecayPush, At, VisitLabels
<1>2. UNCHANGED <<node, counts, buckets, gen>> /\ memory_used' \in Int /\ todo' \in [Threads -> Seq(Calls)]
  BY SameMemory, SameTodo DEF DecayPush
<1>3. c \in CallRecords /\ c.list \notin Unused /\ c.entry \in Entries
  BY <1>1, ActorCall DEF CallInv
<1>4. d \in CallRecords /\ d.list = c.list /\ d.key = c.key
  BY <1>3 DEF CallRecords
<1>5. low \in Seq(Entries) /\ Len(low) <= LowCapacity /\ LowCapacity \in Nat
  BY CacheAssumption DEF CInv, OwnType
<1> HIDE DEF d
<1>6. CASE Len(low) < LowCapacity /\ low' = Append(low, c.entry) /\ Goto(t, "decayPublish")
  <2>1. low' \in Seq(Entries) /\ Len(low') <= LowCapacity
    BY <1>3, <1>5, <1>6
  <2>2. OwnKept
    BY <1>2, <2>1, SameGen DEF OwnKept
  <2>3. \E g : Effect(t, g, d) /\ FrameInv(g)
    BY <1>1, <1>3, <1>4, <1>6, VisitEffect
  <2> QED BY <1>2, <2>2, <2>3, OwnStepKeeps
<1>7. CASE SetFrame(t, IterateOn(frame[t])) /\ UNCHANGED low
  <2>1. OwnKept
    BY <1>2, <1>7, SameOwn
  <2>2. Effect(t, IterateOn(frame[t]), d) /\ FrameInv(IterateOn(frame[t]))
    BY <1>1, <1>3, <1>4, <1>7, OnEffect
  <2> QED BY <1>2, <2>1, <2>2, OwnStepKeeps
<1> QED BY <1>6, <1>7 DEF DecayPush

LEMMA DecayEndKeeps ==
  ASSUME CInv, NEW t \in Threads \ {Compactor}, DecayEnd(t)
  PROVE  CInv'
<1>1. OwnKept /\ UNCHANGED <<node, counts>> /\ todo' \in [Threads -> Seq(Calls)]
  BY SameOwn, SameMemory, SameTodo DEF DecayEnd
<1> QED BY <1>1, NextIndexEffect, IdleFrame, OwnStepKeeps DEF DecayEnd

LEMMA SetHit ==
  ASSUME CInv, NEW n \in AllNodes, NEW x \in 0 .. MaxHitCount, node' = [node EXCEPT ![n].hit = x]
  PROVE  node' \in [AllNodes -> NodeRecords] /\ Quiet /\ Sealed
<1>1. node' \in [AllNodes -> NodeRecords] /\ Quiet
  BY SetHitQuiet DEF CInv, LInv
<1>2. node \in [AllNodes -> NodeRecords] /\ Nodes \subseteq AllNodes
  BY Numbers DEF CInv, LInv, StateType
<1>3. \A m \in AllNodes : IsMarked(m)' = IsMarked(m) /\ node'[m].list = node[m].list
  BY <1>2 DEF IsMarked, Word, NodeRecords
<1>4. Sealed
  BY <1>2, <1>3 DEF Sealed, Linked
<1> QED BY <1>1, <1>4

LEMMA DecayVisitKeeps ==
  ASSUME CInv, NEW t \in Threads \ {Compactor}, DecayVisit(t)
  PROVE  CInv'
<1> DEFINE c == call[t]
           hit == DecrHitCount(node[frame[t].n].hit, Delta)
<1>1. PICK f \in Frames : f = frame[t] /\ FrameInv(f) /\ f.list \notin Unused /\ f.pc = "visit"
  BY ActorCall DEF DecayVisit, At
<1>2. f.pc \in VisitLabels /\ f.pc \in NodeLabels \ {"iterateMarked"} /\ f.pc \in IterateLabels
  BY <1>1 DEF VisitLabels, NodeLabels, IterateLabels
<1>3. f.list \in Lists /\ f.n \in Linked(f.list) /\ f.n \in AllNodes /\ f.new = 0 /\ f.after \in IterateEnds
  BY <1>1, <1>2, NodeInHand
<1>4. hit \in 0 .. MaxHitCount
  <2>1. PICK x \in 0 .. MaxHitCount : x = node[f.n].hit
    BY <1>3 DEF CInv, LInv, StateType, NodeRecords
  <2>2. Delta \in Nat /\ MaxHitCount \in Nat
    BY CacheAssumption, ListAssumption
  <2>3. DecrHitCount(x, Delta) \in 0 .. MaxHitCount
    BY <2>2 DEF DecrHitCount
  <2> QED BY <1>1, <2>1, <2>3
<1>5. node' \in [AllNodes -> NodeRecords] /\ Quiet /\ Sealed
  BY <1>1, <1>3, <1>4, SetHit DEF DecayVisit
<1>6. /\ OwnKept /\ UNCHANGED call /\ todo' \in [Threads -> Seq(Calls)]
      /\ counts' \in [Lists -> [nodes : Nat, marked : Nat]]
  BY SameOwn, SameMemory, SameTodo DEF DecayVisit, ownVars, CInv, LInv, StateType
<1>7. c \in CallRecords /\ c.list \notin Unused /\ CallInv(f, c) /\ SetCall(t, c)
  BY <1>1, <1>6, ActorCall, SameCall
<1>8. PICK g : Effect(t, g, c) /\ FrameInv(g)
  <2>1. CASE SetFrame(t, IterateOn(f))
    BY <1>1, <1>2, <1>7, <2>1, OnEffect
  <2>2. CASE Goto(t, "decayGen")
    BY <1>1, <1>2, <1>7, <2>2, VisitEffect DEF VisitLabels
  <2>3. CASE SetFrame(t, MarkDeleted(f, f.n, TRUE, "decayed"))
    <3> DEFINE g == MarkDeleted(f, f.n, TRUE, "decayed")
    <3>1. TRUE \in BOOLEAN /\ "decayed" \in MarkReturns
      BY DEF MarkReturns
    <3>2. g \in Frames /\ FrameInv(g)
      BY <1>3, <3>1, MarkDeletedFrame
    <3>3. g.pc = "mark" /\ g.list = f.list /\ g.ret = "decayed"
      BY DEF MarkDeleted, Frames
    <3>4. frame' = [frame EXCEPT ![t] = g] /\ call' = [call EXCEPT ![t] = c]
      BY <1>7, <2>3 DEF SetFrame, SetCall
    <3> HIDE DEF g
    <3>5. CallInv(g, c)
      BY <3>3, PlainCall DEF EvictLabels
    <3>6. Effect(t, g, c)
      BY <1>1, <1>7, <3>2, <3>3, <3>4, <3>5 DEF Effect
    <3> QED BY <3>2, <3>6
  <2> QED BY <1>1, <2>1, <2>2, <2>3 DEF DecayVisit
<1>9. LInv'
  <2>1. Moves(t)
    BY <1>8 DEF Moves, Effect
  <2> QED BY <1>5, <1>6, <2>1, QuietLInv DEF CInv
<1> QED BY <1>5, <1>6, <1>8, <1>9, QuietGrows, ThreadKeeps

LEMMA DecayKeeps ==
  ASSUME CInv, Decay(Decayer)
  PROVE  CInv'
<1>1. Decayer \in Threads \ {Compactor}
  BY Parties
<1> QED BY <1>1, DecayCheckKeeps, DecayLoadKeeps, DecayVisitKeeps, DecayGenKeeps, DecayPushKeeps,
           DecayPublishKeeps, DecayedKeeps, DecayEndKeeps DEF Decay
-----------------------------------------------------------------------------
(***************************************************************************)
(* The compaction thread.                                                  *)
(***************************************************************************)
LEMMA CompactorCall ==
  ASSUME CInv
  PROVE  /\ Compactor \in Threads /\ frame[Compactor] \in Frames /\ FrameInv(frame[Compactor])
         /\ frame[Compactor].list \notin Unused /\ frame[Compactor].ret = "idle"
         /\ call[Compactor] \in CallRecords /\ CallInv(frame[Compactor], call[Compactor])
         /\ call[Compactor].list \notin Unused
         /\ \A l \in Unused : l # call[Compactor].new => Linked(l) = {}
BY ActorCall, Parties DEF CInv, CompactorInv, Apart

\* While no copy is under way there is nothing in the lists not in use.
LEMMA CompactorRests ==
  ASSUME CInv, frame[Compactor].pc \in RestLabels
  PROVE  call[Compactor].new = 0 /\ \A l \in Unused : Linked(l) = {}
BY CompactorCall, Parties DEF CInv, CompactorInv

LEMMA RestKeeps ==
  ASSUME CInv, UNCHANGED <<node, counts, todo>>, OwnKept, NEW g, NEW c, Effect(Compactor, g, c), FrameInv(g),
         g.pc \in RestLabels, g.ret = "idle", c.new = 0, \A l \in Unused : Linked(l) = {},
         g.pc \in {"compactMarked", "compactNodes"} => Unused # {}
  PROVE  CInv'
<1>1. CompactorInv(g, c)
  BY DEF CompactorInv, RestLabels, CopyLabels
<1>2. Copied(g, c)
  BY DEF Copied, RestLabels, CopyLabels
<1> QED BY <1>1, <1>2, CompactorKeeps

LEMMA CompactCheckKeeps ==
  ASSUME CInv, CompactCheck(Compactor)
  PROVE  CInv'
<1>1. PICK f \in Frames : f = frame[Compactor] /\ FrameInv(f) /\ f.pc = "idle"
  BY CompactorCall DEF CompactCheck, At
<1> DEFINE c == call[Compactor]
           l == buckets[c.index]
<1>2. OwnKept /\ UNCHANGED <<node, counts, todo>>
  BY SameOwn, SameMemory DEF CompactCheck
<1>3. c.new = 0 /\ \A m \in Unused : Linked(m) = {}
  BY <1>1, CompactorRests DEF RestLabels
<1>4. f.ret = "idle" /\ c \in CallRecords /\ c.index \in Buckets
  BY <1>1, CompactorCall DEF CallRecords
<1>5. CASE Goto(Compactor, "exited") /\ UNCHANGED call
  <2> DEFINE g == [f EXCEPT !.pc = "exited"]
  <2>1. "exited" \in CacheLabels /\ f.new = 0
    BY <1>1, NotLinking, Parties DEF CacheLabels, CInv
  <2>2. g \in Frames /\ FrameInv(g) /\ g.pc = "exited" /\ g.list = f.list /\ g.ret = "idle"
    BY <1>1, <1>4, <2>1, GotoFrame
  <2>3. frame' = [frame EXCEPT ![Compactor] = g] /\ call' = [call EXCEPT ![Compactor] = c]
    BY <1>1, <1>5, SameCall, Parties DEF Goto, SetCall
  <2> HIDE DEF g
  <2>4. CallInv(g, c)
    BY <2>2, PlainCall DEF EvictLabels
  <2>5. Effect(Compactor, g, c)
    BY <1>1, <1>4, <2>2, <2>3, <2>4, CompactorCall DEF Effect
  <2> QED BY <1>2, <1>3, <2>2, <2>5, RestKeeps DEF RestLabels
<1>6. CASE NextIndex(Compactor) /\ UNCHANGED frame
  <2> DEFINE d == [NoCall EXCEPT !.index = (c.index + 1) % BucketNum]
  <2>1. d \in CallRecords /\ d.list = 0 /\ d.new = 0
    BY <1>4, IndexType
  <2>2. frame' = [frame EXCEPT ![Compactor] = f] /\ call' = [call EXCEPT ![Compactor] = d]
    BY <1>1, <1>6, Parties DEF NextIndex, SetCall, CInv, LInv, StateType
  <2> HIDE DEF d
  <2>3. CallInv(f, d)
    BY <1>1, <1>4, PlainCall DEF EvictLabels
  <2>4. Effect(Compactor, f, d)
    BY <1>1, <2>1, <2>2, <2>3, CompactorCall, Parties DEF Effect
  <2> QED BY <1>1, <1>2, <1>3, <1>4, <2>1, <2>4, RestKeeps DEF RestLabels
<1>7. CASE l # 0 /\ Unused # {} /\ SetFrame(Compactor, [On(l) EXCEPT !.pc = "compactMarked"]) /\ UNCHANGED call
  <2>1. l \in Lists /\ l \notin Unused
    BY <1>4, <1>7, BucketList DEF CInv
  <2>2. PICK o \in Frames : o = On(l) /\ FrameInv(o) /\ o.list = l /\ o.new = 0 /\ o.ret = "idle" /\ o.pc = "idle"
    BY <2>1, OnFrame
  <2> DEFINE g == [o EXCEPT !.pc = "compactMarked"]
  <2>3. "compactMarked" \in CacheLabels
    BY DEF CacheLabels
  <2>4. g \in Frames /\ FrameInv(g) /\ g.pc = "compactMarked" /\ g.list = l /\ g.ret = "idle"
    BY <2>2, <2>3, GotoFrame
  <2>5. frame' = [frame EXCEPT ![Compactor] = g] /\ call' = [call EXCEPT ![Compactor] = c]
    BY <1>7, <2>2, SameCall, Parties DEF SetFrame, SetCall
  <2> HIDE DEF g
  <2>6. CallInv(g, c)
    BY <2>1, <2>4 DEF CallInv, EvictLabels
  <2>7. Effect(Compactor, g, c)
    BY <1>4, <2>1, <2>4, <2>5, <2>6, CompactorCall DEF Effect
  <2> QED BY <1>2, <1>3, <1>7, <2>4, <2>7, RestKeeps DEF RestLabels
<1> QED BY <1>5, <1>6, <1>7 DEF CompactCheck

LEMMA CompactMarkedKeeps ==
  ASSUME CInv, CompactMarked(Compactor)
  PROVE  CInv'
<1>1. PICK f \in Frames : f = frame[Compactor] /\ FrameInv(f) /\ f.pc = "compactMarked"
  BY CompactorCall DEF CompactMarked, At
<1> DEFINE c == call[Compactor]
           d == [c EXCEPT !.marked = counts[f.list].marked]
           g == [f EXCEPT !.pc = "compactNodes"]
<1>2. OwnKept /\ UNCHANGED <<node, counts, todo>>
  BY SameOwn, SameMemory DEF CompactMarked
<1>3. /\ c.new = 0 /\ \A m \in Unused : Linked(m) = {}
      /\ f.ret = "idle" /\ c \in CallRecords /\ f.list \in Lists /\ Unused # {} /\ f.new = 0
  BY <1>1, CompactorRests, CompactorCall, NotLinking DEF RestLabels, CallInv, CInv, CompactorInv
<1>4. d \in CallRecords /\ d.list = c.list /\ d.new = 0
  <2>1. counts[f.list].marked \in Nat
    BY <1>3 DEF CInv, LInv, StateType
  <2> QED BY <1>3, <2>1 DEF CallRecords
<1>5. "compactNodes" \in CacheLabels
  BY DEF CacheLabels
<1>6. g \in Frames /\ FrameInv(g) /\ g.pc = "compactNodes" /\ g.list = f.list /\ g.ret = "idle"
  BY <1>1, <1>3, <1>5, GotoFrame
<1>7. frame' = [frame EXCEPT ![Compactor] = g] /\ call' = [call EXCEPT ![Compactor] = d]
  BY <1>1 DEF CompactMarked, Goto, SetCall
<1> HIDE DEF g, d
<1>8. CallInv(g, d)
  BY <1>3, <1>6 DEF CallInv, EvictLabels
<1>9. Effect(Compactor, g, d)
  BY <1>1, <1>4, <1>6, <1>7, <1>8, CompactorCall DEF Effect
<1> QED BY <1>2, <1>3, <1>4, <1>6, <1>9, RestKeeps DEF RestLabels

LEMMA CompactNodesKeeps ==
  ASSUME CInv, CompactNodes(Compactor)
  PROVE  CInv'
<1>1. PICK f \in Frames : f = frame[Compactor] /\ FrameInv(f) /\ f.pc = "compactNodes"
  BY CompactorCall DEF CompactNodes, At
<1>2. OwnKept /\ UNCHANGED <<node, counts, todo>>
  BY SameOwn, SameMemory DEF CompactNodes
<1> DEFINE c == call[Compactor]
<1>3. /\ c.new = 0 /\ \A m \in Unused : Linked(m) = {}
      /\ f.ret = "idle" /\ c \in CallRecords /\ f.list \in Lists /\ Unused # {} /\ f.new = 0
  BY <1>1, CompactorRests, CompactorCall, NotLinking DEF RestLabels, CallInv, CInv, CompactorInv
<1>4. CASE SetFrame(Compactor, Idle) /\ NextIndex(Compactor)
  <2>1. Idle.pc = "idle" /\ Idle.ret = "idle"
    BY DEF Idle
  <2>2. \E d : Effect(Compactor, Idle, d) /\ d.new = 0
    BY <1>4, NextIndexEffect, Parties
  <2> QED BY <1>2, <1>3, <2>1, <2>2, IdleFrame, RestKeeps DEF RestLabels
<1>5. CASE /\ SetFrame(Compactor, IterateLevel(f, "compactSwap"))
           /\ SetCall(Compactor, [c EXCEPT !.marked = 0, !.new = CHOOSE l \in Unused : TRUE])
  <2>1. PICK new \in Unused : new = CHOOSE l \in Unused : TRUE
    BY <1>3
  <2> DEFINE g == IterateLevel(f, "compactSwap")
             d == [c EXCEPT !.marked = 0, !.new = new]
  <2>2. new \in Lists /\ new \in 0 .. ListNum
    BY Parties DEF Lists
  <2>3. d \in CallRecords /\ d.list = c.list /\ d.new = new
    BY <1>3, <2>2 DEF CallRecords
  <2>4. "compactSwap" \in IterateEnds
    BY DEF IterateEnds
  <2>5. /\ g \in Frames /\ FrameInv(g) /\ g.pc = "iterate" /\ g.list = f.list /\ g.ret = "idle"
        /\ g.after = "compactSwap"
    BY <1>1, <1>3, <2>4, IterateLevelFrame
  <2>6. frame' = [frame EXCEPT ![Compactor] = g] /\ call' = [call EXCEPT ![Compactor] = d]
    BY <1>5, <2>1 DEF SetFrame, SetCall
  <2> HIDE DEF g, d
  <2>7. CallInv(g, d)
    BY <2>5, PlainCall DEF EvictLabels
  <2>8. Effect(Compactor, g, d)
    BY <1>1, <2>3, <2>5, <2>6, <2>7, CompactorCall DEF Effect
  <2>9. CompactorInv(g, d)
    BY <2>3, <2>5 DEF CompactorInv, CopyLabels, RestLabels
  <2>10. Copied(g, d)
    BY <1>3, <2>3 DEF Copied
  <2> QED BY <1>2, <1>3, <2>5, <2>8, <2>9, <2>10, CompactorKeeps
<1> QED BY <1>1, <1>4, <1>5 DEF CompactNodes

LEMMA CompactGenKeeps ==
  ASSUME CInv, CompactGen(Compactor)
  PROVE  CInv'
<1>1. frame[Compactor].pc = "compactGen"
  BY DEF CompactGen, At
<1>2. PICK d : Effect(Compactor, Idle, d) /\ d.new = 0
  BY NextIndexEffect, Parties DEF CompactGen
<1>3. Idle.pc = "idle" /\ Idle.ret = "idle"
  BY DEF Idle
<1>4. \A l \in Unused : Linked(l) = {}
  BY <1>1, CompactorCall DEF CInv, CompactorInv
<1>5. OwnKept /\ UNCHANGED <<node, counts, todo>>
  <2>1. call[Compactor].index \in Buckets /\ gen \in [Buckets -> Nat]
    BY CompactorCall DEF CallRecords, CInv, OwnType
  <2>2. gen' = [gen EXCEPT ![call[Compactor].index] = gen[call[Compactor].index] + 1]
    BY DEF CompactGen
  <2>3. gen' \in [Buckets -> Nat]
    BY <2>1, <2>2
  <2> QED BY <2>3 DEF CompactGen, OwnKept, CInv, OwnType
<1> QED BY <1>2, <1>3, <1>4, <1>5, IdleFrame, RestKeeps DEF RestLabels

\* The copy takes the place of the bucket: it is in use now.
LEMMA CompactSwapKeeps ==
  ASSUME CInv, CompactSwap(Compactor)
  PROVE  CInv'
<1>1. PICK f \in Frames : f = frame[Compactor] /\ FrameInv(f) /\ f.pc = "compactSwap"
  BY CompactorCall DEF CompactSwap, At
<1> DEFINE c == call[Compactor]
<1>2. /\ c \in CallRecords /\ c.index \in Buckets /\ c.new \in Unused /\ f.ret = "idle" /\ f.new = 0
      /\ UNCHANGED <<node, counts, todo, call>>
  BY <1>1, CompactorCall, NotLinking DEF CInv, CompactorInv, CallRecords, CompactSwap
<1>3. "compactGen" \in CacheLabels
  BY DEF CacheLabels
<1>4. PICK g \in Frames : /\ g = [f EXCEPT !.pc = "compactGen"]
                          /\ FrameInv(g) /\ g.pc = "compactGen" /\ g.list = f.list /\ g.ret = "idle"
  <2> DEFINE g == [f EXCEPT !.pc = "compactGen"]
  <2>1. g \in Frames /\ FrameInv(g) /\ g.pc = "compactGen" /\ g.list = f.list /\ g.ret = "idle"
    BY <1>1, <1>2, <1>3, GotoFrame
  <2> HIDE DEF g
  <2>2. g = [f EXCEPT !.pc = "compactGen"]
    BY DEF g
  <2> QED BY <2>1, <2>2
<1>5. frame' = [frame EXCEPT ![Compactor] = g]
  BY <1>1, <1>4 DEF CompactSwap, Goto
<1>6. buckets' \in [Buckets -> 0 .. ListNum] /\ buckets'[c.index] = c.new
      /\ \A b \in Buckets : b # c.index => buckets'[b] = buckets[b]
  <2>1. c.new \in 0 .. ListNum
    BY <1>2 DEF CallRecords
  <2> QED BY <1>2, <2>1 DEF CompactSwap, CInv, OwnType
<1>7. Unused' \subseteq Unused /\ c.new \notin Unused'
  <2> SUFFICES ASSUME NEW l \in Unused' PROVE l \in Unused /\ l # c.new
    OBVIOUS
  <2>1. l \in Lists /\ l > BucketNum /\ \A b \in Buckets : buckets'[b] < l
    BY DEF Unused
  <2>2. c.new < l /\ buckets[c.index] < c.new /\ c.new \in Lists
    BY <1>2, <1>6, <2>1 DEF Unused
  <2>3. buckets[c.index] \in Int /\ l \in Int /\ c.new \in Int
    BY <1>2, <2>1, <2>2, BucketList DEF CInv, Lists
  <2>4. \A b \in Buckets : buckets[b] < l
    BY <1>6, <2>1, <2>2, <2>3
  <2> QED BY <2>1, <2>2, <2>3, <2>4 DEF Unused
<1>8. LInv'
  <2>1. Moves(Compactor)
    BY <1>4, <1>5 DEF Moves
  <2>2. /\ node \in [AllNodes -> NodeRecords] /\ counts \in [Lists -> [nodes : Nat, marked : Nat]]
        /\ todo \in [Threads -> Seq(Calls)]
    BY DEF CInv, LInv, StateType
  <2> QED BY <1>2, <2>1, <2>2, UnchangedQuiet, QuietLInv, Parties DEF CInv
<1>9. OwnType'
  BY <1>2, <1>6 DEF CompactSwap, CInv, OwnType
<1>10. frame'[Compactor] = g /\ \A u \in Threads : u # Compactor => frame'[u] = frame[u]
  BY <1>5, Parties DEF CInv, LInv, StateType
<1>11. CallsInv'
  <2> SUFFICES ASSUME NEW u \in Threads PROVE CallInv(frame[u], call[u])'
    BY DEF CallsInv
  <2>1. CASE u = Compactor
    BY <1>4, <1>10, <2>1 DEF CallInv, EvictLabels
  <2>2. CASE u # Compactor
    BY <1>2, <1>10, <2>2 DEF CInv, CallsInv, CallInv
  <2> QED BY <2>1, <2>2
<1>12. Apart'
  <2>1. \A u \in Threads : frame'[u].list = frame[u].list
    BY <1>1, <1>4, <1>10
  <2>2. \A l : Linked(l)' = Linked(l)
    BY <1>2 DEF Linked
  <2> QED BY <1>2, <1>7, <2>1, <2>2 DEF CInv, Apart
<1>13. CompactorInv(g, c)' /\ Copied(g, c)'
  BY <1>2, <1>4, <1>7 DEF CompactorInv, Copied, CopyLabels, RestLabels
<1> QED BY <1>2, <1>8, <1>9, <1>10, <1>11, <1>12, <1>13 DEF CInv
-----------------------------------------------------------------------------
(***************************************************************************)
(* The copying of a node: x, which has been in no list, comes behind all   *)
(* nodes of list l, at the levels up to top at once.                       *)
(***************************************************************************)
Appends(l, k, x, top) ==
  /\ node[x].list = 0
  /\ node'[x].list = l /\ node'[x].key = k
  /\ \A i \in Levels : Word(x, i)'.to = (IF i > top THEN 0 ELSE TailNode(l)) /\ ~Word(x, i)'.mark
  /\ \A m \in AllNodes : m # x =>
       /\ node'[m].list = node[m].list /\ node'[m].key = node[m].key /\ node'[m].handle = node[m].handle
       /\ \A i \in Levels : Word(m, i)' = IF i <= top /\ Word(m, i).to = TailNode(l)
                                          THEN LinkWord(Word(m, i), x) ELSE Word(m, i)

\* Behind all nodes there is room for key k.
Room(l, k) == k \in 0 .. MaxKey - 1 /\ \A n \in Linked(l) : node[n].key < k

LEMMA AppendEffect ==
  ASSUME LInv, NEW l \in Lists, NEW k \in 0 .. MaxKey - 1, NEW h \in Handles \cup {None}, AppendNode(l, k, h)
  PROVE  \E x \in Nodes, top \in Levels :
           /\ Appends(l, k, x, top) /\ node' \in [AllNodes -> NodeRecords]
           /\ node'[x].handle = h
           /\ counts' \in [Lists -> [nodes : Nat, marked : Nat]]
<1>1. PICK x \in Nodes : x = Fresh /\ node[x].list = 0
  BY DEF AppendNode, Fresh
<1>2. PICK top \in Levels :
        /\ node' = [m \in AllNodes |->
             IF m = x
             THEN NewNode(l, k, h, [i \in Levels |-> IF i > top THEN NullWord
                                                     ELSE PackPtr(TailNode(l), 0, FALSE)])
             ELSE [node[m] EXCEPT !.nexts = [i \in Levels |->
                     IF i <= top /\ @[i].to = TailNode(l) THEN LinkWord(@[i], x) ELSE @[i]]]]
        /\ counts' = [counts EXCEPT ![l].nodes = @ + 1]
  <2> DEFINE AtEnd(n, top) ==
        /\ node' = [m \in AllNodes |->
             IF m = n
             THEN NewNode(l, k, h, [i \in Levels |-> IF i > top THEN NullWord
                                                     ELSE PackPtr(TailNode(l), 0, FALSE)])
             ELSE [node[m] EXCEPT !.nexts = [i \in Levels |->
                     IF i <= top /\ @[i].to = TailNode(l) THEN LinkWord(@[i], n) ELSE @[i]]]]
        /\ counts' = [counts EXCEPT ![l].nodes = @ + 1]
  <2>1. \E top \in Levels : AtEnd(Fresh, top)
    BY Zenon DEF AppendNode, RandomLevel
  <2> HIDE DEF AtEnd
  <2>2. \E top \in Levels : AtEnd(x, top)
    BY <1>1, <2>1, Zenon
  <2> QED BY <2>2, Zenon DEF AtEnd
<1> DEFINE T == TailNode(l)
           nexts == [i \in Levels |-> IF i > top THEN NullWord ELSE PackPtr(T, 0, FALSE)]
           r == NewNode(l, k, h, nexts)
           words(m) == [i \in Levels |-> IF i <= top /\ node[m].nexts[i].to = T
                                         THEN LinkWord(node[m].nexts[i], x) ELSE node[m].nexts[i]]
<1>3. T \in Refs /\ x \in Refs /\ x \in AllNodes /\ FALSE \in BOOLEAN /\ 0 \in Nat
  BY Numbers
<1>4. nexts \in [Levels -> Words] /\ \A i \in Levels : nexts[i].to = (IF i > top THEN 0 ELSE T) /\ ~nexts[i].mark
  <2>1. PackPtr(T, 0, FALSE) \in Words /\ PackPtr(T, 0, FALSE).to = T /\ ~PackPtr(T, 0, FALSE).mark
    <3>1. PackPtr(T, 0, FALSE) \in Words /\ PackPtr(T, 0, FALSE).to = T
      BY <1>3, PackType
    <3>2. ~PackPtr(T, 0, FALSE).mark
      BY DEF PackPtr
    <3> QED BY <3>1, <3>2
  <2>2. NullWord.to = 0 /\ ~NullWord.mark
    BY DEF NullWord
  <2> QED BY <2>1, <2>2, NullType
<1> HIDE DEF nexts
<1>5. r \in NodeRecords /\ r.list = l /\ r.key = k /\ r.nexts = nexts /\ r.handle = h
  <2>1. l \in 0 .. ListNum /\ k \in -1 .. MaxKey
    BY ListAssumption DEF Lists
  <2>2. r.handle = h
    BY DEF NewNode
  <2> QED BY <1>4, <2>1, <2>2, NewNodeType
<1> HIDE DEF r
<1>6. ASSUME NEW m \in AllNodes
      PROVE  /\ node[m] \in NodeRecords /\ words(m) \in [Levels -> Words]
             /\ [node[m] EXCEPT !.nexts = words(m)] \in NodeRecords
             /\ [node[m] EXCEPT !.nexts = words(m)].list = node[m].list
             /\ [node[m] EXCEPT !.nexts = words(m)].key = node[m].key
             /\ [node[m] EXCEPT !.nexts = words(m)].handle = node[m].handle
             /\ [node[m] EXCEPT !.nexts = words(m)].nexts = words(m)
  <2>1. node[m] \in NodeRecords /\ node[m].nexts \in [Levels -> Words]
    BY DEF LInv, StateType, NodeRecords
  <2>2. \A w \in Words : LinkWord(w, x) \in Words
    <3> SUFFICES ASSUME NEW w \in Words PROVE LinkWord(w, x) \in Words
      OBVIOUS
    <3>1. w.ver + 1 \in Nat
      BY ListAssumption DEF Words
    <3> QED BY <1>3, <3>1, PackType DEF LinkWord
  <2>3. words(m) \in [Levels -> Words]
    BY <2>1, <2>2
  <2> HIDE DEF words
  <2> QED BY <2>1, <2>3 DEF NodeRecords
<1>7. node' = [m \in AllNodes |-> IF m = x THEN r ELSE [node[m] EXCEPT !.nexts = words(m)]]
  BY <1>2 DEF r, nexts
<1>8. \A m \in AllNodes : \A i \in Levels :
        words(m)[i] = IF i <= top /\ Word(m, i).to = T THEN LinkWord(Word(m, i), x) ELSE Word(m, i)
  BY DEF Word
<1> HIDE DEF words
<1>9. node' \in [AllNodes -> NodeRecords]
  BY <1>5, <1>6, <1>7
<1>10. node'[x] = r /\ \A m \in AllNodes : m # x => node'[m] = [node[m] EXCEPT !.nexts = words(m)]
  BY <1>3, <1>7
<1>11. ASSUME NEW m \in AllNodes, m # x
       PROVE  /\ node'[m].list = node[m].list /\ node'[m].key = node[m].key /\ node'[m].handle = node[m].handle
              /\ \A i \in Levels : Word(m, i)' = IF i <= top /\ Word(m, i).to = T
                                                 THEN LinkWord(Word(m, i), x) ELSE Word(m, i)
  <2>1. /\ node'[m].list = node[m].list /\ node'[m].key = node[m].key /\ node'[m].handle = node[m].handle
        /\ node'[m].nexts = words(m)
    BY <1>6, <1>10, <1>11
  <2> QED BY <1>8, <2>1 DEF Word
<1>12. \A i \in Levels : Word(x, i)'.to = (IF i > top THEN 0 ELSE T) /\ ~Word(x, i)'.mark
  BY <1>4, <1>5, <1>10 DEF Word
<1>13. Appends(l, k, x, top)
  BY <1>1, <1>5, <1>10, <1>11, <1>12 DEF Appends
<1>14. counts' \in [Lists -> [nodes : Nat, marked : Nat]]
  <2>1. counts[l] \in [nodes : Nat, marked : Nat] /\ counts \in [Lists -> [nodes : Nat, marked : Nat]]
    BY DEF LInv, StateType
  <2> QED BY <1>2, <2>1
<1> QED BY <1>5, <1>9, <1>10, <1>13, <1>14

\* Where the words lead, and the nodes of the lists.
Appended(l, x, top) ==
  /\ Grow /\ x # 0
  /\ \A j \in Lists : Linked(j)' = IF j = l THEN Linked(j) \cup {x} ELSE Linked(j)
  /\ \A j \in Lists : \A i \in Levels :
       OnLevel(j, i)' = IF j = l /\ i <= top THEN OnLevel(j, i) \cup {x} ELSE OnLevel(j, i)
  /\ \A m \in AllNodes : m # x => \A i \in Levels :
       Word(m, i)'.to = IF i <= top /\ Word(m, i).to = TailNode(l) THEN x ELSE Word(m, i).to
  /\ \A j \in Lists : \A m \in Linked(j) \cup {HeadNode(j), TailNode(j)} :
       /\ m # x /\ m \in AllNodes /\ node'[m].key = node[m].key /\ node'[m].list = node[m].list
       /\ node[m].key \in Int

LEMMA AppendSets ==
  ASSUME LInv, NEW l \in Lists, NEW k, NEW x \in Nodes, NEW top \in Levels, Appends(l, k, x, top)
  PROVE  Appended(l, x, top)
<1>1. x # 0 /\ x \in AllNodes /\ \A w : LinkWord(w, x).to = x
  BY Numbers DEF LinkWord, PackPtr
<1>2. \A m \in AllNodes : m # x => \A i \in Levels :
        Word(m, i)'.to = IF i <= top /\ Word(m, i).to = TailNode(l) THEN x ELSE Word(m, i).to
  BY <1>1 DEF Appends
<1>3. TailNode(l) # 0
  BY Numbers
<1>4. \A m \in AllNodes : m # x => \A i \in Levels : Word(m, i)'.to # 0 <=> Word(m, i).to # 0
  BY <1>1, <1>2, <1>3
<1>5. Grow
  BY <1>4 DEF Appends, Grow
<1>6. \A j \in Lists : \A m \in Linked(j) \cup {HeadNode(j), TailNode(j)} : m \in AllNodes /\ node[m].list = j
  BY Numbers DEF LInv, Structure, Sentinels, Linked
<1>7. \A m \in AllNodes : node[m].key \in Int
  BY ListAssumption DEF LInv, StateType, NodeRecords
<1>8. node[x].list = 0 /\ node'[x].list = l /\ l # 0
  BY Numbers DEF Appends
<1>9. \A j \in Lists : \A m \in Linked(j) \cup {HeadNode(j), TailNode(j)} :
        /\ m # x /\ m \in AllNodes /\ node'[m].key = node[m].key /\ node'[m].list = node[m].list
        /\ node[m].key \in Int
  <2>1. \A j \in Lists : j # 0
    BY Numbers
  <2>2. \A m \in AllNodes : m # x => node'[m].key = node[m].key /\ node'[m].list = node[m].list
    BY DEF Appends
  <2> QED BY <1>6, <1>7, <1>8, <2>1, <2>2
<1>10. \A j \in Lists : Linked(j)' = IF j = l THEN Linked(j) \cup {x} ELSE Linked(j)
  <2>1. \A m \in Nodes : m # x => node'[m].list = node[m].list
    BY Numbers DEF Appends
  <2> QED BY <1>8, <2>1, Numbers DEF Linked
<1>11. \A i \in Levels : Word(x, i)'.to # 0 <=> i <= top
  BY <1>3 DEF Appends, Levels
<1>12. ASSUME NEW j \in Lists, NEW i \in Levels
       PROVE  OnLevel(j, i)' = IF j = l /\ i <= top THEN OnLevel(j, i) \cup {x} ELSE OnLevel(j, i)
  <2>1. \A m \in Linked(j) : m # x /\ m \in AllNodes
    BY <1>9
  <2>2. \A m \in Linked(j) : Word(m, i)'.to # 0 <=> Word(m, i).to # 0
    BY <1>4, <2>1
  <2> QED BY <1>10, <1>11, <2>1, <2>2 DEF OnLevel
<1> QED BY <1>1, <1>2, <1>5, <1>9, <1>10, <1>12, Zenon DEF Appended

LEMMA AppendStructure ==
  ASSUME LInv, NEW l \in Lists, NEW k, Room(l, k), NEW x \in Nodes, NEW top \in Levels, Appends(l, k, x, top)
  PROVE  Structure'
<1> DEFINE T == TailNode(l)
           Old(j) == Linked(j) \cup {HeadNode(j), TailNode(j)}
<1>1. l \in Lists /\ k \in 0 .. MaxKey - 1 /\ (\A n \in Linked(l) : node[n].key < k) /\ x \in AllNodes
  BY Numbers DEF Room
<1>14. Appended(l, x, top)
  BY AppendSets
<1>2. \A j \in Lists : Linked(j)' = IF j = l THEN Linked(j) \cup {x} ELSE Linked(j)
  BY <1>14, Zenon DEF Appended
<1>3. \A j \in Lists : \A i \in Levels :
        OnLevel(j, i)' = IF j = l /\ i <= top THEN OnLevel(j, i) \cup {x} ELSE OnLevel(j, i)
  BY <1>14, Zenon DEF Appended
<1>4. \A m \in AllNodes : m # x => \A i \in Levels :
        Word(m, i)'.to = IF i <= top /\ Word(m, i).to = T THEN x ELSE Word(m, i).to
  BY <1>14, Zenon DEF Appended
<1>5. \A j \in Lists : \A m \in Old(j) : /\ m # x /\ m \in AllNodes /\ node'[m].key = node[m].key
                                          /\ node'[m].list = node[m].list /\ node[m].key \in Int
  BY <1>14, Zenon DEF Appended
<1>6. /\ node'[x].list = l /\ node'[x].key = k /\ x # 0
      /\ \A i \in Levels : Word(x, i)'.to = IF i > top THEN 0 ELSE T
  <2>1. x # 0
    BY Numbers
  <2> QED BY <2>1 DEF Appends
<1>7. \A j \in Lists : /\ node[HeadNode(j)].key = -1 /\ node[TailNode(j)].key = MaxKey
                       /\ node[HeadNode(j)].list = j /\ node[TailNode(j)].list = j
                       /\ \A i \in Levels : Word(HeadNode(j), i).to # 0 /\ Word(TailNode(j), i).to = 0
                       /\ ~IsMarked(TailNode(j))
  BY DEF LInv, Structure, Sentinels
<1>8. T # 0 /\ MaxKey \in Int /\ 0 \in Levels /\ \A j \in Lists : T \notin Linked(j) /\ (T = TailNode(j) => j = l)
  BY <1>1, Numbers, ListAssumption DEF Linked
<1>9. Sentinels'
  <2> SUFFICES ASSUME NEW j \in Lists
               PROVE  /\ node'[HeadNode(j)].list = j /\ node'[HeadNode(j)].key = -1
                      /\ node'[TailNode(j)].list = j /\ node'[TailNode(j)].key = MaxKey
                      /\ ~IsMarked(TailNode(j))'
                      /\ \A i \in Levels : Word(HeadNode(j), i)'.to # 0 /\ Word(TailNode(j), i)'.to = 0
    BY DEF Sentinels
  <2>1. HeadNode(j) \in Old(j) /\ TailNode(j) \in Old(j)
    OBVIOUS
  <2>2. ~IsMarked(TailNode(j))'
    <3>1. Word(TailNode(j), 0)' = Word(TailNode(j), 0)
      BY <1>5, <1>7, <1>8, <2>1 DEF Appends
    <3> QED BY <1>7, <3>1 DEF IsMarked
  <2> QED BY <1>4, <1>5, <1>6, <1>7, <1>8, <2>1, <2>2
<1>10. Towers'
  <2> SUFFICES ASSUME NEW j \in Lists, NEW n \in Linked(j)'
               PROVE  /\ node'[n].key \in 0 .. MaxKey - 1 /\ Word(n, 0)'.to # 0
                      /\ \A i, e \in Levels : e <= i /\ Word(n, i)'.to # 0 => Word(n, e)'.to # 0
    BY DEF Towers
  <2>1. CASE n = x
    <3>1. \A i \in Levels : i \in Int /\ 0 <= i
      BY DEF Levels
    <3>2. \A i \in Levels : Word(x, i)'.to # 0 <=> i <= top
      BY <1>6, <1>8, <3>1
    <3> QED BY <1>1, <1>6, <1>8, <2>1, <3>1, <3>2
  <2>2. CASE n \in Linked(j)
    <3>1. n \in Old(j)
      BY <2>2
    <3>2. \A i \in Levels : Word(n, i)'.to # 0 <=> Word(n, i).to # 0
      BY <1>4, <1>5, <1>6, <1>8, <3>1
    <3>3. /\ node[n].key \in 0 .. MaxKey - 1 /\ Word(n, 0).to # 0
          /\ \A i, e \in Levels : e <= i /\ Word(n, i).to # 0 => Word(n, e).to # 0
      BY <2>2 DEF LInv, Structure, Towers
    <3> QED BY <1>5, <1>8, <3>1, <3>2, <3>3
  <2> QED BY <1>2, <2>1, <2>2
<1>11. LevelsOrdered'
  <2> SUFFICES ASSUME NEW j \in Lists, NEW i \in Levels, NEW n \in OnLevel(j, i)' \cup {HeadNode(j)}
               PROVE  /\ Word(n, i)'.to \in OnLevel(j, i)' \cup {TailNode(j)}
                      /\ node'[n].key < node'[Word(n, i)'.to].key
    BY DEF LevelsOrdered
  <2>1. CASE j = l /\ i <= top /\ n = x
    <3>1. Word(n, i)'.to = T
      BY <1>6, <2>1 DEF Levels
    <3> QED BY <1>1, <1>5, <1>6, <1>7, <1>8, <2>1, <3>1
  <2>2. CASE n \in OnLevel(j, i) \cup {HeadNode(j)}
    <3>1. Word(n, i).to \in OnLevel(j, i) \cup {TailNode(j)} /\ node[n].key < node[Word(n, i).to].key
      BY <2>2 DEF LInv, Structure, LevelsOrdered
    <3>2. n \in Old(j) /\ Word(n, i).to \in Old(j)
      BY <2>2, <3>1 DEF OnLevel
    <3>3. CASE i <= top /\ Word(n, i).to = T
      <4>1. j = l /\ Word(n, i)'.to = x
        BY <1>4, <1>5, <1>8, <3>1, <3>2, <3>3 DEF OnLevel
      <4>2. node[n].key < k
        BY <1>1, <1>7, <2>2, <4>1 DEF OnLevel
      <4> QED BY <1>3, <1>5, <1>6, <3>2, <3>3, <4>1, <4>2
    <3>4. CASE ~(i <= top /\ Word(n, i).to = T)
      <4>1. Word(n, i)'.to = Word(n, i).to
        BY <1>4, <1>5, <3>2, <3>4
      <4> QED BY <1>3, <1>5, <3>1, <3>2, <4>1
    <3> QED BY <3>3, <3>4
  <2> QED BY <1>3, <2>1, <2>2
<1>12. Gapless'
  <2> SUFFICES ASSUME NEW j \in Lists, NEW n \in Linked(j)' \cup {HeadNode(j)}, NEW m \in Linked(j)',
                      node'[n].key < node'[m].key
               PROVE  node'[Word(n, 0)'.to].key <= node'[m].key
    BY DEF Gapless
  <2>1. \A y \in Linked(j) : node[y].key < MaxKey
    BY <1>5, <1>8, ListKeys
  <2>2. CASE n = x
    <3>1. j = l /\ m \in Linked(l)' /\ m # x
      BY <1>2, <1>5, <1>6, <1>1, <2>2
    <3>2. m \in Linked(l) /\ m \in Old(l)
      BY <1>1, <1>2, <3>1
    <3>3. node'[m].key < k
      BY <1>1, <1>5, <3>2
    <3> QED BY <1>1, <1>5, <1>6, <2>2, <3>2, <3>3
  <2>3. CASE n # x
    <3>1. n \in Linked(j) \cup {HeadNode(j)} /\ n \in Old(j)
      BY <1>2, <2>3
    <3> DEFINE s == Word(n, 0).to
    <3>2. s \in Linked(j) \cup {TailNode(j)} /\ s \in Old(j)
      BY <3>1, BottomLink DEF LInv
    <3>3. CASE m = x
      <4>1. j = l /\ m \notin Linked(j)
        BY <1>2, <1>5, <3>3
      <4>2. Word(n, 0)'.to = IF s = T THEN x ELSE s
        BY <1>4, <1>5, <1>8, <3>1 DEF Levels
      <4>3. s # T => s \in Linked(l)
        BY <3>2, <4>1
      <4>4. s # T => node'[s].key < k
        BY <1>1, <1>5, <3>2, <4>1, <4>3
      <4>5. node'[s].key \in Int
        BY <1>5, <3>2
      <4> QED BY <1>1, <1>6, <3>3, <4>2, <4>4, <4>5
    <3>4. CASE m \in Linked(j)
      <4>1. m \in Old(j)
        BY <3>4
      <4>2. node[n].key < node[m].key
        BY <1>5, <3>1, <4>1
      <4>3. node[s].key <= node[m].key
        BY <3>1, <3>4, <4>2 DEF LInv, Structure, Gapless
      <4>4. s # T
        BY <1>1, <1>5, <1>7, <1>8, <2>1, <3>2, <3>4, <4>1, <4>3
      <4>5. Word(n, 0)'.to = s
        BY <1>4, <1>5, <1>8, <3>1, <4>4
      <4> QED BY <1>5, <3>2, <4>1, <4>3, <4>5
    <3> QED BY <1>2, <3>3, <3>4
  <2> QED BY <2>2, <2>3
<1>13. KeysUnique'
  <2> SUFFICES ASSUME NEW j \in Lists, NEW n \in Linked(j)', NEW m \in Linked(j)', node'[n].key = node'[m].key
               PROVE  n = m
    BY DEF KeysUnique
  <2>1. CASE n \in Linked(j) /\ m \in Linked(j)
    <3>1. n \in Old(j) /\ m \in Old(j)
      BY <2>1
    <3> QED BY <1>5, <2>1, <3>1 DEF LInv, Structure, KeysUnique
  <2>2. ASSUME j = l, NEW y \in Linked(l) PROVE node'[y].key # k
    <3>1. y \in Old(l)
      OBVIOUS
    <3> QED BY <1>1, <1>5, <3>1
  <2> QED BY <1>1, <1>2, <1>6, <2>1, <2>2
<1> QED BY <1>9, <1>10, <1>11, <1>12, <1>13 DEF Structure

\* The compaction thread at a node: the copies lie before it.
LEMMA CopyFrame ==
  ASSUME CInv, CompactVisit(Compactor)
  PROVE  \E f \in Frames : \E n \in Linked(f.list) : \E new \in Unused :
           /\ f = frame[Compactor] /\ FrameInv(f) /\ f.pc = "visit" /\ f.n = n /\ f.list \in Lists
           /\ f.after = "compactSwap" /\ f.new = 0 /\ new = call[Compactor].new /\ new \in Lists /\ n \in AllNodes
           /\ Room(new, node[n].key) /\ node[n].handle \in Handles \cup {None} /\ f.list # new
           /\ \A m \in Linked(new) : ~IsMarked(m) /\ m \in AllNodes
           /\ IterateOn(f) \in Frames /\ FrameInv(IterateOn(f))
           /\ OwnKept /\ Effect(Compactor, IterateOn(f), call[Compactor])
           /\ CompactorInv(IterateOn(f), call[Compactor])
<1>1. PICK f \in Frames : f = frame[Compactor] /\ FrameInv(f) /\ f.pc = "visit"
  BY CompactorCall DEF CompactVisit, At
<1>2. f.pc \in VisitLabels /\ f.pc \in NodeLabels \ {"iterateMarked"} /\ f.pc \in IterateLabels /\ f.pc \in CopyLabels
  BY <1>1 DEF VisitLabels, NodeLabels, IterateLabels, CopyLabels
<1>3. PICK n \in Linked(f.list) : f.n = n /\ f.list \in Lists /\ f.new = 0 /\ f.after \in IterateEnds
  BY <1>1, <1>2, NodeInHand
<1>4. f.after = "compactSwap" /\ call[Compactor].new \in Unused
  BY <1>1, <1>2 DEF CInv, CompactorInv
<1>5. PICK new \in Unused : new = call[Compactor].new
  BY <1>4
<1>6. new \in Lists /\ n \in AllNodes /\ f.list # new
  BY <1>1, <1>3, CompactorCall, Parties, Numbers DEF Linked
<1>7. \A m \in Linked(new) : ~IsMarked(m) /\ m \in AllNodes /\ node[m].key < node[n].key
  BY <1>1, <1>2, <1>3, <1>5, <1>6, ListKeys DEF CInv, Copied
<1>8. Room(new, node[n].key)
  BY <1>3, <1>7, ListKeys DEF CInv, Room
<1>9. node[n].handle \in Handles \cup {None}
  BY <1>6 DEF CInv, LInv, StateType, NodeRecords
<1>10. IterateOn(f) \in Frames /\ FrameInv(IterateOn(f))
  BY <1>3, IterateOnFrame
<1>11. OwnKept /\ UNCHANGED call
  BY SameOwn, SameMemory DEF CompactVisit, ownVars
<1>12. Effect(Compactor, IterateOn(f), call[Compactor])
  BY <1>1, <1>2, <1>11, CompactorCall, SameCall, OnEffect DEF CompactVisit
<1>13. CompactorInv(IterateOn(f), call[Compactor])
  BY <1>4, IterateOnShape DEF CompactorInv, CopyLabels, RestLabels
<1> QED BY <1>1, <1>3, <1>4, <1>5, <1>6, <1>7, <1>8, <1>9, <1>10, <1>11, <1>12, <1>13

\* A node that is copied.
LEMMA CopyKeeps ==
  ASSUME CInv, CompactVisit(Compactor),
         AppendNode(call[Compactor].new, node[frame[Compactor].n].key, node[frame[Compactor].n].handle)
  PROVE  CInv'
<1>1. PICK f \in Frames, n \in Linked(frame[Compactor].list), new \in Unused :
        /\ f = frame[Compactor] /\ FrameInv(f) /\ f.pc = "visit" /\ f.n = n /\ f.list \in Lists
        /\ new = call[Compactor].new /\ new \in Lists /\ n \in AllNodes
        /\ Room(new, node[n].key) /\ node[n].handle \in Handles \cup {None}
        /\ \A m \in Linked(new) : ~IsMarked(m) /\ m \in AllNodes
        /\ IterateOn(f) \in Frames /\ FrameInv(IterateOn(f))
        /\ OwnKept /\ Effect(Compactor, IterateOn(f), call[Compactor])
        /\ CompactorInv(IterateOn(f), call[Compactor])
  BY CopyFrame
<1>2. PICK g \in Frames : g = IterateOn(f) /\ g.pc = "iterate" /\ g.pred = n
  BY <1>1, IterateOnShape
<1> DEFINE c == call[Compactor]
<1>3. PICK k \in 0 .. MaxKey - 1 : k = node[n].key
  BY <1>1 DEF Room
<1>4. PICK x \in Nodes, top \in Levels :
        /\ Appends(new, k, x, top) /\ node' \in [AllNodes -> NodeRecords]
        /\ counts' \in [Lists -> [nodes : Nat, marked : Nat]]
  BY <1>1, <1>3, AppendEffect DEF CInv
<1>5. Structure'
  BY <1>1, <1>3, <1>4, AppendStructure DEF CInv
<1>6. Grow /\ (\A j \in Lists : Linked(j)' = IF j = new THEN Linked(j) \cup {x} ELSE Linked(j))
      /\ \A m \in Linked(new) : m # x
  <2>1. Appended(new, x, top)
    BY <1>1, <1>4, AppendSets DEF CInv
  <2> QED BY <1>1, <2>1, Zenon DEF Appended
<1>7. Sentinels
  BY DEF CInv, LInv, Structure
<1>8. LInv'
  <2>1. FrameInv(g)'
    BY <1>1, <1>2, <1>6, <1>7, FrameGrow
  <2>2. frame' = [frame EXCEPT ![Compactor] = g]
    BY <1>1, <1>2 DEF Effect
  <2>3. frame' \in [Threads -> Frames] /\ FramesInv'
    BY <1>6, <2>1, <2>2, FramesKept, Parties DEF CInv
  <2>4. todo' \in [Threads -> Seq(Calls)]
    BY SameTodo DEF CompactVisit
  <2> QED BY <1>4, <1>5, <2>3, <2>4 DEF LInv, StateType
<1>9. frame'[Compactor] = g /\ call'[Compactor] = c /\ call' \in [Threads -> CallRecords] /\ c.new = new
  BY <1>1, <1>2, EffectThreads, Parties
<1>10. Unused' = Unused /\ OwnType'
  BY <1>1, <1>9, SameUnused DEF OwnKept, OwnType, CInv
<1>11. CallsInv' /\ Apart'
  <2>1. /\ CallsInv' /\ \A u \in Threads : frame'[u].list \notin Unused' /\ call'[u].list \notin Unused'
    BY <1>1, EffectCalls, Parties DEF OwnKept
  <2>2. \A l \in Unused' : l # call'[Compactor].new => Linked(l)' = {}
    BY <1>1, <1>6, <1>9, <1>10, CompactorCall, Parties
  <2> QED BY <2>1, <2>2 DEF Apart
<1>12. CompactorInv(g, c)'
  BY <1>1, <1>2, <1>9, <1>10 DEF CompactorInv
<1>13. Copied(g, c)'
  <2> SUFFICES ASSUME NEW m \in Linked(new)'
               PROVE  ~IsMarked(m)' /\ node'[m].key <= node'[n].key
    BY <1>2, <1>9 DEF Copied
  <2>1. node'[n].key = k /\ k \in Int
    BY <1>1, <1>3, <1>6, <1>7, GrowSets
  <2>2. 0 \in Levels
    BY Numbers
  <2>3. CASE m = x
    BY <1>4, <2>1, <2>2, <2>3 DEF Appends, IsMarked
  <2>4. CASE m \in Linked(new)
    <3>1. node'[m].key = node[m].key /\ node[m].key < k /\ node[m].key \in Int
      BY <1>1, <1>3, <1>6, <1>7, <2>4, GrowSets, ListKeys DEF Room, CInv
    <3>2. m \in AllNodes /\ m # x /\ ~IsMarked(m)
      BY <1>1, <1>6, <2>4
    <3>3. ~LinkWord(Word(m, 0), x).mark
      BY DEF LinkWord, PackPtr
    <3>4. ~IsMarked(m)'
      BY <1>4, <2>2, <3>2, <3>3 DEF Appends, IsMarked
    <3> QED BY <2>1, <3>1, <3>4
  <2> QED BY <1>1, <1>6, <2>3, <2>4
<1> QED BY <1>8, <1>9, <1>10, <1>11, <1>12, <1>13 DEF CInv

LEMMA CompactVisitKeeps ==
  ASSUME CInv, CompactVisit(Compactor)
  PROVE  CInv'
<1>1. CASE AppendNode(call[Compactor].new, node[frame[Compactor].n].key, node[frame[Compactor].n].handle)
  BY <1>1, CopyKeeps
<1>2. CASE UNCHANGED <<node, counts>>
  <2>1. PICK f \in Frames, n \in Linked(frame[Compactor].list), new \in Unused :
          /\ f = frame[Compactor] /\ f.n = n /\ f.list \in Lists
          /\ new = call[Compactor].new /\ new \in Lists
          /\ Room(new, node[n].key) /\ \A m \in Linked(new) : ~IsMarked(m)
          /\ IterateOn(f) \in Frames /\ FrameInv(IterateOn(f))
          /\ OwnKept /\ Effect(Compactor, IterateOn(f), call[Compactor])
          /\ CompactorInv(IterateOn(f), call[Compactor])
    BY CopyFrame
  <2>2. PICK g \in Frames : g = IterateOn(f) /\ g.pc = "iterate" /\ g.pred = n
    BY <2>1, IterateOnShape
  <2>3. \A m \in Linked(new) : node[m].key <= node[n].key
    BY <2>1, ListKeys DEF Room, CInv
  <2>4. Copied(g, call[Compactor])
    BY <2>1, <2>2, <2>3 DEF Copied
  <2>5. UNCHANGED <<node, counts, todo>>
    BY <1>2 DEF CompactVisit
  <2> QED BY <2>1, <2>2, <2>4, <2>5, CompactorCall, CompactorKeeps
<1> QED BY <1>1, <1>2 DEF CompactVisit

LEMMA CompactKeeps ==
  ASSUME CInv, Compact(Compactor)
  PROVE  CInv'
BY CompactCheckKeeps, CompactMarkedKeeps, CompactNodesKeeps, CompactVisitKeeps, CompactSwapKeeps,
   CompactGenKeeps DEF Compact
-----------------------------------------------------------------------------
(***************************************************************************)
(* The invariant.                                                          *)
(***************************************************************************)
LEMMA InitCInv == CacheInit => CInv
<1> SUFFICES ASSUME CacheInit PROVE CInv
  OBVIOUS
<1>1. LInv
  BY InitLInv DEF CacheInit
<1>2. OwnType
  <2>1. 0 \in 0 .. ListNum /\ 0 \in Nat /\ LowCapacity \in Nat
    BY ListAssumption, CacheAssumption
  <2> QED BY <2>1, NoCallType DEF CacheInit, OwnType
<1>3. \A t \in Threads : frame[t] = Idle /\ call[t] = NoCall
  BY DEF CacheInit, ListInit
<1>4. Idle.pc = "idle" /\ Idle.ret = "idle" /\ Idle.list = 0
  BY DEF Idle
<1>5. CallsInv
  BY <1>3, <1>4, PlainCall DEF CallsInv, EvictLabels
<1>6. Apart
  <2>1. \A n \in Nodes : node[n].list = 0
    BY EmptyNode DEF CacheInit, ListInit, NewNode
  <2>2. \A l \in Unused : Linked(l) = {}
    BY <2>1, Parties DEF Linked
  <2> QED BY <1>3, <1>4, <2>2, NoCallType, Parties DEF Apart
<1>7. CompactorInv(frame[Compactor], call[Compactor]) /\ Copied(frame[Compactor], call[Compactor])
  BY <1>3, <1>4, NoCallType, Parties DEF CompactorInv, Copied, CopyLabels, RestLabels
<1> QED BY <1>1, <1>2, <1>5, <1>6, <1>7 DEF CInv

\* Steps that leave the lists and the calls alone.
LEMMA AsideKeeps ==
  ASSUME CInv, UNCHANGED <<listVars, call>>, OwnType', Unused' = Unused
  PROVE  CInv'
<1>1. LInv'
  BY NextLInv DEF CInv, listVars
<1>2. CallsInv'
  BY DEF CInv, CallsInv, CallInv, listVars
<1>3. Apart'
  BY DEF CInv, Apart, Linked, listVars
<1>4. CompactorInv(frame[Compactor], call[Compactor])'
  BY DEF CInv, CompactorInv, listVars
<1>5. Copied(frame[Compactor], call[Compactor])'
  BY DEF CInv, Copied, Linked, IsMarked, Word, listVars
<1> QED BY <1>1, <1>2, <1>3, <1>4, <1>5 DEF CInv

LEMMA InitBucketKeeps ==
  ASSUME CInv, InitBucket
  PROVE  CInv'
<1>1. PICK b \in Buckets : buckets[b] = 0 /\ buckets' = [buckets EXCEPT ![b] = b + 1]
  BY DEF InitBucket
<1>2. b + 1 \in 0 .. ListNum /\ b + 1 <= BucketNum /\ b + 1 \in Int
  BY Parties DEF Lists
<1>3. buckets \in [Buckets -> 0 .. ListNum]
  BY DEF CInv, OwnType
<1>4. OwnType'
  BY <1>1, <1>2, <1>3 DEF InitBucket, CInv, OwnType
<1>5. Unused' = Unused
  <2>1. \A l \in Lists : l > BucketNum => (buckets[b] < l /\ b + 1 < l)
    BY <1>1, <1>2, Parties DEF Lists
  <2>2. \A a \in Buckets : buckets'[a] = IF a = b THEN b + 1 ELSE buckets[a]
    BY <1>1, <1>3
  <2> QED BY <2>1, <2>2 DEF Unused
<1> QED BY <1>4, <1>5, AsideKeeps DEF InitBucket

LEMMA NextCInv == CInv /\ [CacheNext]_cacheVars => CInv'
<1> SUFFICES ASSUME CInv, [CacheNext]_cacheVars PROVE CInv'
  OBVIOUS
<1>1. CASE UNCHANGED cacheVars
  BY <1>1, SameUnused, AsideKeeps DEF cacheVars, ownVars, CInv, OwnType
<1>2. CASE InitBucket
  BY <1>2, InitBucketKeeps
<1>3. CASE Destroy
  BY <1>3, SameUnused, AsideKeeps DEF Destroy, CInv, OwnType
<1>4. CASE \E t \in Clients : Get(t) \/ Insert(t)
  BY <1>4, GetKeeps, InsertKeeps
<1>5. ASSUME NEW t \in Threads, CacheStep(t) PROVE CInv'
  <2>1. CASE ListStep(t) /\ UNCHANGED ownVars
    BY <2>1, ListStepKeeps, IterateKeeps
  <2>2. CASE t \in Clients /\ Client(t)
    BY <2>2, ClientKeeps
  <2>3. CASE t = Decayer /\ Decay(t)
    BY <2>3, DecayKeeps
  <2>4. CASE t = Compactor /\ Compact(t)
    BY <2>4, CompactKeeps
  <2> QED BY <1>5, <2>1, <2>2, <2>3, <2>4 DEF CacheStep
<1> QED BY <1>1, <1>2, <1>3, <1>4, <1>5 DEF CacheNext

(***************************************************************************)
(* However the calls of clients, the decay thread and the compaction       *)
(* thread interleave, the lists stay well formed, and no thread but the    *)
(* compaction thread has the list a compaction is filling.                 *)
(***************************************************************************)
THEOREM CacheInvariance == CacheSpec => []CInv
<1>1. CInv /\ [CacheNext]_cacheVars => CInv'
  BY NextCInv
<1> QED BY <1>1, InitCInv, PTL DEF CacheSpec

LEMMA CInvType == CInv => CacheTypeOK
<1> SUFFICES ASSUME CInv PROVE CacheTypeOK
  OBVIOUS
<1>1. ListTypeOK
  BY LInvType DEF CInv
<1>2. \A t \in Threads : call[t].index \in Buckets /\ call[t].list \in 0 .. ListNum
  BY ActorCall DEF CallRecords
<1> QED BY <1>1, <1>2 DEF CInv, OwnType, CacheTypeOK

(***************************************************************************)
(* The state keeps its types: the low queue never holds more than its      *)
(* capacity, and every entry of it names a bucket and a key of a client;   *)
(* Evict and Decay find in their hands what the accesses they make need.   *)
(***************************************************************************)
THEOREM CacheTypeCorrect == CacheSpec => []CacheTypeOK
BY CacheInvariance, CInvType, PTL

LEMMA CInvOrdered == CInv => Ordered /\ KeysUnique
BY LInvOrdered, LInvUnique DEF CInv

(***************************************************************************)
(* All lists of the cache stay sorted at every level, with one node per    *)
(* key: also the copies a compaction makes, which clients insert into once *)
(* the copy is in its bucket.                                              *)
(***************************************************************************)
THEOREM CacheListsOrdered == CacheSpec => [](Ordered /\ KeysUnique)
BY CacheInvariance, CInvOrdered, PTL
-----------------------------------------------------------------------------
(***************************************************************************)
(* Sums.                                                                   *)
(***************************************************************************)
Units(f, S) == UNION {{x} \X (1 .. f[x]) : x \in S}

LEMMA TotalUnits ==
  ASSUME NEW S, NEW f
  PROVE  Total(f, S) = Cardinality(Units(f, S))
BY DEF Total, Units

LEMMA UnitsFinite ==
  ASSUME NEW S, NEW f, IsFiniteSet(S), \A x \in S : f[x] \in Nat
  PROVE  IsFiniteSet(Units(f, S)) /\ Total(f, S) \in Nat
<1> DEFINE bar == [x \in S |-> {x} \X (1 .. f[x])]
           bars == {{x} \X (1 .. f[x]) : x \in S}
<1>1. bar \in Surjection(S, bars)
  BY DEF Surjection
<1>2. IsFiniteSet(bars)
  BY <1>1, FS_Surjection
<1>3. ASSUME NEW x \in S
      PROVE  IsFiniteSet({x} \X (1 .. f[x]))
  <2>1. f[x] \in Int
    OBVIOUS
  <2>2. IsFiniteSet(1 .. f[x])
    BY <2>1, FS_Interval
  <2>3. IsFiniteSet({x})
    BY FS_Singleton
  <2> QED
    BY <2>2, <2>3, FS_Product
<1>4. IsFiniteSet(UNION bars)
  <2> HIDE DEF bar
  <2>1. \A T \in bars : IsFiniteSet(T)
    BY <1>3
  <2> HIDE DEF bars
  <2> QED
    BY <1>2, <2>1, FS_UNION
<1> QED
  BY <1>4, FS_CardinalityType DEF Units, Total

\* One more term.
LEMMA TotalAdd ==
  ASSUME NEW S, NEW f, NEW t, IsFiniteSet(S), t \notin S, f[t] \in Nat, \A x \in S : f[x] \in Nat
  PROVE  Total(f, S \cup {t}) = Total(f, S) + f[t]
<1> DEFINE bar == {t} \X (1 .. f[t])
           rest == Units(f, S)
<1>1. Units(f, S \cup {t}) = rest \cup bar
  BY DEF Units
<1>2. rest \cap bar = {}
  BY DEF Units
<1>3. IsFiniteSet(bar) /\ Cardinality(bar) = f[t]
  <2>1. IsFiniteSet({t}) /\ Cardinality({t}) = 1
    BY FS_Singleton
  <2>2. IsFiniteSet(1 .. f[t]) /\ Cardinality(1 .. f[t]) = f[t]
    BY FS_Interval
  <2>3. IsFiniteSet(bar) /\ Cardinality(bar) = Cardinality({t}) * Cardinality(1 .. f[t])
    BY <2>1, <2>2, FS_Product, Zenon
  <2> HIDE DEF bar
  <2> QED
    BY <2>1, <2>2, <2>3
<1>4. IsFiniteSet(rest) /\ Cardinality(rest) \in Nat
  BY UnitsFinite DEF Units, Total
<1> HIDE DEF bar, rest
<1>5. Cardinality(rest \cup bar) = Cardinality(rest) + f[t]
  <2>1. /\ IsFiniteSet(rest \cup bar)
        /\ Cardinality(rest \cup bar)
             = Cardinality(rest) + Cardinality(bar) - Cardinality(rest \cap bar)
    BY <1>3, <1>4, FS_Union, Zenon
  <2>2. Cardinality(rest \cap bar) = 0
    BY <1>2, FS_EmptySet, Zenon
  <2> QED
    BY <1>3, <1>4, <2>1, <2>2
<1>6. Total(f, S) = Cardinality(rest)
  BY TotalUnits DEF rest
<1>7. Total(f, S \cup {t}) = Cardinality(rest \cup bar)
  BY <1>1, TotalUnits, Zenon
<1> QED
  BY <1>5, <1>6, <1>7

LEMMA TotalSame ==
  ASSUME NEW S, NEW f, NEW g, \A x \in S : f[x] = g[x]
  PROVE  Total(f, S) = Total(g, S)
<1>1. Units(f, S) = Units(g, S)
  BY DEF Units
<1> QED
  BY <1>1 DEF Units, Total

\* One changed term.
LEMMA TotalChange ==
  ASSUME NEW S, NEW f, NEW g, NEW t \in S, IsFiniteSet(S),
         \A x \in S : f[x] \in Nat, g[t] \in Nat, \A x \in S \ {t} : g[x] = f[x]
  PROVE  /\ Total(f, S) \in Nat /\ Total(g, S) \in Nat
         /\ Total(g, S) = Total(f, S) + g[t] - f[t]
<1> PICK R : R = S \ {t}
  OBVIOUS
<1>1. IsFiniteSet(R) /\ t \notin R /\ S = R \cup {t}
  BY FS_RemoveElement
<1>2. \A x \in S : g[x] \in Nat
  OBVIOUS
<1>3. /\ Total(f, R \cup {t}) = Total(f, R) + f[t]
      /\ Total(g, R \cup {t}) = Total(g, R) + g[t]
  BY <1>1, <1>2, TotalAdd
<1>4. Total(f, R) = Total(g, R)
  BY TotalSame
<1>5. Total(f, R) \in Nat /\ f[t] \in Nat
  BY <1>1, UnitsFinite
<1> QED
  BY <1>1, <1>2, <1>3, <1>4, <1>5

LEMMA TotalZero ==
  ASSUME NEW S, NEW f, \A x \in S : f[x] = 0
  PROVE  Total(f, S) = 0
<1>1. Units(f, S) = {}
  BY DEF Units
<1> QED BY <1>1, TotalUnits, FS_EmptySet
-----------------------------------------------------------------------------
(***************************************************************************)
(* memory_used_.  A step changes what one thread and one node have.        *)
(***************************************************************************)
AddOf(f, c) == IF f.pc = "inserted" \/ f.new # 0 THEN c.charge ELSE 0
SubOf(f) == IF f.pc = "inserted" THEN Charge(f.h)
            ELSE IF f.pc \in {"markCount", "decayed"} THEN f.charge ELSE 0

\* No bucket has been replaced.
Original == \A b \in Buckets : buckets[b] \in {0, b + 1}

HeldTotal == Total([n \in Nodes |-> Held(n)], Nodes)
Covers == memory_used + Total([t \in Threads |-> Unadded(t)], Threads) >=
            HeldTotal + Total([t \in Threads |-> Unsubtracted(t)], Threads)

LEMMA CoversMeans == MemoryCovers <=> (Original => Covers)
BY DEF MemoryCovers, Original, Covers, HeldTotal

LEMMA CoversMeansNext == MemoryCovers' <=> (Original' => Covers')
BY DEF MemoryCovers, Original, Covers, HeldTotal

LEMMA DebtTypes ==
  ASSUME NEW f \in Frames, NEW c \in CallRecords
  PROVE  AddOf(f, c) \in Nat /\ SubOf(f) \in Nat
<1>1. c.charge \in Nat /\ f.charge \in Nat /\ Charge(f.h) \in Nat
  BY ChargeType DEF CallRecords, Frames
<1> QED BY <1>1 DEF AddOf, SubOf

LEMMA HeldTypes == CInv => \A n \in Nodes : Held(n) \in Nat
<1> SUFFICES ASSUME CInv, NEW n \in Nodes PROVE Held(n) \in Nat
  OBVIOUS
<1>1. node[n].handle \in Handles \cup {None}
  BY Numbers DEF CInv, LInv, StateType, NodeRecords
<1> QED BY <1>1, ChargeType DEF Held

LEMMA HeldTypesNext == CInv' => \A n \in Nodes : Held(n)' \in Nat
<1> SUFFICES ASSUME CInv', NEW n \in Nodes PROVE Held(n)' \in Nat
  OBVIOUS
<1>1. node'[n].handle \in Handles \cup {None}
  BY Numbers DEF CInv, LInv, StateType, NodeRecords
<1> QED BY <1>1, ChargeType DEF Held

LEMMA NodesFinite == IsFiniteSet(Nodes)
BY FS_Interval, ListAssumption DEF Nodes

LEMMA HeldSame ==
  ASSUME CInv, \A n \in Nodes : Held(n)' = Held(n)
  PROVE  HeldTotal \in Nat /\ HeldTotal' = HeldTotal
<1> DEFINE a == [n \in Nodes |-> Held(n)]
           b == [n \in Nodes |-> Held(n)']
<1>1. a = b
  OBVIOUS
<1>2. HeldTotal = Total(a, Nodes) /\ HeldTotal' = Total(b, Nodes)
  BY DEF HeldTotal, Total
<1>3. Total(a, Nodes) \in Nat
  <2>1. \A n \in Nodes : a[n] \in Nat
    BY HeldTypes
  <2> HIDE DEF a
  <2> QED BY <2>1, NodesFinite, UnitsFinite
<1> QED BY <1>1, <1>2, <1>3

LEMMA HeldChange ==
  ASSUME CInv, CInv', NEW n \in Nodes, \A m \in Nodes : m # n => Held(m)' = Held(m)
  PROVE  HeldTotal \in Nat /\ HeldTotal' \in Nat /\ HeldTotal' = HeldTotal + Held(n)' - Held(n)
<1> DEFINE a == [m \in Nodes |-> Held(m)]
           b == [m \in Nodes |-> Held(m)']
<1>1. a[n] = Held(n) /\ b[n] = Held(n)' /\ (\A m \in Nodes : a[m] \in Nat) /\ b[n] \in Nat
  BY HeldTypes, HeldTypesNext
<1>2. HeldTotal = Total(a, Nodes) /\ HeldTotal' = Total(b, Nodes)
  BY DEF HeldTotal, Total
<1>3. \A m \in Nodes \ {n} : b[m] = a[m]
  OBVIOUS
<1> HIDE DEF a, b
<1>4. /\ Total(a, Nodes) \in Nat /\ Total(b, Nodes) \in Nat
      /\ Total(b, Nodes) = Total(a, Nodes) + b[n] - a[n]
  BY <1>1, <1>3, NodesFinite, TotalChange
<1> QED BY <1>1, <1>2, <1>4

\* The step of thread t: g and d are what it has afterwards, e what the lists gain.
Debit(t, e) == memory_used' + AddOf(frame'[t], call'[t]) - AddOf(frame[t], call[t]) >=
                 memory_used + e + SubOf(frame'[t]) - SubOf(frame[t])

LEMMA Balance ==
  ASSUME CInv, CInv', Covers, NEW t \in Threads,
         \A u \in Threads : u # t => frame'[u] = frame[u] /\ call'[u] = call[u],
         NEW e \in Int, HeldTotal \in Nat, HeldTotal' = HeldTotal + e, Debit(t, e)
  PROVE  Covers'
<1> DEFINE a == [u \in Threads |-> Unadded(u)]
           b == [u \in Threads |-> Unadded(u)']
           v == [u \in Threads |-> Unsubtracted(u)]
           w == [u \in Threads |-> Unsubtracted(u)']
<1>1. \A u \in Threads : a[u] = AddOf(frame[u], call[u]) /\ b[u] = AddOf(frame'[u], call'[u])
  BY DEF Unadded, AddOf, At
<1>2. \A u \in Threads : v[u] = SubOf(frame[u]) /\ w[u] = SubOf(frame'[u])
  BY DEF Unsubtracted, SubOf, At
<1>3. \A u \in Threads : frame[u] \in Frames /\ call[u] \in CallRecords
  BY ActorCall
<1>4. frame'[t] \in Frames /\ call'[t] \in CallRecords
  BY DEF CInv, LInv, StateType, OwnType
<1>5. /\ (\A u \in Threads : a[u] \in Nat) /\ (\A u \in Threads : v[u] \in Nat)
      /\ b[t] \in Nat /\ w[t] \in Nat
  BY <1>1, <1>2, <1>3, <1>4, DebtTypes
<1>6. (\A u \in Threads \ {t} : b[u] = a[u]) /\ (\A u \in Threads \ {t} : w[u] = v[u])
  BY <1>1, <1>2
<1>7. Covers <=> memory_used + Total(a, Threads) >= HeldTotal + Total(v, Threads)
  BY DEF Covers
<1>8. Covers' <=> memory_used' + Total(b, Threads) >= HeldTotal' + Total(w, Threads)
  BY DEF Covers, Total
<1>9. Debit(t, e) <=> memory_used' + b[t] - a[t] >= memory_used + e + w[t] - v[t]
  BY <1>1, <1>2 DEF Debit
<1> HIDE DEF a, b, v, w
<1>10. IsFiniteSet(Threads)
  BY ClientAssumption
<1>11. /\ Total(a, Threads) \in Nat /\ Total(b, Threads) \in Nat
       /\ Total(b, Threads) = Total(a, Threads) + b[t] - a[t]
  BY <1>5, <1>6, <1>10, TotalChange
<1>12. /\ Total(v, Threads) \in Nat /\ Total(w, Threads) \in Nat
       /\ Total(w, Threads) = Total(v, Threads) + w[t] - v[t]
  BY <1>5, <1>6, <1>10, TotalChange
<1>13. memory_used \in Int /\ memory_used' \in Int
  BY DEF CInv, OwnType
<1> QED BY <1>5, <1>7, <1>8, <1>9, <1>11, <1>12, <1>13

Alone(t) == \A u \in Threads : u # t => frame'[u] = frame[u] /\ call'[u] = call[u]

LEMMA AccountKeeps ==
  ASSUME CInv, CInv', MInv, NEW t \in Threads, Alone(t), InsertInv(frame'[t], call'[t]), Original' => Original,
         NEW e \in Int, Original => HeldTotal \in Nat /\ HeldTotal' = HeldTotal + e /\ Debit(t, e)
  PROVE  MInv'
<1>1. \A u \in Threads : InsertInv(frame'[u], call'[u])
  BY DEF MInv, Alone
<1>2. MemoryCovers'
  <2> SUFFICES ASSUME Original' PROVE Covers'
    BY CoversMeansNext
  <2>1. Original /\ Covers
    BY CoversMeans DEF MInv
  <2> QED BY <2>1, Balance DEF Alone
<1>3. \A u \in Threads : InsertInv(frame[u], call[u])'
  BY <1>1 DEF InsertInv, Inserting, Charge
<1> QED BY <1>2, <1>3 DEF MInv

\* A frame without debts, outside the Insert of a list.
Calm(f) == /\ f.ret # "inserted"
           /\ \/ f.pc \notin {"find", "insert", "linkUp", "count", "inserted", "markCount", "decayed"}
              \/ f.pc = "find" /\ f.after \in {"getNode", "getFor"}

LEMMA CalmFrame ==
  ASSUME NEW f, f.new # 0 => IsLinking(f), Calm(f), NEW c
  PROVE  /\ AddOf(f, c) = 0 /\ SubOf(f) = 0
         /\ c.charge = Charge(c.h) => InsertInv(f, c)
BY DEF Calm, IsLinking, AddOf, SubOf, InsertInv, Inserting

LEMMA SettledFrame ==
  ASSUME MInv, NEW t \in Threads,
         frame[t].pc \notin {"find", "insert", "linkUp", "count", "inserted", "markCount", "decayed"}
  PROVE  Calm(frame[t])
BY DEF Calm, MInv, InsertInv, Inserting

LEMMA HeldNode ==
  ASSUME NEW n, node'[n].list = node[n].list, node'[n].handle = node[n].handle
  PROVE  Held(n)' = Held(n)
BY DEF Held, Charge

LEMMA NextActor ==
  ASSUME CInv', NEW t \in Threads
  PROVE  /\ frame'[t] \in Frames /\ call'[t] \in CallRecords
         /\ frame'[t].new # 0 => IsLinking(frame'[t])
<1>1. frame'[t] \in Frames /\ call'[t] \in CallRecords
  BY DEF CInv, LInv, StateType, OwnType
<1>2. frame'[t].new # 0 => IsLinking(frame'[t])
  BY DEF CInv, LInv, FramesInv, FrameInv, NewInv, IsLinking
<1> QED BY <1>1, <1>2

LEMMA NoDebit ==
  ASSUME NEW u \in Int, NEW v \in Int, v >= u, NEW a, NEW b, NEW c, NEW d, a = 0, b = 0, c = 0, d = 0
  PROVE  v + a - b >= u + 0 + c - d
OBVIOUS

\* A step from a frame without debts to another one.
LEMMA CalmKeeps ==
  ASSUME CInv, CInv', MInv, NEW t \in Threads, Alone(t), Original' => Original,
         \A n \in Nodes : Held(n)' = Held(n), memory_used' >= memory_used,
         Calm(frame[t]), Calm(frame'[t]), call'[t].charge = Charge(call'[t].h)
  PROVE  MInv'
<1>1. AddOf(frame[t], call[t]) = 0 /\ SubOf(frame[t]) = 0
  BY ActorCall, CalmFrame DEF FrameInv, NewInv
<1>2. AddOf(frame'[t], call'[t]) = 0 /\ SubOf(frame'[t]) = 0
  BY NextActor, CalmFrame
<1>3. InsertInv(frame'[t], call'[t])
  BY NextActor, CalmFrame
<1>4. memory_used \in Int /\ memory_used' \in Int
  BY DEF CInv, OwnType
<1>5. Debit(t, 0)
  BY <1>1, <1>2, <1>4, NoDebit DEF Debit
<1>6. HeldTotal \in Nat /\ HeldTotal' = HeldTotal + 0
  BY HeldSame
<1> QED BY <1>3, <1>5, <1>6, AccountKeeps
-----------------------------------------------------------------------------
(***************************************************************************)
(* A step of a thread leaves the frames and the locals of the others.      *)
(***************************************************************************)
MovesFrame(t) == (\E g : SetFrame(t, g)) \/ (\E a : Goto(t, a)) \/ UNCHANGED frame
MovesCall(t) == (\E c : SetCall(t, c)) \/ UNCHANGED call

LEMMA MovesAlone ==
  ASSUME CInv, NEW t \in Threads, MovesFrame(t), MovesCall(t)
  PROVE  Alone(t)
<1>1. frame \in [Threads -> Frames] /\ call \in [Threads -> CallRecords]
  BY DEF CInv, LInv, StateType, OwnType
<1> QED BY <1>1 DEF MovesFrame, MovesCall, SetFrame, Goto, SetCall, Alone

LEMMA ClientAlone ==
  ASSUME CInv, NEW t \in Threads, Get(t) \/ Insert(t) \/ Client(t)
  PROVE  Alone(t)
<1>1. CASE Get(t)
  <2>1. MovesFrame(t) /\ MovesCall(t)
    BY <1>1 DEF Get, ownVars, MovesFrame, MovesCall
  <2> QED BY <2>1, MovesAlone
<1>2. CASE Insert(t)
  <2>1. MovesFrame(t) /\ MovesCall(t)
    BY <1>2 DEF Insert, MovesFrame, MovesCall
  <2> QED BY <2>1, MovesAlone
<1>3. CASE Client(t)
  <2>1. MovesFrame(t)
    BY <1>3 DEF Client, InsertCheck, Inserted, EvictSize, EvictPop, EvictGen, EvictLoad, EvictNode, Evicted,
                MovesFrame
  <2>2. MovesCall(t)
    BY <1>3 DEF Client, InsertCheck, Inserted, EvictSize, EvictPop, EvictGen, EvictLoad, EvictNode, Evicted,
                MovesCall, ownVars
  <2> QED BY <2>1, <2>2, MovesAlone
<1> QED BY <1>1, <1>2, <1>3

LEMMA DecayAlone ==
  ASSUME CInv, NEW t \in Threads, Decay(t)
  PROVE  Alone(t)
<1>1. MovesFrame(t)
  BY DEF Decay, DecayCheck, DecayLoad, DecayVisit, DecayGen, DecayPush, DecayPublish, Decayed, DecayEnd, MovesFrame
<1>2. MovesCall(t)
  BY DEF Decay, DecayCheck, DecayLoad, DecayVisit, DecayGen, DecayPush, DecayPublish, Decayed, DecayEnd,
         MovesCall, ownVars, NextIndex
<1> QED BY <1>1, <1>2, MovesAlone

LEMMA CompactAlone ==
  ASSUME CInv, NEW t \in Threads, Compact(t)
  PROVE  Alone(t)
<1>1. MovesFrame(t)
  BY DEF Compact, CompactCheck, CompactMarked, CompactNodes, CompactVisit, CompactSwap, CompactGen, MovesFrame
<1>2. MovesCall(t)
  BY DEF Compact, CompactCheck, CompactMarked, CompactNodes, CompactVisit, CompactSwap, CompactGen,
         MovesCall, ownVars, NextIndex
<1> QED BY <1>1, <1>2, MovesAlone
-----------------------------------------------------------------------------
(***************************************************************************)
(* The steps of clients between the operations of a list.                  *)
(***************************************************************************)
BusyLabels == {"find", "insert", "linkUp", "count", "inserted", "markCount", "decayed"}
Exact(c) == c.charge = Charge(c.h)

LEMMA CallMoves ==
  ASSUME CInv, NEW t \in Threads, NEW c, SetCall(t, c)
  PROVE  call'[t] = c
BY DEF CInv, OwnType, SetCall

LEMMA GotoCalm ==
  ASSUME CInv, MInv, NEW t \in Threads, frame[t].pc \notin BusyLabels, NEW a, a \notin BusyLabels, Goto(t, a)
  PROVE  Calm(frame'[t])
<1>1. PICK f \in Frames : f = frame[t] /\ Calm(f)
  BY ActorCall, SettledFrame DEF BusyLabels
<1>2. frame'[t] = [f EXCEPT !.pc = a]
  BY <1>1 DEF CInv, LInv, StateType, Goto
<1>3. frame'[t].pc = a /\ frame'[t].ret = f.ret
  BY <1>2 DEF Frames
<1> QED BY <1>1, <1>3 DEF Calm, BusyLabels

LEMMA OwnCalm ==
  ASSUME CInv, CInv', MInv, NEW t \in Threads, Alone(t), UNCHANGED <<node, buckets>>, memory_used' >= memory_used,
         frame[t].pc \notin BusyLabels, Calm(frame'[t]), Exact(call'[t])
  PROVE  MInv'
<1>1. Calm(frame[t])
  BY SettledFrame DEF BusyLabels
<1>2. \A n \in Nodes : Held(n)' = Held(n)
  BY HeldNode
<1>3. Original' => Original
  BY DEF Original
<1> QED BY <1>1, <1>2, <1>3, CalmKeeps DEF Exact

LEMMA SameExact ==
  ASSUME MInv, NEW t \in Threads
  PROVE  Exact(call[t]) /\ (UNCHANGED call => Exact(call'[t]))
BY DEF MInv, InsertInv, Exact

LEMMA NoCallExact == Exact(NoCall)
BY DEF NoCall, Exact, Charge

LEMMA SameUsed == CInv /\ UNCHANGED memory_used => memory_used' >= memory_used
BY DEF CInv, OwnType

LEMMA IdleCalm == Calm(Idle) /\ Calm([Idle EXCEPT !.pc = "evict"])
BY DEF Calm, Idle

LEMMA SearchCalm ==
  ASSUME NEW f \in Frames, f.ret # "inserted", NEW k, NEW a \in {"getNode", "getFor"}
  PROVE  Calm(Find(f, k, a))
BY FindShape DEF Calm

LEMMA GetAccounts ==
  ASSUME CInv, CInv', MInv, NEW t \in Clients, Get(t)
  PROVE  MInv'
<1> DEFINE k == Call(t).key
           l == buckets[BucketOf(k)]
<1>1. t \in Threads /\ frame[t].pc = "idle"
  BY Parties DEF Get, Take, At
<1>2. BucketOf(k) \in Buckets
  BY <1>1, TakeType DEF Get
<1>3. l # 0 => On(l) \in Frames /\ On(l).ret = "idle"
  BY <1>2, BucketList, OnFrame DEF CInv
<1>4. frame'[t] = IF l = 0 THEN Idle ELSE Find(On(l), k, "getFor")
  BY <1>1, FrameMoves DEF Get, SetFrame, CInv
<1>5. Calm(frame'[t])
  BY <1>3, <1>4, IdleCalm, SearchCalm
<1>6. UNCHANGED <<node, buckets, memory_used, call>>
  BY DEF Get, ownVars
<1> QED BY <1>1, <1>5, <1>6, ClientAlone, SameUsed, SameExact, OwnCalm DEF BusyLabels

LEMMA InsertAccounts ==
  ASSUME CInv, CInv', MInv, NEW t \in Clients, Insert(t)
  PROVE  MInv'
<1>1. t \in Threads /\ frame[t].pc = "idle" /\ frame[t].pc \notin BusyLabels
  BY Parties DEF Insert, Take, At, BusyLabels
<1>2. UNCHANGED <<node, buckets, memory_used>>
  BY DEF Insert
<1>3. CASE UNCHANGED <<frame, call>>
  <2>1. Calm(frame'[t])
    BY <1>1, <1>3, SettledFrame DEF BusyLabels
  <2> QED BY <1>1, <1>2, <1>3, <2>1, ClientAlone, SameUsed, SameExact, OwnCalm
<1>4. ASSUME NEW k, NEW h, NEW l, Goto(t, "insertCheck"),
             SetCall(t, [NoCall EXCEPT !.key = k, !.h = h, !.charge = Charge(h), !.list = l])
      PROVE  MInv'
  <2>1. Calm(frame'[t])
    <3>1. "insertCheck" \notin BusyLabels
      BY DEF BusyLabels
    <3> QED BY <1>1, <1>4, <3>1, GotoCalm
  <2>2. Exact(call'[t])
    <3>1. call'[t] = [NoCall EXCEPT !.key = k, !.h = h, !.charge = Charge(h), !.list = l]
      BY <1>1, <1>4, CallMoves
    <3>2. call'[t].h = h /\ call'[t].charge = Charge(h)
      BY <3>1 DEF NoCall
    <3> QED BY <3>2 DEF Exact
  <2> QED BY <1>1, <1>2, <2>1, <2>2, ClientAlone, SameUsed, OwnCalm
<1> QED BY <1>3, <1>4 DEF Insert

\* The list's Insert begins.
LEMMA ListInsertAccounts ==
  ASSUME CInv, CInv', MInv, NEW t \in Threads, Alone(t), frame[t].pc \in EvictLabels, SetFrame(t, ListInsert(call[t])),
         UNCHANGED <<node, buckets, memory_used, call>>
  PROVE  MInv'
<1> DEFINE c == call[t]
<1>1. /\ ListInsert(c).h = c.h /\ ListInsert(c).new = 0
      /\ \/ /\ ListInsert(c).ret = "inserted" /\ ListInsert(c).pc = "find"
            /\ ListInsert(c).after = "insert"
         \/ ListInsert(c).pc = "inserted" /\ ListInsert(c).ret = "idle" /\ c.h = None
  <2>1. c \in CallRecords /\ c.list \in Lists /\ c.key \in 0 .. MaxKey - 1
    BY ActorCall DEF CallInv
  <2> QED BY <2>1, ListInsertFrame DEF CInv, LInv
<1>2. frame'[t] = ListInsert(c)
  BY FrameMoves DEF SetFrame, CInv
<1>3. Calm(frame[t])
  BY SettledFrame DEF EvictLabels
<1>4. AddOf(frame[t], c) = 0 /\ SubOf(frame[t]) = 0
  BY <1>3, ActorCall, CalmFrame DEF FrameInv, NewInv
<1>5. AddOf(frame'[t], call'[t]) = 0 /\ SubOf(frame'[t]) = 0 /\ InsertInv(frame'[t], call'[t])
  BY <1>1, <1>2, SameExact DEF AddOf, SubOf, InsertInv, Inserting, Exact, Charge
<1>6. \A n \in Nodes : Held(n)' = Held(n)
  BY HeldNode
<1>7. memory_used \in Int
  BY DEF CInv, OwnType
<1>8. Debit(t, 0)
  BY <1>4, <1>5, <1>7 DEF Debit
<1>9. HeldTotal \in Nat /\ HeldTotal' = HeldTotal + 0
  BY <1>6, HeldSame
<1>10. Original' => Original
  BY DEF Original
<1> QED BY <1>5, <1>8, <1>9, <1>10, AccountKeeps

LEMMA RestingLabels ==
  /\ CacheLabels \cap BusyLabels = {} /\ EvictLabels \cap BusyLabels = {}
  /\ {"insertCheck", "evict", "evictPop", "evictGen", "evictLoad"} \subseteq CacheLabels \cap EvictLabels
  /\ {"evictNode", "evicted"} \subseteq EvictLabels
  /\ {"idle", "visit", "decayGen", "decayPush", "decayPublish", "decayEnd", "compactSwap"} \cap BusyLabels = {}
  /\ {"decayLoad", "exited", "compactMarked", "compactNodes", "compactGen"} \subseteq CacheLabels
BY DEF CacheLabels, EvictLabels, BusyLabels

LEMMA InsertCheckAccounts ==
  ASSUME CInv, CInv', MInv, NEW t \in Threads, Alone(t), InsertCheck(t)
  PROVE  MInv'
<1>1. frame[t].pc = "insertCheck" /\ UNCHANGED <<node, buckets, memory_used>>
  BY DEF InsertCheck, At
<1>2. CASE Goto(t, "evict") /\ SetCall(t, [call[t] EXCEPT !.need = call[t].charge])
  <2>1. Calm(frame'[t])
    BY <1>1, <1>2, RestingLabels, GotoCalm
  <2>2. PICK c \in CallRecords : c = call[t] /\ Exact(c)
    BY ActorCall, SameExact
  <2>3. call'[t] = [c EXCEPT !.need = c.charge]
    BY <1>2, <2>2, CallMoves
  <2>4. call'[t].charge = c.charge /\ call'[t].h = c.h
    BY <2>3 DEF CallRecords
  <2>5. Exact(call'[t])
    BY <2>2, <2>4 DEF Exact
  <2> QED BY <1>1, <2>1, <2>5, RestingLabels, SameUsed, OwnCalm
<1>3. CASE SetFrame(t, ListInsert(call[t])) /\ UNCHANGED call
  BY <1>1, <1>3, RestingLabels, ListInsertAccounts
<1> QED BY <1>2, <1>3 DEF InsertCheck

\* What Inserted adds and subtracts is what the lists have gained.
LEMMA InsertedAccounts ==
  ASSUME CInv, CInv', MInv, NEW t \in Threads, Alone(t), Inserted(t)
  PROVE  MInv'
<1>1. PICK f \in Frames, c \in CallRecords : f = frame[t] /\ c = call[t] /\ f.pc = "inserted"
  BY ActorCall DEF Inserted, At
<1>2. memory_used' = memory_used + c.charge - Charge(f.h) /\ UNCHANGED <<node, buckets>>
  BY <1>1 DEF Inserted
<1>3. frame'[t] = Idle /\ call'[t] = NoCall
  BY FrameMoves, CallMoves DEF Inserted, SetFrame, CInv
<1>4. AddOf(frame'[t], call'[t]) = 0 /\ SubOf(frame'[t]) = 0 /\ InsertInv(frame'[t], call'[t])
  BY <1>3, NextActor, CalmFrame, IdleCalm, NoCallExact DEF Exact
<1>5. AddOf(f, c) = c.charge /\ SubOf(f) = Charge(f.h)
  BY <1>1 DEF AddOf, SubOf
<1>6. c.charge \in Nat /\ Charge(f.h) \in Nat /\ memory_used \in Int
  BY ChargeType DEF CallRecords, Frames, CInv, OwnType
<1>7. Debit(t, 0)
  BY <1>1, <1>2, <1>4, <1>5, <1>6 DEF Debit
<1>8. \A n \in Nodes : Held(n)' = Held(n)
  BY <1>2, HeldNode
<1>9. HeldTotal \in Nat /\ HeldTotal' = HeldTotal + 0
  BY <1>8, HeldSame
<1>10. Original' => Original
  BY <1>2 DEF Original
<1> QED BY <1>4, <1>7, <1>9, <1>10, AccountKeeps

LEMMA EvictSizeAccounts ==
  ASSUME CInv, CInv', MInv, NEW t \in Threads, Alone(t), EvictSize(t)
  PROVE  MInv'
<1>1. frame[t].pc = "evict" /\ UNCHANGED <<node, buckets, memory_used, call>>
  BY DEF EvictSize, At, ownVars
<1>2. CASE Goto(t, "evictPop")
  <2>1. Calm(frame'[t])
    BY <1>1, <1>2, RestingLabels, GotoCalm
  <2> QED BY <1>1, <2>1, RestingLabels, SameUsed, SameExact, OwnCalm
<1>3. CASE SetFrame(t, ListInsert(call[t]))
  BY <1>1, <1>3, RestingLabels, ListInsertAccounts
<1> QED BY <1>2, <1>3 DEF EvictSize

\* The locals of an Insert that change in Evict say nothing of charges.
LEMMA LocalsExact ==
  ASSUME CInv, MInv, NEW t \in Threads,
         \/ UNCHANGED call
         \/ \E e : SetCall(t, [call[t] EXCEPT !.entry = e])
         \/ \E m : SetCall(t, [call[t] EXCEPT !.need = m])
  PROVE  Exact(call'[t])
<1>1. CASE UNCHANGED call
  BY <1>1, SameExact
<1>2. PICK c \in CallRecords : c = call[t] /\ Exact(c)
  BY ActorCall, SameExact
<1>3. ASSUME NEW e, SetCall(t, [call[t] EXCEPT !.entry = e]) PROVE Exact(call'[t])
  <2>1. call'[t] = [c EXCEPT !.entry = e]
    BY <1>2, <1>3, CallMoves
  <2>2. call'[t].charge = c.charge /\ call'[t].h = c.h
    BY <2>1 DEF CallRecords
  <2> QED BY <1>2, <2>2 DEF Exact
<1>4. ASSUME NEW m, SetCall(t, [call[t] EXCEPT !.need = m]) PROVE Exact(call'[t])
  <2>1. call'[t] = [c EXCEPT !.need = m]
    BY <1>2, <1>4, CallMoves
  <2>2. call'[t].charge = c.charge /\ call'[t].h = c.h
    BY <2>1 DEF CallRecords
  <2> QED BY <1>2, <2>2 DEF Exact
<1> QED BY <1>1, <1>3, <1>4

LEMMA EvictPopAccounts ==
  ASSUME CInv, CInv', MInv, NEW t \in Threads, Alone(t), EvictPop(t) \/ EvictGen(t)
  PROVE  MInv'
<1>1. frame[t].pc \in {"evictPop", "evictGen"} /\ UNCHANGED <<node, buckets, memory_used>>
  BY DEF EvictPop, EvictGen, At, ownVars
<1>2. \E a \in {"evict", "evictGen", "evictLoad"} : Goto(t, a)
  BY DEF EvictPop, EvictGen
<1>3. Calm(frame'[t])
  BY <1>1, <1>2, RestingLabels, GotoCalm
<1>4. UNCHANGED call \/ \E e : SetCall(t, [call[t] EXCEPT !.entry = e])
  BY DEF EvictPop, EvictGen, ownVars
<1> QED BY <1>1, <1>3, <1>4, RestingLabels, SameUsed, LocalsExact, OwnCalm

LEMMA EvictLoadAccounts ==
  ASSUME CInv, CInv', MInv, NEW t \in Threads, Alone(t), EvictLoad(t)
  PROVE  MInv'
<1> DEFINE l == buckets[call[t].entry.bucket]
           k == call[t].entry.key
           o == [On(l) EXCEPT !.ret = "evictNode"]
<1>1. frame[t].pc = "evictLoad" /\ UNCHANGED <<node, buckets, memory_used>>
  BY DEF EvictLoad, At
<1>2. call[t].entry \in Entries
  BY <1>1, ActorCall DEF CallInv
<1>3. l # 0 => l \in Lists
  BY <1>2, BucketList DEF Entries, CInv
<1>4. l # 0 => o \in Frames /\ o.ret = "evictNode"
  <2> SUFFICES ASSUME l # 0 PROVE o \in Frames /\ o.ret = "evictNode"
    OBVIOUS
  <2>1. PICK q \in Frames : q = On(l)
    BY <1>3, OnFrame
  <2>2. "evictNode" \in Labels
    BY LabelType DEF FindReturns
  <2> QED BY <2>1, <2>2 DEF Frames
<1>5. frame'[t] = IF l = 0 THEN [Idle EXCEPT !.pc = "evict"] ELSE Find(o, k, "getNode")
  BY FrameMoves DEF EvictLoad, SetFrame, CInv
<1> HIDE DEF o
<1>6. Calm(frame'[t])
  BY <1>4, <1>5, IdleCalm, SearchCalm
<1>7. Exact(call'[t])
  BY LocalsExact DEF EvictLoad
<1> QED BY <1>1, <1>6, <1>7, RestingLabels, SameUsed, OwnCalm

LEMMA MarkDeletedCalm ==
  ASSUME NEW f \in Frames, NEW n, NEW b, NEW a, a # "inserted"
  PROVE  Calm(MarkDeleted(f, n, b, a))
<1>1. MarkDeleted(f, n, b, a).pc = "mark" /\ MarkDeleted(f, n, b, a).ret = a
  BY DEF MarkDeleted, Frames
<1> QED BY <1>1 DEF Calm

LEMMA EvictNodeAccounts ==
  ASSUME CInv, CInv', MInv, NEW t \in Threads, Alone(t), EvictNode(t)
  PROVE  MInv'
<1>1. PICK f \in Frames : f = frame[t] /\ f.pc = "evictNode"
  BY ActorCall DEF EvictNode, At
<1>2. frame'[t] = IF f.n = 0 THEN [Idle EXCEPT !.pc = "evict"] ELSE MarkDeleted(f, f.n, FALSE, "evicted")
  BY <1>1, FrameMoves DEF EvictNode, SetFrame, CInv
<1>3. Calm(frame'[t])
  BY <1>2, IdleCalm, MarkDeletedCalm, Zenon
<1>4. UNCHANGED <<node, buckets, memory_used, call>>
  BY DEF EvictNode, ownVars
<1> QED BY <1>1, <1>3, <1>4, RestingLabels, SameUsed, SameExact, OwnCalm

LEMMA EvictedAccounts ==
  ASSUME CInv, CInv', MInv, NEW t \in Threads, Alone(t), Evicted(t)
  PROVE  MInv'
<1>1. PICK f \in Frames : f = frame[t] /\ f.pc = "evicted"
  BY ActorCall DEF Evicted, At
<1>2. f.charge \in Nat /\ memory_used \in Int /\ memory_used' = memory_used + f.charge
  BY <1>1 DEF Frames, CInv, OwnType, Evicted
<1>3. frame'[t] = [Idle EXCEPT !.pc = "evict"]
  BY FrameMoves DEF Evicted, SetFrame, CInv
<1>4. \E m : SetCall(t, [call[t] EXCEPT !.need = m])
  BY DEF Evicted
<1>5. Exact(call'[t])
  BY <1>4, LocalsExact
<1>6. UNCHANGED <<node, buckets>> /\ memory_used' >= memory_used
  BY <1>2 DEF Evicted
<1> QED BY <1>1, <1>3, <1>5, <1>6, IdleCalm, RestingLabels, OwnCalm

LEMMA ClientAccounts ==
  ASSUME CInv, CInv', MInv, NEW t \in Threads, Client(t)
  PROVE  MInv'
BY ClientAlone, InsertCheckAccounts, InsertedAccounts, EvictSizeAccounts, EvictPopAccounts, EvictLoadAccounts,
   EvictNodeAccounts, EvictedAccounts DEF Client
-----------------------------------------------------------------------------
(***************************************************************************)
(* The steps of the two threads between the operations of a list.          *)
(***************************************************************************)
LEMMA IndexExact ==
  ASSUME CInv, NEW t \in Threads, NextIndex(t)
  PROVE  Exact(call'[t])
<1>1. call'[t] = [NoCall EXCEPT !.index = (call[t].index + 1) % BucketNum]
  BY CallMoves DEF NextIndex
<1>2. call'[t].charge = NoCall.charge /\ call'[t].h = NoCall.h
  BY <1>1 DEF NoCall
<1> QED BY <1>2, NoCallExact DEF Exact

LEMMA IterateCalm ==
  ASSUME NEW f \in Frames
  PROVE  /\ Calm(IterateOn(f))
         /\ f.ret # "inserted" => \A a : Calm(IterateLevel(f, a))
<1>1. \A a : IterateLevel(f, a).pc = "iterate" /\ IterateLevel(f, a).ret = f.ret
  BY DEF IterateLevel, Frames
<1> QED BY <1>1, IterateOnShape DEF Calm

LEMMA DecayCheckAccounts ==
  ASSUME CInv, CInv', MInv, NEW t \in Threads, Alone(t), DecayCheck(t)
  PROVE  MInv'
<1>1. frame[t].pc = "idle" /\ UNCHANGED <<node, buckets, memory_used, call>>
  BY DEF DecayCheck, At, ownVars
<1>2. Goto(t, "exited") \/ Goto(t, "decayLoad")
  BY DEF DecayCheck
<1>3. Calm(frame'[t])
  BY <1>1, <1>2, RestingLabels, GotoCalm
<1> QED BY <1>1, <1>3, RestingLabels, SameUsed, SameExact, OwnCalm

LEMMA DecayLoadAccounts ==
  ASSUME CInv, CInv', MInv, NEW t \in Threads, Alone(t), DecayLoad(t) \/ DecayEnd(t)
  PROVE  MInv'
<1>1. frame[t].pc \in {"decayLoad", "decayEnd"} /\ UNCHANGED <<node, buckets, memory_used>>
  BY DEF DecayLoad, DecayEnd, At
<1>2. CASE SetFrame(t, Idle) /\ NextIndex(t)
  <2>1. frame'[t] = Idle
    BY <1>2, FrameMoves DEF SetFrame, CInv
  <2> QED BY <1>1, <1>2, <2>1, IdleCalm, RestingLabels, SameUsed, IndexExact, OwnCalm
<1>3. CASE buckets[call[t].index] # 0 /\ SetFrame(t, IterateLevel(On(buckets[call[t].index]), "decayEnd")) /\ UNCHANGED call
  <2>1. buckets[call[t].index] \in Lists
    BY <1>3, ActorCall, BucketList DEF CallRecords, CInv
  <2>2. PICK o \in Frames : o = On(buckets[call[t].index]) /\ o.ret = "idle"
    BY <2>1, OnFrame
  <2>3. frame'[t] = IterateLevel(o, "decayEnd")
    BY <1>3, <2>2, FrameMoves DEF SetFrame, CInv
  <2>4. Calm(frame'[t])
    BY <2>2, <2>3, IterateCalm
  <2> QED BY <1>1, <1>3, <2>4, RestingLabels, SameUsed, SameExact, OwnCalm
<1> QED BY <1>2, <1>3 DEF DecayLoad, DecayEnd

LEMMA DecayVisitAccounts ==
  ASSUME CInv, CInv', MInv, NEW t \in Threads, Alone(t), DecayVisit(t)
  PROVE  MInv'
<1>1. PICK f \in Frames : f = frame[t] /\ f.pc = "visit"
  BY ActorCall DEF DecayVisit, At
<1>2. PICK hit : node' = [node EXCEPT ![f.n].hit = hit]
  BY <1>1 DEF DecayVisit
<1>3. \A n \in Nodes : Held(n)' = Held(n)
  <2>1. node \in [AllNodes -> NodeRecords] /\ Nodes \subseteq AllNodes
    BY Numbers DEF CInv, LInv, StateType
  <2>2. ASSUME NEW n \in Nodes PROVE node'[n].list = node[n].list /\ node'[n].handle = node[n].handle
    BY <1>2, <2>1 DEF NodeRecords
  <2> QED BY <2>2, HeldNode
<1>4. UNCHANGED <<buckets, memory_used, call>>
  BY DEF DecayVisit, ownVars
<1>5. \/ SetFrame(t, IterateOn(f)) \/ Goto(t, "decayGen")
      \/ SetFrame(t, MarkDeleted(f, f.n, TRUE, "decayed"))
  BY <1>1 DEF DecayVisit
<1>6. Calm(frame'[t])
  <2>1. CASE SetFrame(t, IterateOn(f))
    <3>1. frame'[t] = IterateOn(f)
      BY <2>1, FrameMoves DEF SetFrame, CInv
    <3> QED BY <3>1, IterateCalm
  <2>2. CASE Goto(t, "decayGen")
    BY <1>1, <2>2, RestingLabels, GotoCalm
  <2>3. CASE SetFrame(t, MarkDeleted(f, f.n, TRUE, "decayed"))
    <3>1. frame'[t] = MarkDeleted(f, f.n, TRUE, "decayed")
      BY <2>3, FrameMoves DEF SetFrame, CInv
    <3> QED BY <3>1, MarkDeletedCalm, Zenon
  <2> QED BY <1>5, <2>1, <2>2, <2>3
<1>7. Calm(frame[t])
  BY <1>1, SettledFrame
<1>8. Original' => Original
  BY <1>4 DEF Original
<1>9. call'[t].charge = Charge(call'[t].h)
  BY <1>4, SameExact DEF Exact
<1> QED BY <1>3, <1>4, <1>6, <1>7, <1>8, <1>9, SameUsed, CalmKeeps

LEMMA DecayPushAccounts ==
  ASSUME CInv, CInv', MInv, NEW t \in Threads, Alone(t), DecayGen(t) \/ DecayPush(t) \/ DecayPublish(t)
  PROVE  MInv'
<1>1. PICK f \in Frames : f = frame[t] /\ f.pc \in {"decayGen", "decayPush", "decayPublish"}
  BY ActorCall DEF DecayGen, DecayPush, DecayPublish, At
<1>2. UNCHANGED <<node, buckets, memory_used>> /\ (UNCHANGED call \/ \E e : SetCall(t, [call[t] EXCEPT !.entry = e]))
  BY DEF DecayGen, DecayPush, DecayPublish
<1>3. (\E a \in {"decayPush", "decayPublish"} : Goto(t, a)) \/ SetFrame(t, IterateOn(f))
  BY <1>1 DEF DecayGen, DecayPush, DecayPublish
<1>4. Calm(frame'[t])
  <2>1. CASE SetFrame(t, IterateOn(f))
    <3>1. frame'[t] = IterateOn(f)
      BY <2>1, FrameMoves DEF SetFrame, CInv
    <3> QED BY <3>1, IterateCalm
  <2>2. CASE \E a \in {"decayPush", "decayPublish"} : Goto(t, a)
    BY <1>1, <2>2, RestingLabels, GotoCalm
  <2> QED BY <1>3, <2>1, <2>2
<1> QED BY <1>1, <1>2, <1>4, RestingLabels, SameUsed, LocalsExact, OwnCalm

\* The decay thread subtracts what it has taken out.
LEMMA DecayedAccounts ==
  ASSUME CInv, CInv', MInv, NEW t \in Threads, Alone(t), Decayed(t)
  PROVE  MInv'
<1>1. PICK f \in Frames, c \in CallRecords : f = frame[t] /\ c = call[t] /\ f.pc = "decayed"
  BY ActorCall DEF Decayed, At
<1>2. memory_used' = memory_used - f.charge /\ UNCHANGED <<node, buckets, call>>
  BY <1>1 DEF Decayed
<1>3. frame'[t] = IterateOn(f)
  BY <1>1, FrameMoves DEF Decayed, SetFrame, CInv
<1>4. AddOf(frame'[t], call'[t]) = 0 /\ SubOf(frame'[t]) = 0 /\ InsertInv(frame'[t], call'[t])
  BY <1>2, <1>3, NextActor, CalmFrame, IterateCalm, SameExact DEF Exact
<1>5. AddOf(f, c) = 0 /\ SubOf(f) = f.charge
  <2>1. f.new = 0
    BY <1>1, NotLinking DEF CInv
  <2> QED BY <1>1, <2>1 DEF AddOf, SubOf
<1>6. f.charge \in Nat /\ memory_used \in Int
  BY DEF Frames, CInv, OwnType
<1>7. Debit(t, 0)
  BY <1>1, <1>2, <1>4, <1>5, <1>6 DEF Debit
<1>8. \A n \in Nodes : Held(n)' = Held(n)
  BY <1>2, HeldNode
<1>9. HeldTotal \in Nat /\ HeldTotal' = HeldTotal + 0
  BY <1>8, HeldSame
<1>10. Original' => Original
  BY <1>2 DEF Original
<1> QED BY <1>4, <1>7, <1>9, <1>10, AccountKeeps

LEMMA DecayAccounts ==
  ASSUME CInv, CInv', MInv, NEW t \in Threads, Decay(t)
  PROVE  MInv'
BY DecayAlone, DecayCheckAccounts, DecayLoadAccounts, DecayVisitAccounts, DecayPushAccounts, DecayedAccounts DEF Decay

LEMMA CompactRestAccounts ==
  ASSUME CInv, CInv', MInv, NEW t \in Threads, Alone(t), CompactCheck(t) \/ CompactMarked(t) \/ CompactNodes(t) \/ CompactGen(t)
  PROVE  MInv'
<1>1. PICK f \in Frames : f = frame[t] /\ f.pc \in {"idle", "compactMarked", "compactNodes", "compactGen"}
  BY ActorCall DEF CompactCheck, CompactMarked, CompactNodes, CompactGen, At
<1>2. UNCHANGED <<node, buckets, memory_used>>
  BY DEF CompactCheck, CompactMarked, CompactNodes, CompactGen
<1>3. PICK c \in CallRecords : c = call[t] /\ Exact(c)
  BY ActorCall, SameExact
<1>4. \/ UNCHANGED call \/ NextIndex(t)
      \/ \E m, l : SetCall(t, [c EXCEPT !.marked = m, !.new = l]) \/ SetCall(t, [c EXCEPT !.marked = m])
  BY <1>3 DEF CompactCheck, CompactMarked, CompactNodes, CompactGen
<1>5. Exact(call'[t])
  <2>1. ASSUME NEW m, NEW l, SetCall(t, [c EXCEPT !.marked = m, !.new = l]) \/ SetCall(t, [c EXCEPT !.marked = m])
        PROVE  Exact(call'[t])
    <3>1. call'[t] = [c EXCEPT !.marked = m, !.new = l] \/ call'[t] = [c EXCEPT !.marked = m]
      BY <2>1, CallMoves
    <3>2. call'[t].charge = c.charge /\ call'[t].h = c.h
      BY <3>1 DEF CallRecords
    <3> QED BY <1>3, <3>2 DEF Exact
  <2> QED BY <1>4, <2>1, SameExact, IndexExact
<1>6. Calm(f)
  BY <1>1, SettledFrame
<1>7. \/ \E a \in {"exited", "compactNodes"} : Goto(t, a)
      \/ UNCHANGED frame \/ SetFrame(t, Idle)
      \/ SetFrame(t, IterateLevel(f, "compactSwap"))
      \/ \E l : SetFrame(t, [On(l) EXCEPT !.pc = "compactMarked"])
  BY <1>1 DEF CompactCheck, CompactMarked, CompactNodes, CompactGen
<1>8. Calm(frame'[t])
  <2>1. CASE \E a \in {"exited", "compactNodes"} : Goto(t, a)
    BY <1>1, <2>1, RestingLabels, GotoCalm
  <2>2. CASE UNCHANGED frame
    BY <1>1, <1>6, <2>2
  <2>3. CASE SetFrame(t, Idle)
    <3>1. frame'[t] = Idle
      BY <2>3, FrameMoves DEF SetFrame, CInv
    <3> QED BY <3>1, IdleCalm
  <2>4. CASE SetFrame(t, IterateLevel(f, "compactSwap"))
    <3>1. frame'[t] = IterateLevel(f, "compactSwap")
      BY <2>4, FrameMoves DEF SetFrame, CInv
    <3> QED BY <1>6, <3>1, IterateCalm DEF Calm
  <2>5. ASSUME NEW l, SetFrame(t, [On(l) EXCEPT !.pc = "compactMarked"]) PROVE Calm(frame'[t])
    <3>1. frame'[t] = [On(l) EXCEPT !.pc = "compactMarked"]
      BY <2>5, FrameMoves DEF SetFrame, CInv
    <3>2. frame'[t].pc = "compactMarked" /\ frame'[t].ret = "idle"
      BY <3>1 DEF On, Idle
    <3> QED BY <3>2 DEF Calm
  <2> QED BY <1>7, <2>1, <2>2, <2>3, <2>4, <2>5
<1> QED BY <1>1, <1>2, <1>5, <1>8, RestingLabels, SameUsed, OwnCalm

\* The copy is not one of the lists of Init().
LEMMA CompactVisitAccounts ==
  ASSUME CInv, CInv', MInv, Alone(Compactor), CompactVisit(Compactor)
  PROVE  MInv'
<1>1. PICK f \in Frames, n \in Linked(frame[Compactor].list), new \in Unused :
        /\ f = frame[Compactor] /\ f.pc = "visit" /\ f.n = n
        /\ new = call[Compactor].new /\ new \in Lists /\ node[n].handle \in Handles \cup {None}
        /\ Room(new, node[n].key)
  BY CopyFrame
<1>2. \A m \in Nodes : Held(m)' = Held(m)
  <2>1. CASE UNCHANGED node
    BY <2>1, HeldNode
  <2>2. CASE AppendNode(new, node[n].key, node[n].handle)
    <3>1. PICK x \in Nodes, top \in Levels : Appends(new, node[n].key, x, top)
      BY <1>1, <2>2, AppendEffect DEF Room, CInv
    <3>2. node[x].list = 0 /\ node'[x].list = new
      BY <3>1 DEF Appends
    <3>3. Held(x)' = Held(x)
      BY <1>1, <3>2, Parties DEF Held
    <3>4. ASSUME NEW m \in Nodes, m # x PROVE Held(m)' = Held(m)
      <4>1. node'[m].list = node[m].list /\ node'[m].handle = node[m].handle
        BY <3>1, <3>4, Numbers DEF Appends
      <4> QED BY <4>1, HeldNode
    <3> QED BY <3>3, <3>4
  <2> QED BY <1>1, <2>1, <2>2 DEF CompactVisit
<1>3. Compactor \in Threads
  BY Parties
<1>4. frame'[Compactor] = IterateOn(f)
  BY <1>1, <1>3, FrameMoves DEF CompactVisit, SetFrame, CInv
<1>5. UNCHANGED <<buckets, memory_used, call>>
  BY DEF CompactVisit, ownVars
<1>6. Calm(frame'[Compactor]) /\ Calm(frame[Compactor])
  BY <1>1, <1>3, <1>4, IterateCalm, SettledFrame
<1>7. Original' => Original
  BY <1>5 DEF Original
<1>8. call'[Compactor].charge = Charge(call'[Compactor].h)
  BY <1>3, <1>5, SameExact DEF Exact
<1> QED BY <1>2, <1>3, <1>5, <1>6, <1>7, <1>8, SameUsed, CalmKeeps

LEMMA CompactSwapAccounts ==
  ASSUME CInv, CInv', MInv, Alone(Compactor), CompactSwap(Compactor)
  PROVE  MInv'
<1>1. Compactor \in Threads /\ frame[Compactor].pc = "compactSwap"
  BY Parties DEF CompactSwap, At
<1>2. UNCHANGED <<node, memory_used, call>>
  BY DEF CompactSwap
<1>3. Calm(frame'[Compactor]) /\ Calm(frame[Compactor])
  BY <1>1, RestingLabels, GotoCalm, SettledFrame DEF CompactSwap
<1>4. ~Original'
  <2>1. call[Compactor].new \in Unused
    BY <1>1 DEF CInv, CompactorInv
  <2>2. PICK b \in Buckets : b = call[Compactor].index
    BY <1>1, ActorCall DEF CallRecords
  <2>3. buckets'[b] = call[Compactor].new
    BY <2>2 DEF CompactSwap, CInv, OwnType
  <2>4. call[Compactor].new \in Lists /\ call[Compactor].new > BucketNum /\ b + 1 \in 1 .. BucketNum
    BY <2>1, Parties
  <2>5. call[Compactor].new # 0 /\ call[Compactor].new # b + 1
    BY <2>4, Parties DEF Lists
  <2> QED BY <2>3, <2>5 DEF Original
<1>5. call'[Compactor].charge = Charge(call'[Compactor].h)
  BY <1>1, <1>2, SameExact DEF Exact
<1>6. \A n \in Nodes : Held(n)' = Held(n)
  BY <1>2, HeldNode
<1> QED BY <1>1, <1>2, <1>3, <1>4, <1>5, <1>6, SameUsed, CalmKeeps

LEMMA CompactAccounts ==
  ASSUME CInv, CInv', MInv, Compact(Compactor)
  PROVE  MInv'
BY Parties, CompactAlone, CompactRestAccounts, CompactVisitAccounts, CompactSwapAccounts DEF Compact
-----------------------------------------------------------------------------
(***************************************************************************)
(* The steps of list operations.                                           *)
(***************************************************************************)
LEMMA ListBalance ==
  ASSUME CInv, CInv', MInv, NEW t \in Threads, ListStep(t), UNCHANGED ownVars,
         NEW f, NEW c, f = frame[t], c = call[t], NEW g, frame'[t] = g, InsertInv(g, c),
         NEW e \in Int, Original => HeldTotal \in Nat /\ HeldTotal' = HeldTotal + e,
         AddOf(g, c) + SubOf(f) >= AddOf(f, c) + SubOf(g) + e
  PROVE  MInv'
<1>1. MovesFrame(t) /\ MovesCall(t)
  BY ListStepFrame DEF MovesFrame, MovesCall, SetFrame, ownVars
<1>2. Alone(t)
  BY <1>1, MovesAlone
<1>3. UNCHANGED <<buckets, memory_used, call>>
  BY DEF ownVars
<1>4. /\ AddOf(f, c) \in Nat /\ SubOf(f) \in Nat /\ AddOf(g, c) \in Nat /\ SubOf(g) \in Nat
      /\ memory_used \in Int
  <2>1. f \in Frames /\ c \in CallRecords /\ g \in Frames
    BY ActorCall, NextActor
  <2> QED BY <2>1, DebtTypes DEF CInv, OwnType
<1>5. call'[t] = c
  BY <1>3
<1>6. Debit(t, e) <=> memory_used + AddOf(g, c) - AddOf(f, c) >= memory_used + e + SubOf(g) - SubOf(f)
  BY <1>3, <1>5 DEF Debit
<1>7. Debit(t, e)
  BY <1>4, <1>6
<1>8. Original' => Original
  BY <1>3 DEF Original
<1> QED BY <1>2, <1>5, <1>7, <1>8, AccountKeeps

\* Steps that leave the handles.
LEMMA ListSame ==
  ASSUME CInv, CInv', MInv, NEW t \in Threads, ListStep(t), UNCHANGED ownVars,
         NEW f, NEW c, f = frame[t], c = call[t], NEW g, frame'[t] = g, InsertInv(g, c),
         \A n \in Nodes : node'[n].list = node[n].list /\ node'[n].handle = node[n].handle,
         AddOf(g, c) = AddOf(f, c), SubOf(g) <= SubOf(f)
  PROVE  MInv'
<1>1. \A n \in Nodes : Held(n)' = Held(n)
  BY HeldNode
<1>2. HeldTotal \in Nat /\ HeldTotal' = HeldTotal + 0
  BY <1>1, HeldSame
<1>3. f \in Frames /\ c \in CallRecords /\ g \in Frames
  BY ActorCall, NextActor
<1>4. AddOf(f, c) \in Nat /\ SubOf(f) \in Nat /\ SubOf(g) \in Nat
  BY <1>3, DebtTypes
<1>5. AddOf(g, c) + SubOf(f) >= AddOf(f, c) + SubOf(g) + 0
  BY <1>4
<1> QED BY <1>2, <1>5, ListBalance

LEMMA ListCalm ==
  ASSUME CInv, CInv', MInv, NEW t \in Threads, ListStep(t), UNCHANGED ownVars,
         frame[t].pc \notin BusyLabels, Calm(frame'[t]),
         \A n \in Nodes : node'[n].list = node[n].list /\ node'[n].handle = node[n].handle
  PROVE  MInv'
<1> DEFINE f == frame[t]
           c == call[t]
           g == frame'[t]
<1>1. Calm(f)
  BY SettledFrame DEF BusyLabels
<1>2. AddOf(f, c) = 0 /\ SubOf(f) = 0
  BY <1>1, ActorCall, CalmFrame DEF FrameInv, NewInv
<1>3. AddOf(g, c) = 0 /\ SubOf(g) = 0 /\ InsertInv(g, c)
  BY NextActor, CalmFrame, SameExact DEF Exact
<1>4. SubOf(g) <= SubOf(f)
  BY <1>2, <1>3
<1> HIDE DEF f, c, g
<1>5. f = frame[t] /\ c = call[t] /\ frame'[t] = g
  BY DEF f, c, g
<1> QED BY <1>2, <1>3, <1>4, <1>5, ListSame

LEMMA DoneCalm ==
  ASSUME NEW f \in Frames, f.ret \in FindReturns, f.ret # "inserted", NEW n, NEW h
  PROVE  Calm(Done(f, n, h))
<1>1. CASE f.ret = "idle"
  BY <1>1, IdleCalm DEF Done
<1>2. CASE f.ret # "idle"
  <2> DEFINE g == [Idle EXCEPT !.pc = f.ret, !.list = f.list, !.n = n, !.h = h]
  <2>1. g.pc = f.ret /\ g.ret = "idle"
    BY DEF Idle
  <2>2. Done(f, n, h) = g
    BY <1>2 DEF Done
  <2> HIDE DEF g
  <2> QED BY <2>1, <2>2 DEF Calm, FindReturns
<1> QED BY <1>1, <1>2

LEMMA GetNodeAccounts ==
  ASSUME CInv, CInv', MInv, NEW t \in Threads, GetNode(t), UNCHANGED ownVars
  PROVE  MInv'
<1>1. PICK f \in Frames : f = frame[t] /\ FrameInv(f) /\ f.pc \in {"getNode", "getFor"}
  BY ActorCall DEF GetNode, At
<1>2. Calm(f) /\ f.ret \in FindReturns
  BY <1>1, SettledFrame DEF FrameInv, ReturnInv, SearchLabels
<1>3. \/ \E n : frame'[t] = Done(f, n, None)
      \/ frame'[t] = [Idle EXCEPT !.pc = "getHandle", !.ret = f.ret, !.list = f.list, !.n = f.succs[0].to]
  BY <1>1, FrameMoves DEF GetNode, SetFrame, CInv
<1>4. Calm(frame'[t])
  <2>1. CASE frame'[t] = [Idle EXCEPT !.pc = "getHandle", !.ret = f.ret, !.list = f.list, !.n = f.succs[0].to]
    <3>1. frame'[t].pc = "getHandle" /\ frame'[t].ret = f.ret
      BY <2>1 DEF Idle
    <3> QED BY <1>2, <3>1 DEF Calm
  <2>2. f.ret # "inserted"
    BY <1>2 DEF Calm
  <2> QED BY <1>2, <1>3, <2>1, <2>2, DoneCalm
<1>5. UNCHANGED node
  BY DEF GetNode
<1> QED BY <1>1, <1>4, <1>5, ListCalm DEF ListStep, BusyLabels

LEMMA ReadAccounts ==
  ASSUME CInv, CInv', MInv, NEW t \in Threads, GetHandle(t) \/ MarkRead(t) \/ IterateRead(t), UNCHANGED ownVars
  PROVE  MInv'
<1>1. PICK f \in Frames : f = frame[t] /\ f.pc \in {"getHandle", "mark", "iterate"}
  BY ActorCall DEF GetHandle, MarkRead, IterateRead, At
<1>2. Calm(f)
  BY <1>1, SettledFrame
<1>3. \/ \E h : frame'[t] = [f EXCEPT !.h = h, !.pc = "getHit"]
      \/ \E w : frame'[t] = [f EXCEPT !.word = w, !.pc = "markCas"]
      \/ \E n : frame'[t] = [f EXCEPT !.n = n, !.pc = "iterateMarked"]
  BY <1>1, FrameMoves DEF GetHandle, MarkRead, IterateRead, SetFrame, CInv
<1>4. frame'[t].ret = f.ret /\ frame'[t].pc \in {"getHit", "markCas", "iterateMarked"}
  BY <1>3 DEF Frames
<1>5. Calm(frame'[t])
  BY <1>2, <1>4 DEF Calm
<1>6. UNCHANGED node
  BY DEF GetHandle, MarkRead, IterateRead
<1> QED BY <1>1, <1>5, <1>6, ListCalm DEF ListStep, BusyLabels

LEMMA GetHitAccounts ==
  ASSUME CInv, CInv', MInv, NEW t \in Threads, GetHit(t), UNCHANGED ownVars
  PROVE  MInv'
<1>1. PICK f \in Frames : f = frame[t] /\ FrameInv(f) /\ f.pc = "getHit"
  BY ActorCall DEF GetHit, At
<1>2. f.ret \in FindReturns /\ f.ret # "inserted"
  BY <1>1, SettledFrame DEF FrameInv, ReturnInv, Calm
<1>3. frame'[t] = Done(f, 0, f.h)
  BY <1>1, FrameMoves DEF GetHit, SetFrame, CInv
<1>4. Calm(frame'[t])
  BY <1>2, <1>3, DoneCalm
<1>5. node \in [AllNodes -> NodeRecords] /\ Nodes \subseteq AllNodes
  BY Numbers DEF CInv, LInv, StateType
<1>6. PICK hit : node' = [node EXCEPT ![f.n].hit = hit]
  BY <1>1 DEF GetHit
<1>7. ASSUME NEW n \in Nodes PROVE node'[n].list = node[n].list /\ node'[n].handle = node[n].handle
  BY <1>5, <1>6 DEF NodeRecords
<1> QED BY <1>1, <1>4, <1>7, ListCalm DEF ListStep, BusyLabels

LEMMA IterateMarkedAccounts ==
  ASSUME CInv, CInv', MInv, NEW t \in Threads, IterateMarked(t), UNCHANGED ownVars
  PROVE  MInv'
<1>1. PICK f \in Frames : f = frame[t] /\ FrameInv(f) /\ f.pc = "iterateMarked"
  BY ActorCall DEF IterateMarked, At
<1>2. Calm(f) /\ f.after \in IterateEnds
  BY <1>1, SettledFrame DEF FrameInv, ReturnInv, IterateLabels
<1>3. \/ frame'[t] = IterateOn(f) \/ frame'[t] = Idle \/ frame'[t] = [Idle EXCEPT !.pc = f.after, !.list = f.list]
      \/ frame'[t] = [f EXCEPT !.pc = "visit"]
  BY <1>1, FrameMoves DEF IterateMarked, SetFrame, CInv
<1>4. Calm(frame'[t])
  <2>1. CASE frame'[t] = [Idle EXCEPT !.pc = f.after, !.list = f.list]
    <3>1. frame'[t].pc = f.after /\ frame'[t].ret = "idle"
      BY <2>1 DEF Idle
    <3> QED BY <1>2, <3>1 DEF Calm, IterateEnds
  <2>2. CASE frame'[t] = [f EXCEPT !.pc = "visit"]
    <3>1. frame'[t].pc = "visit" /\ frame'[t].ret = f.ret
      BY <2>2 DEF Frames
    <3> QED BY <1>2, <3>1 DEF Calm
  <2> QED BY <1>3, <2>1, <2>2, IterateCalm, IdleCalm
<1>5. UNCHANGED node
  BY DEF IterateMarked
<1> QED BY <1>1, <1>4, <1>5, ListCalm DEF ListStep, BusyLabels

\* What a MarkDeleted that returns has still to subtract.
LEMMA MarkedDebt ==
  ASSUME NEW f \in Frames, f.ret \in MarkReturns, f.new = 0, NEW x \in Nat, NEW c, Exact(c)
  PROVE  /\ AddOf(Marked(f, x), c) = 0 /\ SubOf(Marked(f, x)) \in {0, x}
         /\ InsertInv(Marked(f, x), c)
<1>1. CASE f.ret = "idle"
  <2>1. Marked(f, x) = Idle
    BY <1>1 DEF Marked
  <2>2. Idle.new = 0
    BY DEF Idle
  <2> QED BY <2>1, <2>2, IdleCalm, CalmFrame DEF Exact
<1>2. CASE f.ret # "idle"
  <2> DEFINE g == [f EXCEPT !.pc = f.ret, !.word = NullWord, !.counted = FALSE, !.charge = x]
  <2>1. g.pc = f.ret /\ g.ret = f.ret /\ g.new = 0 /\ g.charge = x
    BY DEF Frames
  <2>2. Marked(f, x) = g
    BY <1>2 DEF Marked
  <2> HIDE DEF g
  <2>3. AddOf(g, c) = 0 /\ SubOf(g) \in {0, x}
    BY <2>1 DEF AddOf, SubOf, MarkReturns
  <2>4. InsertInv(g, c)
    BY <2>1 DEF InsertInv, Inserting, Exact, MarkReturns
  <2> QED BY <2>2, <2>3, <2>4
<1> QED BY <1>1, <1>2

LEMMA MarkingFrame ==
  ASSUME CInv, MInv, NEW t \in Threads, frame[t].pc \in MarkLabels
  PROVE  /\ frame[t].ret \in MarkReturns /\ frame[t].new = 0 /\ Exact(call[t])
         /\ AddOf(frame[t], call[t]) = 0
         /\ SubOf(frame[t]) = IF frame[t].pc = "markCount" THEN frame[t].charge ELSE 0
<1>1. frame[t].ret \in MarkReturns
  BY ActorCall DEF FrameInv, ReturnInv
<1>2. frame[t].new = 0
  BY NotLinking DEF CInv, MarkLabels
<1> QED BY <1>1, <1>2, SameExact DEF AddOf, SubOf, MarkLabels

LEMMA WordFields ==
  ASSUME CInv, NEW n, NEW i, NEW w, SetWord(n, i, w), NEW m \in Nodes
  PROVE  node'[m].list = node[m].list /\ node'[m].handle = node[m].handle /\ node'[m].key = node[m].key
<1>1. node \in [AllNodes -> NodeRecords] /\ m \in AllNodes
  BY Numbers DEF CInv, LInv, StateType
<1>2. PICK v : node' = [node EXCEPT ![n] = [node[n] EXCEPT !.nexts = v]]
  BY DEF SetWord
<1>3. CASE m = n
  <2>1. node'[m] = [node[m] EXCEPT !.nexts = v] /\ node[m] \in NodeRecords
    BY <1>1, <1>2, <1>3
  <2> QED BY <2>1 DEF NodeRecords
<1>4. CASE m # n
  BY <1>1, <1>2, <1>4
<1> QED BY <1>3, <1>4

LEMMA MarkCasAccounts ==
  ASSUME CInv, CInv', MInv, NEW t \in Threads, MarkCas(t), UNCHANGED ownVars
  PROVE  MInv'
<1>1. PICK f \in Frames, c \in CallRecords : f = frame[t] /\ c = call[t] /\ f.pc = "markCas"
  BY ActorCall DEF MarkCas, At
<1>2. f.ret \in MarkReturns /\ f.new = 0 /\ Exact(c) /\ AddOf(f, c) = 0 /\ SubOf(f) = 0
  BY <1>1, MarkingFrame DEF MarkLabels
<1>3. PICK g \in Frames : g = frame'[t]
  BY NextActor
<1>4. \/ g = Marked(f, 0) \/ g = [f EXCEPT !.pc = "markHandle"]
      \/ g = [f EXCEPT !.word = Word(f.n, 0)]
  BY <1>1, <1>3, FrameMoves DEF MarkCas, SetFrame, Goto, CInv
<1>5. AddOf(g, c) = 0 /\ SubOf(g) = 0 /\ InsertInv(g, c)
  <2>1. CASE g = Marked(f, 0)
    BY <1>2, <2>1, MarkedDebt
  <2>2. CASE g = [f EXCEPT !.pc = "markHandle"] \/ g = [f EXCEPT !.word = Word(f.n, 0)]
    <3>1. g.pc \in {"markHandle", "markCas"} /\ g.ret = f.ret /\ g.new = 0
      BY <1>1, <1>2, <2>2 DEF Frames
    <3>2. f.ret # "inserted"
      BY <1>2 DEF MarkReturns
    <3> QED BY <1>2, <3>1, <3>2 DEF AddOf, SubOf, InsertInv, Inserting, Exact
  <2> QED BY <1>4, <2>1, <2>2
<1>6. UNCHANGED node \/ \E w : SetWord(f.n, 0, w)
  BY <1>1 DEF MarkCas
<1>8. ASSUME NEW n \in Nodes PROVE node'[n].list = node[n].list /\ node'[n].handle = node[n].handle
  BY <1>6, WordFields
<1>9. ListStep(t)
  BY DEF ListStep
<1>10. SubOf(g) <= SubOf(f)
  BY <1>2, <1>5
<1> QED BY <1>1, <1>2, <1>3, <1>5, <1>8, <1>9, <1>10, ListSame

LEMMA MarkCountAccounts ==
  ASSUME CInv, CInv', MInv, NEW t \in Threads, MarkCount(t), UNCHANGED ownVars
  PROVE  MInv'
<1>1. PICK f \in Frames, c \in CallRecords : f = frame[t] /\ c = call[t] /\ f.pc = "markCount"
  BY ActorCall DEF MarkCount, At
<1>2. f.ret \in MarkReturns /\ f.new = 0 /\ Exact(c) /\ AddOf(f, c) = 0 /\ SubOf(f) = f.charge
  BY <1>1, MarkingFrame DEF MarkLabels
<1>3. frame'[t] = Marked(f, f.charge)
  BY <1>1, FrameMoves DEF MarkCount, SetFrame, CInv
<1>4. PICK g : g = frame'[t]
  OBVIOUS
<1>5. f.charge \in Nat
  BY DEF Frames
<1>6. AddOf(g, c) = 0 /\ SubOf(g) <= f.charge /\ InsertInv(g, c)
  BY <1>2, <1>3, <1>4, <1>5, MarkedDebt
<1>7. ListStep(t) /\ UNCHANGED node
  BY DEF ListStep, MarkCount
<1> QED BY <1>1, <1>2, <1>4, <1>6, <1>7, ListSame

\* Until a bucket is replaced, the lists in use are those of Init().
LEMMA OriginalList ==
  ASSUME CInv, Original, NEW t \in Threads, frame[t].list \in Lists
  PROVE  frame[t].list \in 1 .. BucketNum
<1>1. frame[t].list \notin Unused
  BY ActorCall
<1>2. ASSUME NEW l \in Lists, l > BucketNum PROVE l \in Unused
  <2>1. \A b \in Buckets : buckets[b] \in {0, b + 1} /\ b + 1 \in 1 .. BucketNum
    BY Parties DEF Original
  <2>2. l \in Nat /\ BucketNum \in Nat
    BY Parties, ListAssumption DEF Lists
  <2>3. \A b \in Buckets : buckets[b] < l
    BY <1>2, <2>1, <2>2
  <2> QED BY <1>2, <2>3 DEF Unused
<1> QED BY <1>1, <1>2, Parties, ListAssumption DEF Lists

LEMMA MarkHandleAccounts ==
  ASSUME CInv, CInv', MInv, NEW t \in Threads, MarkHandle(t), UNCHANGED ownVars
  PROVE  MInv'
<1>1. PICK f \in Frames, c \in CallRecords : f = frame[t] /\ c = call[t] /\ f.pc = "markHandle" /\ FrameInv(f)
  BY ActorCall DEF MarkHandle, At
<1>2. f.ret \in MarkReturns /\ f.new = 0 /\ Exact(c) /\ AddOf(f, c) = 0 /\ SubOf(f) = 0
  BY <1>1, MarkingFrame DEF MarkLabels
<1>3. PICK n \in Nodes : n = f.n /\ node[n].list = f.list /\ f.list \in Lists
  BY <1>1, NodeInHand DEF NodeLabels, MarkLabels, Linked
<1>4. node \in [AllNodes -> NodeRecords] /\ Nodes \subseteq AllNodes
  BY Numbers DEF CInv, LInv, StateType
<1>5. PICK x \in Nat : x = Charge(node[n].handle)
  BY <1>4, ChargeType DEF NodeRecords
<1>6. PICK g : g = frame'[t]
  OBVIOUS
<1>7. g = [f EXCEPT !.charge = x, !.pc = "markCount"] \/ g = Marked(f, x)
  BY <1>1, <1>3, <1>5, <1>6, FrameMoves DEF MarkHandle, SetFrame, CInv
<1>8. AddOf(g, c) = 0 /\ SubOf(g) \in {0, x} /\ InsertInv(g, c)
  <2>1. CASE g = [f EXCEPT !.charge = x, !.pc = "markCount"]
    <3>1. g.pc = "markCount" /\ g.ret = f.ret /\ g.new = 0 /\ g.charge = x
      BY <1>2, <2>1 DEF Frames
    <3>2. f.ret # "inserted"
      BY <1>2 DEF MarkReturns
    <3> QED BY <1>2, <3>1, <3>2 DEF AddOf, SubOf, InsertInv, Inserting, Exact
  <2> QED BY <1>2, <1>7, <2>1, MarkedDebt
<1>9. node' = [node EXCEPT ![n].handle = None]
  BY <1>1, <1>3 DEF MarkHandle
<1>10. Original => HeldTotal \in Nat /\ HeldTotal' = HeldTotal + (0 - x)
  <2> SUFFICES ASSUME Original PROVE HeldTotal \in Nat /\ HeldTotal' = HeldTotal + (0 - x)
    OBVIOUS
  <2>1. node[n].list \in 1 .. BucketNum
    BY <1>1, <1>3, OriginalList
  <2>2. node'[n].list = node[n].list /\ node'[n].handle = None
    BY <1>3, <1>4, <1>9 DEF NodeRecords
  <2>3. Held(n) = x /\ Held(n)' = 0
    BY <1>5, <2>1, <2>2 DEF Held, Charge
  <2>4. \A m \in Nodes : m # n => Held(m)' = Held(m)
    BY <1>4, <1>9, HeldNode
  <2> QED BY <2>3, <2>4, HeldChange
<1>11. ListStep(t)
  BY DEF ListStep
<1>12. AddOf(g, c) + SubOf(f) >= AddOf(f, c) + SubOf(g) + (0 - x)
  BY <1>2, <1>8
<1> QED BY <1>1, <1>6, <1>8, <1>10, <1>11, <1>12, ListBalance

\* Steps that keep what an Insert has in its hands.
LEMMA SameHands ==
  ASSUME CInv, CInv', MInv, NEW t \in Threads, ListStep(t), UNCHANGED ownVars,
         NEW f, f = frame[t], NEW g, frame'[t] = g, g.new = f.new, g.ret = f.ret, Inserting(g) <=> Inserting(f),
         g.h \in {f.h, None}, {f.pc, g.pc} \cap {"inserted", "markCount", "decayed"} = {},
         \A n \in Nodes : node'[n].list = node[n].list /\ node'[n].handle = node[n].handle
  PROVE  MInv'
<1>1. PICK c : c = call[t] /\ InsertInv(f, c)
  BY DEF MInv
<1>2. InsertInv(g, c)
  BY <1>1 DEF InsertInv
<1>3. AddOf(g, c) = AddOf(f, c) /\ SubOf(g) = 0 /\ SubOf(f) = 0
  BY DEF AddOf, SubOf
<1>4. SubOf(g) <= SubOf(f)
  BY <1>3
<1> QED BY <1>1, <1>2, <1>3, <1>4, ListSame

LEMMA FindStepAccounts ==
  ASSUME CInv, CInv', MInv, NEW t \in Threads, FindStep(t), UNCHANGED ownVars
  PROVE  MInv'
<1>1. PICK f \in Frames : f = frame[t] /\ FrameInv(f) /\ f.pc = "find"
  BY ActorCall DEF FindStep, At
<1>2. PICK g : g = frame'[t]
  OBVIOUS
<1>3. f.after \in SearchLabels
  BY <1>1 DEF FrameInv, FindInv
<1>4. g.new = f.new /\ g.ret = f.ret /\ g.h = f.h /\ g.after = f.after /\ g.pc \in {"find", f.after}
  <2> DEFINE w == Word(f.pred, f.level)
             h == [f EXCEPT !.preds[f.level] = f.pred, !.succs[f.level] = w,
                            !.found = @ \/ node[w.to].key = f.key]
  <2>1. \/ g = [f EXCEPT !.pred = w.to] \/ g = [h EXCEPT !.level = @ - 1]
        \/ g = [h EXCEPT !.pc = f.after, !.pred = 0]
    BY <1>1, <1>2, FrameMoves DEF FindStep, SetFrame, CInv
  <2> QED BY <1>1, <2>1 DEF Frames
<1>5. Inserting(g) <=> Inserting(f)
  BY <1>1, <1>3, <1>4 DEF Inserting, SearchLabels
<1>6. {f.pc, g.pc} \cap {"inserted", "markCount", "decayed"} = {}
  BY <1>1, <1>3, <1>4 DEF SearchLabels
<1>7. ListStep(t) /\ UNCHANGED node
  BY DEF ListStep, FindStep
<1> QED BY <1>1, <1>2, <1>4, <1>5, <1>6, <1>7, SameHands

LEMMA LinkFailsAccounts ==
  ASSUME CInv, CInv', MInv, NEW t \in Threads, LinkBottomFails(t) \/ LinkUpperFails(t), UNCHANGED ownVars
  PROVE  MInv'
<1>1. PICK f \in Frames : f = frame[t] /\ f.pc \in {"insert", "linkUp"}
  BY ActorCall DEF LinkBottomFails, LinkUpperFails, At
<1>2. PICK g : g = frame'[t]
  OBVIOUS
<1> DEFINE e == [f EXCEPT !.h = None]
<1>3. g = Find(e, f.key, "insert") \/ g = Find(f, f.key, "linkUp")
  BY <1>1, <1>2, FrameMoves DEF LinkBottomFails, LinkUpperFails, SetFrame, CInv
<1>4. e \in Frames /\ e.new = f.new /\ e.ret = f.ret /\ e.h = None
  BY DEF Frames
<1> HIDE DEF e
<1>5. g.new = f.new /\ g.ret = f.ret /\ g.h \in {f.h, None} /\ g.after \in {"insert", "linkUp"} /\ g.pc = "find"
  BY <1>3, <1>4, FindShape
<1>6. Inserting(g) /\ Inserting(f)
  BY <1>1, <1>5 DEF Inserting
<1>7. {f.pc, g.pc} \cap {"inserted", "markCount", "decayed"} = {}
  BY <1>1, <1>5
<1>8. ListStep(t) /\ UNCHANGED node
  BY DEF ListStep, LinkBottomFails, LinkUpperFails
<1> QED BY <1>1, <1>2, <1>5, <1>6, <1>7, <1>8, SameHands

LEMMA CountingHands ==
  ASSUME NEW f, NEW n
  PROVE  /\ Counting(f, n).pc = "count" /\ Counting(f, n).ret = f.ret /\ Counting(f, n).new = n
         /\ Counting(f, n).h = None
BY DEF Counting, Idle

LEMMA LinkUpperAccounts ==
  ASSUME CInv, CInv', MInv, NEW t \in Threads, LinkUpper(t), UNCHANGED ownVars
  PROVE  MInv'
<1>1. PICK f \in Frames : f = frame[t] /\ f.pc = "linkUp"
  BY ActorCall DEF LinkUpper, At
<1>2. PICK g : g = frame'[t]
  OBVIOUS
<1>3. g = Counting(f, f.new) \/ g = [f EXCEPT !.up = @ + 1]
  BY <1>1, <1>2, FrameMoves DEF LinkUpper, SetFrame, CInv
<1>4. g.new = f.new /\ g.ret = f.ret /\ g.h \in {f.h, None} /\ g.pc \in {"count", "linkUp"}
  BY <1>1, <1>3, CountingHands DEF Frames
<1>5. Inserting(g) /\ Inserting(f)
  BY <1>1, <1>4 DEF Inserting
<1>6. {f.pc, g.pc} \cap {"inserted", "markCount", "decayed"} = {}
  BY <1>1, <1>4
<1>7. ListStep(t) /\ \E n, i, w : SetWord(n, i, w)
  BY DEF ListStep, LinkUpper
<1>8. \A n \in Nodes : node'[n].list = node[n].list /\ node'[n].handle = node[n].handle
  BY <1>7, WordFields
<1> QED BY <1>1, <1>2, <1>4, <1>5, <1>6, <1>7, <1>8, SameHands

\* An Insert of a list that returns: h is what it has replaced.
LEMMA InsertReturns ==
  ASSUME NEW f, f.ret = "inserted", NEW h, NEW c, Exact(c)
  PROVE  /\ AddOf(Done(f, 0, h), c) = c.charge /\ SubOf(Done(f, 0, h)) = Charge(h)
         /\ InsertInv(Done(f, 0, h), c)
<1> DEFINE g == [Idle EXCEPT !.pc = f.ret, !.list = f.list, !.n = 0, !.h = h]
<1>1. Done(f, 0, h) = g
  BY DEF Done
<1>2. g.pc = "inserted" /\ g.ret = "idle" /\ g.h = h
  BY DEF Idle
<1> HIDE DEF g
<1> QED BY <1>1, <1>2 DEF AddOf, SubOf, InsertInv, Inserting, Exact

LEMMA InsertCountAccounts ==
  ASSUME CInv, CInv', MInv, NEW t \in Threads, InsertCount(t), UNCHANGED ownVars
  PROVE  MInv'
<1>1. PICK f \in Frames, c \in CallRecords : f = frame[t] /\ c = call[t] /\ f.pc = "count" /\ FrameInv(f)
  BY ActorCall DEF InsertCount, At
<1>2. InsertInv(f, c) /\ f.new # 0
  BY <1>1 DEF MInv, FrameInv, NewInv, IsLinking
<1>3. f.ret = "inserted" /\ Exact(c)
  BY <1>1, <1>2 DEF InsertInv, Inserting, Exact
<1>4. PICK g : g = frame'[t]
  OBVIOUS
<1>5. g = Done(f, 0, None)
  BY <1>1, <1>4, FrameMoves DEF InsertCount, SetFrame, CInv
<1>6. AddOf(g, c) = c.charge /\ SubOf(g) = 0 /\ InsertInv(g, c)
  BY <1>3, <1>5, InsertReturns DEF Charge
<1>7. AddOf(f, c) = c.charge /\ SubOf(f) = 0
  BY <1>1, <1>2 DEF AddOf, SubOf
<1>8. ListStep(t) /\ UNCHANGED node
  BY DEF ListStep, InsertCount
<1>9. SubOf(g) <= SubOf(f) /\ AddOf(g, c) = AddOf(f, c)
  BY <1>6, <1>7
<1> QED BY <1>1, <1>4, <1>6, <1>8, <1>9, ListSame

LEMMA InsertHands ==
  ASSUME CInv, MInv, NEW t \in Threads, At(t, "insert")
  PROVE  \E f \in Frames, c \in CallRecords :
           /\ f = frame[t] /\ c = call[t] /\ f.pc = "insert" /\ FrameInv(f) /\ f.ret = "inserted" /\ Exact(c)
           /\ f.new = 0 /\ f.list \in Lists /\ Charge(f.h) \in Nat /\ Charge(f.h) <= c.charge
           /\ c.charge \in Nat /\ AddOf(f, c) = 0 /\ SubOf(f) = 0
<1>1. PICK f \in Frames, c \in CallRecords : f = frame[t] /\ c = call[t] /\ f.pc = "insert" /\ FrameInv(f)
  BY ActorCall DEF At
<1>2. f.new = 0 /\ f.list \in Lists
  BY <1>1 DEF FrameInv, NewInv, IsLinking, FindInv, SearchLabels
<1>3. InsertInv(f, c)
  BY <1>1 DEF MInv
<1>4. f.ret = "inserted" /\ Exact(c) /\ f.h \in {c.h, None}
  BY <1>1, <1>2, <1>3 DEF InsertInv, Inserting, Exact
<1>5. c.charge \in Nat /\ Charge(f.h) \in Nat
  BY ChargeType DEF CallRecords, Frames
<1>6. Charge(None) = 0
  BY DEF Charge
<1>7. Charge(f.h) <= c.charge
  BY <1>4, <1>5, <1>6 DEF Exact
<1>8. AddOf(f, c) = 0 /\ SubOf(f) = 0
  BY <1>1, <1>2 DEF AddOf, SubOf
<1> QED BY <1>1, <1>2, <1>4, <1>5, <1>7, <1>8

LEMMA UpdateHandleAccounts ==
  ASSUME CInv, CInv', MInv, NEW t \in Threads, UpdateHandle(t), UNCHANGED ownVars
  PROVE  MInv'
<1>1. PICK f \in Frames, c \in CallRecords :
        /\ f = frame[t] /\ c = call[t] /\ f.pc = "insert" /\ FrameInv(f) /\ f.ret = "inserted" /\ Exact(c)
        /\ f.list \in Lists /\ Charge(f.h) \in Nat /\ Charge(f.h) <= c.charge
        /\ c.charge \in Nat /\ AddOf(f, c) = 0 /\ SubOf(f) = 0
  BY InsertHands DEF UpdateHandle
<1>2. PICK n \in Nodes : n = f.succs[0].to /\ node[n].list = f.list
  BY <1>1 DEF UpdateHandle, FrameInv, FindInv, SearchLabels, Linked
<1>3. node \in [AllNodes -> NodeRecords] /\ Nodes \subseteq AllNodes
  BY Numbers DEF CInv, LInv, StateType
<1>4. PICK x \in Nat : x = Charge(node[n].handle)
  BY <1>3, ChargeType DEF NodeRecords
<1>5. PICK g : g = frame'[t]
  OBVIOUS
<1>6. g = Done(f, 0, node[n].handle)
  BY <1>1, <1>2, <1>5, FrameMoves DEF UpdateHandle, SetFrame, CInv
<1>7. AddOf(g, c) = c.charge /\ SubOf(g) = x /\ InsertInv(g, c)
  BY <1>1, <1>4, <1>6, InsertReturns
<1>8. node' = [node EXCEPT ![n].handle = f.h]
  BY <1>1, <1>2 DEF UpdateHandle
<1>9. PICK e \in Int : e = Charge(f.h) - x
  BY <1>1
<1>10. Original => HeldTotal \in Nat /\ HeldTotal' = HeldTotal + e
  <2> SUFFICES ASSUME Original PROVE HeldTotal \in Nat /\ HeldTotal' = HeldTotal + e
    OBVIOUS
  <2>1. node[n].list \in 1 .. BucketNum
    BY <1>1, <1>2, OriginalList
  <2>2. node'[n].list = node[n].list /\ node'[n].handle = f.h
    BY <1>2, <1>3, <1>8 DEF NodeRecords
  <2>3. Held(n) = x
    BY <1>4, <2>1 DEF Held
  <2>4. Held(n)' = Charge(f.h)
    BY <2>1, <2>2 DEF Held, Charge
  <2>5. \A m \in Nodes : m # n => Held(m)' = Held(m)
    BY <1>3, <1>8, HeldNode
  <2>6. HeldTotal \in Nat /\ HeldTotal' = HeldTotal + Held(n)' - Held(n)
    BY <2>5, HeldChange
  <2> QED BY <1>1, <1>9, <2>3, <2>4, <2>6
<1>11. ListStep(t)
  BY DEF ListStep
<1>12. AddOf(g, c) + SubOf(f) >= AddOf(f, c) + SubOf(g) + e
  BY <1>1, <1>7, <1>9
<1> QED BY <1>1, <1>5, <1>7, <1>10, <1>11, <1>12, ListBalance

LEMMA LinkBottomAccounts ==
  ASSUME CInv, CInv', MInv, NEW t \in Threads, LinkBottom(t), UNCHANGED ownVars
  PROVE  MInv'
<1>1. PICK f \in Frames, c \in CallRecords :
        /\ f = frame[t] /\ c = call[t] /\ f.pc = "insert" /\ FrameInv(f) /\ f.ret = "inserted" /\ Exact(c)
        /\ f.list \in Lists /\ Charge(f.h) \in Nat /\ Charge(f.h) <= c.charge
        /\ c.charge \in Nat /\ AddOf(f, c) = 0 /\ SubOf(f) = 0
  BY InsertHands DEF LinkBottom
<1>11. PICK q \in Frames, new \in Nodes, top \in Levels :
         /\ q = frame[t] /\ q.pc = "insert" /\ FrameInv(q) /\ LinksBehind(q, new, top)
         /\ frame' = [frame EXCEPT ![t] =
              IF top = 0 THEN Counting(q, new)
              ELSE [q EXCEPT !.new = new, !.top = top, !.up = 1, !.h = None, !.pc = "linkUp"]]
         /\ node' \in [AllNodes -> NodeRecords]
         /\ node'[new].handle = q.h
         /\ \A m \in AllNodes : m # new => /\ node'[m].handle = node[m].handle
                                           /\ m # q.preds[0] => node'[m] = node[m]
  <2>1. LInv
    BY DEF CInv
  <2> QED BY <2>1, LinkBottomEffect
<1>2. /\ LinksBehind(f, new, top)
      /\ frame' = [frame EXCEPT ![t] =
           IF top = 0 THEN Counting(f, new)
           ELSE [f EXCEPT !.new = new, !.top = top, !.up = 1, !.h = None, !.pc = "linkUp"]]
      /\ node'[new].handle = f.h
      /\ \A m \in AllNodes : m # new => node'[m].handle = node[m].handle
  <2>1. q = f
    BY <1>1, <1>11
  <2>2. \A m \in AllNodes : m # new => node'[m].handle = node[m].handle
    BY <1>11, Zenon
  <2> QED BY <1>11, <2>1, <2>2, Zenon
<1>3. /\ node[new].list = 0 /\ node'[new].list = f.list
      /\ \A m \in AllNodes : m # new => node'[m].list = node[m].list
  BY <1>2 DEF LinksBehind
<1>4. Nodes \subseteq AllNodes /\ new # 0
  BY Numbers
<1>5. PICK g : g = frame'[t]
  OBVIOUS
<1>6. g.pc \in {"count", "linkUp"} /\ g.ret = f.ret /\ g.new = new
  <2>1. \/ g = Counting(f, new)
        \/ g = [f EXCEPT !.new = new, !.top = top, !.up = 1, !.h = None, !.pc = "linkUp"]
    BY <1>2, <1>5, FrameMoves DEF CInv
  <2>2. CASE g = Counting(f, new)
    BY <2>2, CountingHands
  <2>3. CASE g = [f EXCEPT !.new = new, !.top = top, !.up = 1, !.h = None, !.pc = "linkUp"]
    BY <2>3 DEF Frames
  <2> QED BY <2>1, <2>2, <2>3
<1>7. AddOf(g, c) = c.charge /\ SubOf(g) = 0 /\ InsertInv(g, c)
  BY <1>1, <1>4, <1>6 DEF AddOf, SubOf, InsertInv, Inserting, Exact
<1>8. Original => HeldTotal \in Nat /\ HeldTotal' = HeldTotal + Charge(f.h)
  <2> SUFFICES ASSUME Original PROVE HeldTotal \in Nat /\ HeldTotal' = HeldTotal + Charge(f.h)
    OBVIOUS
  <2>1. f.list \in 1 .. BucketNum
    BY <1>1, OriginalList
  <2>2. Held(new) = 0
    BY <1>3, Parties DEF Held
  <2>3. Held(new)' = Charge(f.h)
    BY <1>2, <1>3, <2>1 DEF Held, Charge
  <2>4. \A m \in Nodes : m # new => Held(m)' = Held(m)
    BY <1>2, <1>3, <1>4, HeldNode
  <2>5. HeldTotal \in Nat /\ HeldTotal' = HeldTotal + Held(new)' - Held(new)
    BY <2>4, HeldChange
  <2> QED BY <1>1, <2>2, <2>3, <2>5
<1>9. ListStep(t)
  BY DEF ListStep
<1>10. AddOf(g, c) + SubOf(f) >= AddOf(f, c) + SubOf(g) + Charge(f.h) /\ Charge(f.h) \in Int
  BY <1>1, <1>7
<1> QED BY <1>1, <1>5, <1>7, <1>8, <1>9, <1>10, ListBalance

LEMMA ListStepAccounts ==
  ASSUME CInv, CInv', MInv, NEW t \in Threads, ListStep(t), UNCHANGED ownVars
  PROVE  MInv'
BY FindStepAccounts, GetNodeAccounts, ReadAccounts, GetHitAccounts, UpdateHandleAccounts, LinkBottomAccounts,
   LinkFailsAccounts, LinkUpperAccounts, InsertCountAccounts, MarkCasAccounts, MarkHandleAccounts,
   MarkCountAccounts, IterateMarkedAccounts DEF ListStep
-----------------------------------------------------------------------------
LEMMA InitMInv == CacheInit => MInv
<1> SUFFICES ASSUME CacheInit PROVE MInv
  OBVIOUS
<1>1. \A t \in Threads : frame[t] = Idle /\ call[t] = NoCall
  BY DEF CacheInit, ListInit
<1>2. Idle.new = 0 /\ Calm(Idle) /\ NoCall.charge = Charge(NoCall.h)
  BY IdleCalm, NoCallExact DEF Idle, Exact
<1>3. \A t \in Threads : InsertInv(frame[t], call[t])
  BY <1>1, <1>2, CalmFrame
<1>4. \A t \in Threads : Unadded(t) = 0 /\ Unsubtracted(t) = 0
  BY <1>1 DEF Unadded, Unsubtracted, At, Idle
<1>5. \A n \in Nodes : Held(n) = 0
  <2>1. \A n \in Nodes : node[n].list = 0
    BY EmptyNode DEF CacheInit, ListInit, NewNode
  <2> QED BY <2>1, Parties DEF Held
<1>6. /\ Total([t \in Threads |-> Unadded(t)], Threads) = 0
      /\ Total([t \in Threads |-> Unsubtracted(t)], Threads) = 0
      /\ Total([n \in Nodes |-> Held(n)], Nodes) = 0
  BY <1>4, <1>5, TotalZero
<1>7. memory_used = 0
  BY DEF CacheInit
<1> QED BY <1>3, <1>6, <1>7 DEF MInv, MemoryCovers

\* Steps that change no frame.
LEMMA AsideAccounts ==
  ASSUME CInv, CInv', MInv, UNCHANGED <<node, frame, call, memory_used>>, Original' => Original
  PROVE  MInv'
<1>1. MemoryCovers'
  <2>1. \A n \in Nodes : Held(n)' = Held(n)
    BY HeldNode
  <2>2. HeldTotal' = HeldTotal
    BY <2>1, HeldSame
  <2>3. Covers' <=> Covers
    BY <2>2 DEF Covers, Total, Unadded, Unsubtracted, At, Charge
  <2> QED BY <2>3, CoversMeans, CoversMeansNext DEF MInv
<1>2. \A u \in Threads : InsertInv(frame[u], call[u])'
  BY DEF MInv, InsertInv, Inserting, Charge
<1> QED BY <1>1, <1>2 DEF MInv

LEMMA NextMInv == CInv /\ CInv' /\ MInv /\ [CacheNext]_cacheVars => MInv'
<1> SUFFICES ASSUME CInv, CInv', MInv, [CacheNext]_cacheVars PROVE MInv'
  OBVIOUS
<1>1. CASE UNCHANGED cacheVars \/ Destroy
  <2>1. UNCHANGED <<node, frame, call, memory_used, buckets>>
    BY <1>1 DEF cacheVars, ownVars, listVars, Destroy
  <2>2. Original' => Original
    BY <2>1 DEF Original
  <2> QED BY <2>1, <2>2, AsideAccounts
<1>2. CASE InitBucket
  <2>1. UNCHANGED <<node, frame, call, memory_used>>
    BY <1>2 DEF InitBucket, listVars
  <2>2. PICK b \in Buckets : buckets[b] = 0 /\ buckets' = [buckets EXCEPT ![b] = b + 1]
    BY <1>2 DEF InitBucket
  <2>3. \A a \in Buckets : buckets[a] = 0 \/ buckets[a] = buckets'[a]
    BY <2>2 DEF CInv, OwnType
  <2>4. Original' => Original
    BY <2>3 DEF Original
  <2> QED BY <2>1, <2>4, AsideAccounts
<1>3. CASE \E t \in Clients : Get(t) \/ Insert(t)
  BY <1>3, GetAccounts, InsertAccounts
<1>4. ASSUME NEW t \in Threads, CacheStep(t) PROVE MInv'
  BY <1>4, ListStepAccounts, ClientAccounts, DecayAccounts, CompactAccounts DEF CacheStep
<1> QED BY <1>1, <1>2, <1>3, <1>4 DEF CacheNext

(***************************************************************************)
(* memory_used_ never falls short of what the buckets hold until a bucket  *)
(* is replaced, for any number of clients: however Insert, decay and       *)
(* Evict interleave, what one has taken out of a node or put into it, and  *)
(* not accounted for yet, is in its own hands.                             *)
(***************************************************************************)
THEOREM MemoryAccounted == CacheSpec => []MemoryCovers
<1>1. CInv /\ CInv' /\ MInv /\ [CacheNext]_cacheVars => MInv'
  BY NextMInv
<1>2. MInv => MemoryCovers
  BY DEF MInv
<1> QED BY <1>1, <1>2, InitMInv, CacheInvariance, PTL DEF CacheSpec
-----------------------------------------------------------------------------
(***************************************************************************)
(* What a key has in a list: its node is the only one with the key.        *)
(***************************************************************************)
LEMMA OnlyChoice ==
  ASSUME NEW S, NEW n, S = {n}
  PROVE  (CHOOSE m \in S : TRUE) = n
OBVIOUS

LEMMA NodeOfKey ==
  ASSUME CInv, NEW l \in Lists, NEW n \in Linked(l), NEW k, k = node[n].key
  PROVE  /\ Stored(l, k) = node[n].handle
         /\ Visible(l, k) = IF IsMarked(n) THEN None ELSE node[n].handle
<1>1. WithKey(l, k) = {n}
  BY DEF WithKey, CInv, LInv, Structure, KeysUnique
<1>2. Stored(l, k) = node[n].handle
  BY <1>1, OnlyChoice DEF Stored
<1> QED BY <1>1, <1>2 DEF Visible

LEMMA NodeOfKeyNext ==
  ASSUME CInv', NEW l \in Lists, NEW n \in Linked(l)', NEW k, k = node'[n].key
  PROVE  /\ Stored(l, k)' = node'[n].handle
         /\ Visible(l, k)' = IF IsMarked(n)' THEN None ELSE node'[n].handle
<1>1. WithKey(l, k)' = {n}
  BY DEF WithKey, CInv, LInv, Structure, KeysUnique
<1>2. Stored(l, k)' = node'[n].handle
  BY <1>1, OnlyChoice DEF Stored
<1> QED BY <1>1, <1>2 DEF Visible

LEMMA NoNodeOfKey ==
  ASSUME NEW l, NEW k, \A n \in Linked(l) : node[n].key # k
  PROVE  Visible(l, k) = None
BY DEF Visible, WithKey

LEMMA NoNodeOfKeyNext ==
  ASSUME NEW l, NEW k, \A n \in Linked(l)' : node'[n].key # k
  PROVE  Visible(l, k)' = None
BY DEF Visible, WithKey

\* A list that keeps its nodes, or gains one with another key.
LEMMA SameVisible ==
  ASSUME CInv, CInv', NEW l \in Lists, NEW k, Linked(l) \subseteq Linked(l)',
         \A n \in Linked(l)' : node'[n].key = k => n \in Linked(l),
         \A n \in Linked(l) : /\ node'[n].key = node[n].key /\ node'[n].handle = node[n].handle
                              /\ (IsMarked(n)' <=> IsMarked(n))
  PROVE  Visible(l, k)' = Visible(l, k)
<1>1. CASE \A n \in Linked(l) : node[n].key # k
  <2>1. \A n \in Linked(l)' : node'[n].key # k
    BY <1>1
  <2> QED BY <1>1, <2>1, NoNodeOfKey, NoNodeOfKeyNext
<1>2. ASSUME NEW n \in Linked(l), node[n].key = k PROVE Visible(l, k)' = Visible(l, k)
  <2>1. Visible(l, k) = IF IsMarked(n) THEN None ELSE node[n].handle
    BY <1>2, NodeOfKey
  <2>2. n \in Linked(l)' /\ k = node'[n].key
    BY <1>2
  <2>3. Visible(l, k)' = IF IsMarked(n)' THEN None ELSE node'[n].handle
    BY <2>2, NodeOfKeyNext
  <2>4. node'[n].handle = node[n].handle /\ (IsMarked(n)' <=> IsMarked(n))
    OBVIOUS
  <2> QED BY <2>1, <2>3, <2>4
<1> QED BY <1>1, <1>2

\* What the history variable says of a key it does not have.
LEMMA Unchanged ==
  ASSUME HistoryNext, call[Compactor].new # 0, NEW l, frame[Compactor].list = l, frame'[Compactor].list = l,
         NEW k \in Keys, k \notin changed'
  PROVE  k \notin changed /\ Visible(l, k)' = Visible(l, k) /\ Stored(l, k)' = Stored(l, k)
<1>1. /\ k \notin changed
      /\ Visible(frame[Compactor].list, k)' = Visible(frame[Compactor].list, k)
      /\ Stored(frame[Compactor].list, k)' = Stored(frame[Compactor].list, k)
  BY DEF HistoryNext
<1> QED BY <1>1

\* The copy is as before.
Untouched == \A l \in Unused : /\ Linked(l)' = Linked(l)
                               /\ \A n \in Linked(l) : /\ node'[n].key = node[n].key
                                                       /\ node'[n].handle = node[n].handle
                                                       /\ IsMarked(n)' = IsMarked(n)

\* What the other threads do to the bucket is in the history variable, and
\* they do not know the copy.
LEMMA AsideSwap ==
  ASSUME CInv, CInv', SwapInv, HistoryNext, Grow, Untouched,
         frame'[Compactor] = frame[Compactor], call'[Compactor] = call[Compactor]
  PROVE  SwapInv'
<1>1. PICK f \in Frames, c \in CallRecords : f = frame[Compactor] /\ c = call[Compactor] /\ FrameInv(f)
  BY CompactorCall
<1> SUFFICES ASSUME f.pc \in CopyLabels \cup {"compactSwap"}
             PROVE  /\ \A k \in Keys \ changed' : Past(f, k)' => Visible(c.new, k)' = Visible(f.list, k)'
                    /\ f.pc = "visit" => \A k \in Keys \ changed' :
                         node'[f.n].key = k => Visible(f.list, k)' = node'[f.n].handle
  BY <1>1 DEF SwapInv, Swapping
<1>2. c.new \in Unused /\ c.new \in Lists /\ c.new # 0
  BY <1>1, Parties DEF CInv, CompactorInv
<1>3. /\ \A k \in Keys \ changed : Past(f, k) => Visible(c.new, k) = Visible(f.list, k)
      /\ f.pc = "visit" => \A k \in Keys \ changed : node[f.n].key = k => Visible(f.list, k) = node[f.n].handle
  BY <1>1 DEF SwapInv, Swapping
<1>4. ASSUME NEW k \in Keys, k \notin changed'
      PROVE  /\ k \notin changed /\ Visible(f.list, k)' = Visible(f.list, k)
             /\ Stored(f.list, k)' = Stored(f.list, k)
  BY <1>1, <1>2, <1>4, Unchanged
<1>5. \A k : Visible(c.new, k)' = Visible(c.new, k)
  BY <1>2, SameVisible DEF Untouched
<1>6. Sentinels
  BY DEF CInv, LInv, Structure
<1>7. f.pc = "iterate" => node'[f.pred].key = node[f.pred].key
  BY <1>1, <1>6, GrowSets DEF FrameInv, NodeInv
<1>8. f.pc \in {"iterateMarked", "visit"} =>
        /\ f.list \in Lists /\ f.n \in Linked(f.list) \cup {TailNode(f.list)}
        /\ f.pc = "visit" => f.n \in Linked(f.list)
  BY <1>1 DEF FrameInv, NodeInv, NodeLabels, VisitLabels
<1>9. f.pc \in {"iterateMarked", "visit"} => node'[f.n].key = node[f.n].key
  BY <1>6, <1>8, GrowSets
<1>10. \A k : Past(f, k)' => Past(f, k)
  BY <1>7, <1>9 DEF Past
<1>11. ASSUME f.pc = "visit", NEW k \in Keys, k \notin changed', node'[f.n].key = k
       PROVE  Visible(f.list, k)' = node'[f.n].handle
  <2>1. node[f.n].key = k
    BY <1>9, <1>11
  <2>2. f.list \in Lists /\ f.n \in Linked(f.list) /\ f.n \in Linked(f.list)'
    BY <1>6, <1>8, <1>11, GrowSets
  <2>3. Stored(f.list, k) = node[f.n].handle
    BY <2>1, <2>2, NodeOfKey
  <2>4. Stored(f.list, k)' = node'[f.n].handle
    BY <1>11, <2>2, NodeOfKeyNext
  <2> QED BY <1>3, <1>4, <1>11, <2>1, <2>3, <2>4
<1> QED BY <1>3, <1>4, <1>5, <1>10, <1>11

LEMMA SameUntouched == node' = node => Untouched /\ Grow
BY UnchangedQuiet, QuietGrows DEF Untouched, Linked, IsMarked, Word

LEMMA ListStepSwap ==
  ASSUME CInv, CInv', SwapInv, HistoryNext, NEW t \in Threads \ {Compactor}, ListStep(t), UNCHANGED ownVars
  PROVE  SwapInv'
<1>1. Untouched
  <2> SUFFICES ASSUME NEW l \in Unused
               PROVE  Linked(l)' = Linked(l) /\ \A n \in Linked(l) : node'[n] = node[n] /\ IsMarked(n)' = IsMarked(n)
    BY DEF Untouched
  <2>1. l \in Lists /\ l # frame[t].list
    BY Parties DEF CInv, Apart
  <2>2. Linked(l)' = Linked(l) /\ \A n \in Linked(l) : node'[n] = node[n]
    BY <2>1, OtherLists DEF CInv
  <2> QED BY <2>2 DEF IsMarked, Word
<1>2. Grow
  BY ListStepEffect
<1>3. frame'[Compactor] = frame[Compactor] /\ call'[Compactor] = call[Compactor]
  <2>1. MovesFrame(t) /\ MovesCall(t)
    BY ListStepFrame DEF MovesFrame, MovesCall, SetFrame, ownVars
  <2> QED BY <2>1, MovesAlone, Parties DEF Alone
<1> QED BY <1>1, <1>2, <1>3, AsideSwap

LEMMA ClientSwap ==
  ASSUME CInv, CInv', SwapInv, HistoryNext, NEW t \in Clients, Get(t) \/ Insert(t) \/ Client(t)
  PROVE  SwapInv'
<1>1. node' = node
  BY DEF Get, Insert, Client, InsertCheck, Inserted, EvictSize, EvictPop, EvictGen, EvictLoad, EvictNode, Evicted
<1>2. t \in Threads /\ t # Compactor /\ Compactor \in Threads
  BY Parties
<1>3. frame'[Compactor] = frame[Compactor] /\ call'[Compactor] = call[Compactor]
  BY <1>2, ClientAlone DEF Alone
<1> QED BY <1>1, <1>3, SameUntouched, AsideSwap

LEMMA DecaySwap ==
  ASSUME CInv, CInv', SwapInv, HistoryNext, Decay(Decayer)
  PROVE  SwapInv'
<1>1. frame'[Compactor] = frame[Compactor] /\ call'[Compactor] = call[Compactor]
  BY Parties, DecayAlone DEF Alone
<1>2. CASE DecayVisit(Decayer)
  <2>1. PICK f \in Frames : f = frame[Decayer] /\ FrameInv(f) /\ f.pc = "visit"
    BY <1>2, ActorCall, Parties DEF DecayVisit, At
  <2>2. PICK hit : node' = [node EXCEPT ![f.n].hit = hit]
    BY <1>2, <2>1 DEF DecayVisit
  <2>3. node \in [AllNodes -> NodeRecords] /\ Nodes \subseteq AllNodes
    BY Numbers DEF CInv, LInv, StateType
  <2>4. ASSUME NEW m \in AllNodes
        PROVE  /\ node'[m].list = node[m].list /\ node'[m].key = node[m].key
               /\ node'[m].handle = node[m].handle /\ node'[m].nexts = node[m].nexts
    BY <2>2, <2>3 DEF NodeRecords
  <2>5. Grow
    BY <2>4 DEF Grow, Word
  <2>6. Untouched
    BY <2>3, <2>4 DEF Untouched, Linked, IsMarked, Word
  <2> QED BY <1>1, <2>5, <2>6, AsideSwap
<1>3. CASE ~DecayVisit(Decayer)
  <2>1. node' = node
    BY <1>3 DEF Decay, DecayCheck, DecayLoad, DecayGen, DecayPush, DecayPublish, Decayed, DecayEnd
  <2> QED BY <1>1, <2>1, SameUntouched, AsideSwap
<1> QED BY <1>2, <1>3

LEMMA SameNodesVisible ==
  ASSUME node' = node, NEW l, NEW k
  PROVE  Visible(l, k)' = Visible(l, k)
BY DEF Visible, Stored, WithKey, Linked, IsMarked, Word

\* The iteration meets every key of the bucket: there is none between a node
\* and the one behind it.
LEMMA IterateSwap ==
  ASSUME CInv, CInv', SwapInv, HistoryNext, ListStep(Compactor), UNCHANGED ownVars
  PROVE  SwapInv'
<1>1. PICK f \in Frames, c \in CallRecords : f = frame[Compactor] /\ c = call[Compactor] /\ FrameInv(f)
  BY CompactorCall
<1>2. PICK g : g = frame'[Compactor]
  OBVIOUS
<1>3. /\ node' = node
      /\ \/ f.pc = "iterate" /\ g = [f EXCEPT !.n = Word(f.pred, 0).to, !.pc = "iterateMarked"]
         \/ f.pc = "iterateMarked" /\ IsMarked(f.n) /\ g = IterateOn(f)
         \/ f.pc = "iterateMarked" /\ ~IsMarked(f.n) /\ f.n = TailNode(f.list)
            /\ g = IF f.after = "idle" THEN Idle ELSE [Idle EXCEPT !.pc = f.after, !.list = f.list]
         \/ f.pc = "iterateMarked" /\ ~IsMarked(f.n) /\ f.n # TailNode(f.list) /\ g = [f EXCEPT !.pc = "visit"]
  BY <1>1, <1>2, CompactorIterates, FrameMoves, Parties DEF CInv, IterateRead, IterateMarked, SetFrame, At
<1>4. f.pc \in CopyLabels /\ f.after = "compactSwap" /\ c.new \in Unused /\ c.new \in Lists /\ c.new # 0
  BY <1>1, <1>3, Parties DEF CInv, CompactorInv, CopyLabels
<1>5. \A k \in Keys \ changed : Past(f, k) => Visible(c.new, k) = Visible(f.list, k)
  BY <1>1, <1>4 DEF SwapInv, Swapping
<1>6. ASSUME NEW n \in Linked(c.new)
      PROVE  /\ node[n].key \in Int
             /\ f.pc = "iterate" => node[n].key <= node[f.pred].key
             /\ f.pc = "iterateMarked" => node[n].key < node[f.n].key
  BY <1>1, <1>4, ListKeys DEF CInv, Copied
<1>7. \A k \in Keys : k \in Int
  BY DEF Keys
<1>8. g.list = f.list
  <2>1. CASE g = IterateOn(f)
    BY <2>1, IterateOnShape
  <2>2. CASE g = IF f.after = "idle" THEN Idle ELSE [Idle EXCEPT !.pc = f.after, !.list = f.list]
    BY <1>4, <2>2 DEF Idle
  <2>3. CASE g = [f EXCEPT !.n = Word(f.pred, 0).to, !.pc = "iterateMarked"] \/ g = [f EXCEPT !.pc = "visit"]
    BY <2>3 DEF Frames
  <2> QED BY <1>3, <2>1, <2>2, <2>3
<1>9. f.list \in Lists
  BY <1>1, <1>3 DEF FrameInv, NodeInv, NodeLabels
<1>10. /\ \A k \in Keys \ changed : Past(g, k) => Visible(c.new, k) = Visible(f.list, k)
       /\ g.pc = "visit" => \A k \in Keys \ changed : node[g.n].key = k => Visible(f.list, k) = node[g.n].handle
  <2>1. CASE f.pc = "iterate" /\ g = [f EXCEPT !.n = Word(f.pred, 0).to, !.pc = "iterateMarked"]
    <3>1. g.pc = "iterateMarked" /\ g.n = Word(f.pred, 0).to
      BY <2>1 DEF Frames
    <3>2. f.pred \in Linked(f.list) \cup {HeadNode(f.list)}
      BY <1>1, <2>1 DEF FrameInv, NodeInv
    <3>3. node[f.pred].key \in Int /\ \A m \in Linked(f.list) : node[m].key \in Int
      BY <1>9, <3>2, ListKeys DEF CInv
    <3>4. node[g.n].key \in Int
      BY <1>9, <3>1, <3>2, BottomLink, ListKeys, ListAssumption DEF CInv, LInv
    <3>5. ASSUME NEW k \in Keys, k \notin changed, k < node[g.n].key, ~(k <= node[f.pred].key)
          PROVE  Visible(c.new, k) = Visible(f.list, k)
      <4>1. \A m \in Linked(c.new) : node[m].key # k
        BY <1>6, <1>7, <2>1, <3>3, <3>5
      <4>2. \A m \in Linked(f.list) : node[f.pred].key < node[m].key => node[g.n].key <= node[m].key
        BY <1>9, <3>1, <3>2 DEF CInv, LInv, Structure, Gapless
      <4>3. \A m \in Linked(f.list) : node[m].key # k
        BY <1>7, <3>3, <3>4, <3>5, <4>2
      <4> QED BY <4>1, <4>3, NoNodeOfKey
    <3> QED BY <1>5, <2>1, <3>1, <3>5 DEF Past
  <2>2. CASE f.pc = "iterateMarked" /\ IsMarked(f.n) /\ g = IterateOn(f)
    <3>1. g.pc = "iterate" /\ g.pred = f.n
      BY <2>2, IterateOnShape
    <3>2. f.n \in Linked(f.list)
      BY <1>1, <1>9, <2>2, ListKeys DEF FrameInv, NodeInv, NodeLabels, CInv
    <3>3. ASSUME NEW k \in Keys, k = node[f.n].key PROVE Visible(c.new, k) = Visible(f.list, k)
      <4>1. \A m \in Linked(c.new) : node[m].key # k
        BY <1>6, <1>7, <2>2, <3>3
      <4>2. Visible(f.list, k) = None
        BY <1>9, <2>2, <3>2, <3>3, NodeOfKey
      <4> QED BY <4>1, <4>2, NoNodeOfKey
    <3>4. node[f.n].key \in Int
      BY <1>9, <3>2, ListKeys DEF CInv
    <3>5. ASSUME NEW k \in Keys, k \notin changed, k <= node[f.n].key PROVE Visible(c.new, k) = Visible(f.list, k)
      <4>1. k = node[f.n].key \/ k < node[f.n].key
        BY <1>7, <3>4, <3>5
      <4> QED BY <1>5, <2>2, <3>3, <3>5, <4>1 DEF Past
    <3> QED BY <3>1, <3>5 DEF Past
  <2>3. CASE /\ f.pc = "iterateMarked" /\ f.n = TailNode(f.list)
             /\ g = IF f.after = "idle" THEN Idle ELSE [Idle EXCEPT !.pc = f.after, !.list = f.list]
    <3>1. g.pc = "compactSwap"
      BY <1>4, <2>3 DEF Idle
    <3>2. \A k \in Keys : k < node[f.n].key
      BY <1>9, <2>3, ListKeys, ListAssumption DEF Keys, CInv
    <3> QED BY <1>5, <2>3, <3>1, <3>2 DEF Past
  <2>4. CASE f.pc = "iterateMarked" /\ ~IsMarked(f.n) /\ f.n # TailNode(f.list) /\ g = [f EXCEPT !.pc = "visit"]
    <3>1. g.pc = "visit" /\ g.n = f.n
      BY <2>4 DEF Frames
    <3>2. f.n \in Linked(f.list)
      BY <1>1, <2>4 DEF FrameInv, NodeInv, NodeLabels
    <3>3. \A k \in Keys \ changed : node[g.n].key = k => Visible(f.list, k) = node[g.n].handle
      BY <1>9, <2>4, <3>1, <3>2, NodeOfKey
    <3>4. \A k : Past(g, k) => Past(f, k)
      BY <2>4, <3>1 DEF Past
    <3> QED BY <1>5, <3>3, <3>4
  <2> QED BY <1>3, <2>1, <2>2, <2>3, <2>4
<1>11. ASSUME NEW k \in Keys, k \notin changed' PROVE k \notin changed
  BY <1>1, <1>2, <1>4, <1>8, <1>11, Unchanged
<1>12. \A l, k : Visible(l, k)' = Visible(l, k)
  BY <1>3, SameNodesVisible
<1>13. \A k : Past(g, k)' => Past(g, k)
  BY <1>3 DEF Past
<1>14. call'[Compactor] = c
  BY <1>1 DEF ownVars
<1>15. /\ \A k \in Keys \ changed' : Past(g, k)' => Visible(c.new, k)' = Visible(g.list, k)'
       /\ g.pc = "visit" => \A k \in Keys \ changed' : node'[g.n].key = k => Visible(g.list, k)' = node'[g.n].handle
  BY <1>3, <1>8, <1>10, <1>11, <1>12, <1>13
<1> QED BY <1>2, <1>14, <1>15 DEF SwapInv, Swapping

\* A node that is copied: the copy has what the bucket has for its key.
LEMMA CopySwap ==
  ASSUME CInv, CInv', NEW l \in Lists, NEW k, Room(l, k), NEW h \in Handles \cup {None}, AppendNode(l, k, h),
         \A m \in Linked(l) : ~IsMarked(m) /\ m \in AllNodes
  PROVE  /\ Grow /\ Visible(l, k)' = h
         /\ \A j \in Int : j < k => Visible(l, j)' = Visible(l, j)
<1>1. k \in 0 .. MaxKey - 1
  BY DEF Room
<1>2. PICK x \in Nodes, top \in Levels : Appends(l, k, x, top) /\ node'[x].handle = h
  BY <1>1, AppendEffect DEF CInv
<1>3. /\ Grow /\ Linked(l)' = Linked(l) \cup {x}
      /\ \A m \in Linked(l) : m # x /\ m \in AllNodes /\ node'[m].key = node[m].key
  <2>1. Appended(l, x, top)
    BY <1>2, AppendSets DEF CInv
  <2> QED BY <2>1, Zenon DEF Appended
<1>4. 0 \in Levels
  BY Numbers
<1>5. node'[x].key = k /\ ~IsMarked(x)'
  BY <1>2, <1>4 DEF Appends, IsMarked
<1>6. Visible(l, k)' = h
  BY <1>2, <1>3, <1>5, NodeOfKeyNext
<1>7. ASSUME NEW m \in Linked(l)
      PROVE  node'[m].handle = node[m].handle /\ (IsMarked(m)' <=> IsMarked(m))
  <2>1. m # x /\ m \in AllNodes /\ ~IsMarked(m)
    BY <1>3
  <2>2. ~LinkWord(Word(m, 0), x).mark
    BY DEF LinkWord, PackPtr
  <2>3. ~IsMarked(m)'
    BY <1>2, <1>4, <2>1, <2>2 DEF Appends, IsMarked
  <2> QED BY <1>2, <2>1, <2>3 DEF Appends
<1>8. ASSUME NEW j \in Int, j < k PROVE Visible(l, j)' = Visible(l, j)
  <2>1. \A m \in Linked(l)' : node'[m].key = j => m \in Linked(l)
    BY <1>1, <1>3, <1>5, <1>8
  <2> QED BY <1>3, <1>7, <2>1, SameVisible
<1> QED BY <1>3, <1>6, <1>8

LEMMA CompactVisitSwap ==
  ASSUME CInv, CInv', SwapInv, HistoryNext, CompactVisit(Compactor)
  PROVE  SwapInv'
<1>1. PICK f \in Frames, n \in Linked(frame[Compactor].list), new \in Unused :
        /\ f = frame[Compactor] /\ f.pc = "visit" /\ f.n = n /\ f.list \in Lists
        /\ new = call[Compactor].new /\ new \in Lists
        /\ Room(new, node[n].key) /\ node[n].handle \in Handles \cup {None}
        /\ \A m \in Linked(new) : ~IsMarked(m) /\ m \in AllNodes
  BY CopyFrame
<1>2. PICK g : g = IterateOn(f) /\ g = frame'[Compactor]
  BY <1>1, FrameMoves, Parties DEF CompactVisit, SetFrame, CInv
<1>3. g.pc = "iterate" /\ g.pred = n /\ g.list = f.list
  BY <1>1, <1>2, IterateOnShape
<1>4. call'[Compactor] = call[Compactor] /\ new # 0
  BY Parties DEF CompactVisit, ownVars
<1>5. PICK k \in Int : k = node[n].key
  BY <1>1 DEF Room
<1>6. /\ \A j \in Keys \ changed : j < k => Visible(new, j) = Visible(f.list, j)
      /\ k \in Keys \ changed => Visible(f.list, k) = node[n].handle
  BY <1>1, <1>5 DEF SwapInv, Swapping, Past, CopyLabels
<1>7. /\ Grow /\ Visible(new, k)' = node[n].handle
      /\ \A j \in Int : j < k => Visible(new, j)' = Visible(new, j)
  <2>1. CASE node[n].handle = None /\ UNCHANGED node
    <3>1. \A m \in Linked(new) : node[m].key # k
      BY <1>1, <1>5, ListKeys DEF Room, CInv
    <3>2. Visible(new, k) = None
      BY <3>1, NoNodeOfKey
    <3> QED BY <2>1, <3>2, SameUntouched, SameNodesVisible
  <2>2. CASE AppendNode(new, node[n].key, node[n].handle)
    BY <1>1, <1>5, <2>2, CopySwap
  <2> QED BY <1>1, <2>1, <2>2 DEF CompactVisit
<1>8. node'[n].key = k
  BY <1>1, <1>5, <1>7, GrowSets DEF CInv, LInv, Structure
<1>9. ASSUME NEW j \in Keys, j \notin changed', j <= k
      PROVE  Visible(new, j)' = Visible(f.list, j)'
  <2>1. j \notin changed /\ Visible(f.list, j)' = Visible(f.list, j)
    BY <1>1, <1>2, <1>3, <1>4, <1>9, Unchanged
  <2>2. j \in Int /\ (j < k \/ j = k)
    BY <1>9 DEF Keys
  <2> QED BY <1>6, <1>7, <1>9, <2>1, <2>2
<1>10. /\ \A j \in Keys \ changed' : Past(g, j)' => Visible(new, j)' = Visible(g.list, j)'
       /\ g.pc # "visit"
  BY <1>3, <1>8, <1>9 DEF Past
<1> QED BY <1>1, <1>2, <1>4, <1>10 DEF SwapInv, Swapping

\* Where nothing is copied, or the copying begins in front of all keys.
LEMMA CompactRestSwap ==
  ASSUME CInv, CInv', CompactCheck(Compactor) \/ CompactMarked(Compactor) \/ CompactSwap(Compactor)
                        \/ CompactGen(Compactor)
  PROVE  SwapInv'
<1>1. PICK f \in Frames : f = frame[Compactor]
  BY CompactorCall
<1>2. PICK g : g = frame'[Compactor]
  OBVIOUS
<1>3. \/ UNCHANGED frame /\ f.pc = "idle"
      \/ SetFrame(Compactor, Idle)
      \/ \E a \in {"exited", "compactNodes", "compactGen"} : Goto(Compactor, a)
      \/ \E l : SetFrame(Compactor, [On(l) EXCEPT !.pc = "compactMarked"])
  BY <1>1 DEF CompactCheck, CompactMarked, CompactSwap, CompactGen, At
<1>4. g.pc \in RestLabels \cup {"compactGen"}
  <2>1. CASE UNCHANGED frame /\ f.pc = "idle"
    BY <1>1, <1>2, <2>1 DEF RestLabels
  <2>2. CASE SetFrame(Compactor, Idle)
    <3>1. g = Idle
      BY <1>2, <2>2, FrameMoves, Parties DEF SetFrame, CInv
    <3> QED BY <3>1 DEF Idle, RestLabels
  <2>3. ASSUME NEW a \in {"exited", "compactNodes", "compactGen"}, Goto(Compactor, a)
        PROVE  g.pc \in RestLabels \cup {"compactGen"}
    <3>1. g = [f EXCEPT !.pc = a]
      BY <1>1, <1>2, <2>3, FrameMoves, Parties DEF SetFrame, Goto, CInv
    <3> QED BY <3>1 DEF Frames, RestLabels
  <2>4. ASSUME NEW l, SetFrame(Compactor, [On(l) EXCEPT !.pc = "compactMarked"])
        PROVE  g.pc \in RestLabels \cup {"compactGen"}
    <3>1. g = [On(l) EXCEPT !.pc = "compactMarked"]
      BY <1>2, <2>4, FrameMoves, Parties DEF SetFrame, CInv
    <3> QED BY <3>1 DEF On, Idle, RestLabels
  <2> QED BY <1>3, <2>1, <2>2, <2>3, <2>4
<1> QED BY <1>2, <1>4 DEF SwapInv, Swapping, CopyLabels, RestLabels

LEMMA CompactNodesSwap ==
  ASSUME CInv, CInv', CompactNodes(Compactor)
  PROVE  SwapInv'
<1>1. PICK f \in Frames : f = frame[Compactor] /\ f.pc = "compactNodes" /\ f.list \in Lists
  BY CompactorCall DEF CompactNodes, At, CallInv
<1>2. PICK g : g = frame'[Compactor]
  OBVIOUS
<1>3. CASE SetFrame(Compactor, Idle)
  <2>1. g = Idle
    BY <1>2, <1>3, FrameMoves, Parties DEF SetFrame, CInv
  <2> QED BY <1>2, <2>1 DEF SwapInv, Swapping, CopyLabels, Idle
<1>4. CASE SetFrame(Compactor, IterateLevel(f, "compactSwap"))
  <2>1. g = IterateLevel(f, "compactSwap")
    BY <1>2, <1>4, FrameMoves, Parties DEF SetFrame, CInv
  <2>2. g.pc = "iterate" /\ g.pred = HeadNode(f.list)
    BY <2>1 DEF IterateLevel, Frames
  <2>3. node'[g.pred].key = -1
    BY <1>1, <2>2, ListKeys DEF CInv, CompactNodes
  <2>4. \A k \in Keys : ~Past(g, k)'
    BY <2>2, <2>3 DEF Past, Keys
  <2> QED BY <1>2, <2>2, <2>4 DEF SwapInv, Swapping
<1> QED BY <1>1, <1>3, <1>4 DEF CompactNodes

LEMMA NextSwapInv ==
  CInv /\ CInv' /\ SwapInv /\ [HistoryNext]_<<cacheVars, changed>> => SwapInv'
<1> SUFFICES ASSUME CInv, CInv', SwapInv, [HistoryNext]_<<cacheVars, changed>> PROVE SwapInv'
  OBVIOUS
<1>1. CASE UNCHANGED <<cacheVars, changed>>
  <2>1. UNCHANGED <<node, frame, call, changed>>
    BY <1>1 DEF cacheVars, listVars, ownVars
  <2>2. \A l, k : Visible(l, k)' = Visible(l, k)
    BY <2>1, SameNodesVisible
  <2>3. PICK f, c : f = frame[Compactor] /\ c = call[Compactor]
    OBVIOUS
  <2>4. Swapping(f, c) => Swapping(f, c)'
    BY <2>1, <2>2 DEF Swapping, Past
  <2> QED BY <2>1, <2>3, <2>4 DEF SwapInv
<1>2. CASE HistoryNext
  <2>1. CASE InitBucket \/ Destroy
    <3>1. node' = node /\ frame' = frame /\ call' = call
      BY <2>1 DEF InitBucket, Destroy, listVars
    <3> QED BY <1>2, <3>1, SameUntouched, AsideSwap
  <2>2. CASE \E t \in Clients : Get(t) \/ Insert(t)
    BY <1>2, <2>2, ClientSwap
  <2>3. ASSUME NEW t \in Threads, CacheStep(t) PROVE SwapInv'
    <3>1. CASE ListStep(t) /\ UNCHANGED ownVars
      BY <1>2, <3>1, ListStepSwap, IterateSwap
    <3>2. CASE t \in Clients /\ Client(t)
      BY <1>2, <3>2, ClientSwap
    <3>3. CASE t = Decayer /\ Decay(t)
      BY <1>2, <3>3, DecaySwap
    <3>4. CASE t = Compactor /\ Compact(t)
      BY <1>2, <3>4, CompactRestSwap, CompactNodesSwap, CompactVisitSwap DEF Compact
    <3> QED BY <2>3, <3>1, <3>2, <3>3, <3>4 DEF CacheStep
  <2> QED BY <1>2, <2>1, <2>2, <2>3 DEF HistoryNext, CacheNext
<1> QED BY <1>1, <1>2

LEMMA InitSwapInv == HistoryInit => SwapInv
<1> SUFFICES ASSUME HistoryInit PROVE SwapInv
  OBVIOUS
<1>1. frame[Compactor].pc = "idle"
  BY Parties DEF HistoryInit, CacheInit, ListInit, Idle
<1> QED BY <1>1 DEF SwapInv, Swapping, CopyLabels

(***************************************************************************)
(* When Compact stores the new bucket, it has what the old bucket has,     *)
(* for every key that was not inserted, updated or deleted while           *)
(* CompactOneBucket copied: for any number of clients and keys, and        *)
(* whatever the decay thread marks meanwhile.                              *)
(***************************************************************************)
THEOREM CompactionComplete == HistorySpec => []SwapComplete
<1>1. HistoryInit => CInv
  BY InitCInv DEF HistoryInit
<1>2. CInv /\ [HistoryNext]_<<cacheVars, changed>> => CInv'
  <2>1. [HistoryNext]_<<cacheVars, changed>> => [CacheNext]_cacheVars
    BY DEF HistoryNext
  <2> QED BY <2>1, NextCInv
<1>3. CInv /\ CInv' /\ SwapInv /\ [HistoryNext]_<<cacheVars, changed>> => SwapInv'
  BY NextSwapInv
<1>4. SwapInv => SwapComplete
  BY DEF SwapInv, Swapping, SwapComplete, Past, At
<1> QED BY <1>1, <1>2, <1>3, <1>4, InitSwapInv, PTL DEF HistorySpec
=============================================================================
