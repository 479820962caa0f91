--------------------------- MODULE AtomicSkipList ---------------------------
(***************************************************************************)
(* hash_skip::AtomicSkipList and its Node: a sorted list of nodes that are *)
(* linked once, level by level, and never taken out.  A node is deleted by *)
(* a mark in its own level 0 word, and loses its handle.                   *)
(*                                                                         *)
(* One action is one access to a word, a handle or a counter.  A handle is *)
(* an AtomicSharedPtr, whose Load and Store are atomic (AtomicCell).  The  *)
(* CAS loops on the hit counter are the one access that succeeds.  A weak  *)
(* CAS that fails for no reason repeats a Find with the same outcome, so   *)
(* only failures that have one are actions.                                *)
(*                                                                         *)
(* There may be several lists: HashSkipCache has one per bucket and one    *)
(* per compaction.                                                         *)
(***************************************************************************)
EXTENDS Integers, FiniteSets, Sequences

CONSTANTS
  Threads,
  Handles,       \* what clients insert
  Workloads,     \* each w \in Workloads: w[t] is the sequence of calls t makes
  ListNum,       \* the number of lists
  MaxNodes,      \* bound: the number of nodes ever linked
  MaxLevel,      \* max_level_: 15 in the code
  MaxKey,        \* INT64_MAX, the key of tail_
  VersionMod,    \* 2^14
  MaxHitCount,   \* MAX_HIT_COUNT: 1000
  InitHitCount,  \* 200
  None           \* no handle

ASSUME ListAssumption ==
  /\ {MaxNodes, MaxLevel, MaxKey, MaxHitCount} \subseteq Nat
  /\ {ListNum, VersionMod} \subseteq Nat \ {0}
  /\ InitHitCount \in 0 .. MaxHitCount

\* The keys of clients lie between those of head_ and tail_.
Calls == [op : STRING, key : 0 .. MaxKey - 1, h : Handles \cup {None}]

ASSUME ClientAssumption ==
  /\ IsFiniteSet(Threads)
  /\ None \notin Handles /\ \A h \in Handles : h.charge \in Nat
  /\ Workloads \subseteq [Threads -> Seq(Calls)]

VARIABLES
  node,     \* node[n]: the Node n, head_ and tail_ included
  counts,   \* counts[l]: node_num_ and marked_deleted_num_ of list l
  frame,    \* frame[t]: the list operation t is in, and its locals
  todo      \* todo[t]: the calls t has still to make

listVars == <<node, counts, frame, todo>>

Lists == 1 .. ListNum
Levels == 0 .. MaxLevel
Nodes == 1 .. MaxNodes
HeadNode(l) == MaxNodes + 2 * l - 1
TailNode(l) == MaxNodes + 2 * l
AllNodes == 1 .. MaxNodes + 2 * ListNum

Linked(l) == {n \in Nodes : node[n].list = l}
Chain(l) == Linked(l) \cup {HeadNode(l), TailNode(l)}

NullWord == [to |-> 0, ver |-> 0, mark |-> FALSE]
PackPtr(n, v, m) == [to |-> n, ver |-> v % VersionMod, mark |-> m]

NewNode(l, k, h, nexts) ==
  [list |-> l, key |-> k, handle |-> h, hit |-> InitHitCount, nexts |-> nexts]

Word(n, i) == node[n].nexts[i]
IsMarked(n) == Word(n, 0).mark
Charge(h) == IF h = None THEN 0 ELSE h.charge

NoNode == [i \in Levels |-> 0]
NoWords == [i \in Levels |-> NullWord]

Idle == [pc |-> "idle", ret |-> "idle", list |-> 0, key |-> 0, h |-> None,
         level |-> 0, pred |-> 0, found |-> FALSE,               \* Find
         preds |-> NoNode, succs |-> NoWords, after |-> "idle",
         new |-> 0, top |-> 0, up |-> 0,                         \* Insert
         n |-> 0,                                                \* a Node*
         word |-> NullWord, counted |-> FALSE, charge |-> 0]     \* MarkDeleted

\* A list operation returns to its caller, with its result in n, h or charge.
Done(f, n, h) == IF f.ret = "idle" THEN Idle
                 ELSE [Idle EXCEPT !.pc = f.ret, !.list = f.list, !.n = n, !.h = h]

At(t, l) == frame[t].pc = l
Goto(t, l) == frame' = [frame EXCEPT ![t].pc = l]
SetFrame(t, f) == frame' = [frame EXCEPT ![t] = f]
SetWord(n, i, w) == node' = [node EXCEPT ![n].nexts[i] = w]

\* AtomicSkipList(): at every level head_ points to tail_.
Empty == [n \in AllNodes |->
            IF \E l \in Lists : n = HeadNode(l)
            THEN NewNode((n - MaxNodes + 1) \div 2, -1, None, [i \in Levels |-> PackPtr(n + 1, 0, FALSE)])
            ELSE IF \E l \in Lists : n = TailNode(l)
            THEN NewNode((n - MaxNodes) \div 2, MaxKey, None, NoWords)
            ELSE NewNode(0, 0, None, NoWords)]

ListInit == /\ node = Empty
            /\ counts = [l \in Lists |-> [nodes |-> 0, marked |-> 0]]
            /\ frame = [t \in Threads |-> Idle]
            /\ todo \in Workloads
-----------------------------------------------------------------------------
(***************************************************************************)
(* Find(f, k, l): the frame of a Find of k that goes on at label l.  It    *)
(* reads one word at a time, passes the nodes with smaller keys, and keeps *)
(* for every level the last of them and the word it read there.            *)
(***************************************************************************)
Find(f, k, l) == [f EXCEPT !.pc = "find", !.after = l, !.key = k, !.level = MaxLevel,
                           !.pred = HeadNode(f.list), !.found = FALSE,
                           !.preds = NoNode, !.succs = NoWords]

FindStep(t) ==
  /\ At(t, "find")
  /\ LET f == frame[t]
         w == Word(f.pred, f.level)
         k == node[w.to].key
         g == [f EXCEPT !.preds[f.level] = f.pred, !.succs[f.level] = w,
                        !.found = @ \/ k = f.key]
     IN \/ /\ k < f.key
           /\ SetFrame(t, [f EXCEPT !.pred = w.to])
        \/ /\ k >= f.key /\ f.level > 0
           /\ SetFrame(t, [g EXCEPT !.level = @ - 1])
        \/ /\ k >= f.key /\ f.level = 0
           /\ SetFrame(t, [g EXCEPT !.pc = f.after, !.pred = 0])
  /\ UNCHANGED <<node, counts, todo>>
-----------------------------------------------------------------------------
(***************************************************************************)
(* Get(key) returns a node that is not marked ("getNode"); Get(key,        *)
(* &handle) goes on to read its handle and to count the hit ("getFor").    *)
(***************************************************************************)
GetNode(t) ==
  /\ At(t, "getNode") \/ At(t, "getFor")
  /\ LET f == frame[t]
         n == f.succs[0].to
     IN \/ /\ ~f.found \/ IsMarked(n)
           /\ SetFrame(t, Done(f, 0, None))
        \/ /\ f.found /\ ~IsMarked(n)
           /\ SetFrame(t, IF At(t, "getNode") THEN Done(f, n, None)
                          ELSE [Idle EXCEPT !.pc = "getHandle", !.ret = f.ret, !.list = f.list, !.n = n])
  /\ UNCHANGED <<node, counts, todo>>

GetHandle(t) ==
  /\ At(t, "getHandle")
  /\ SetFrame(t, [frame[t] EXCEPT !.h = node[frame[t].n].handle, !.pc = "getHit"])
  /\ UNCHANGED <<node, counts, todo>>

IncrHitCount(c) == IF c >= MaxHitCount THEN c ELSE c + 1
DecrHitCount(c, delta) == IF c <= delta THEN 0 ELSE c - delta

GetHit(t) ==
  /\ At(t, "getHit")
  /\ node' = [node EXCEPT ![frame[t].n].hit = IncrHitCount(@)]
  /\ SetFrame(t, Done(frame[t], 0, frame[t].h))
  /\ UNCHANGED <<counts, todo>>
-----------------------------------------------------------------------------
(***************************************************************************)
(* Insert: update the handle of a node that has the key, or link a new     *)
(* one, first at level 0.                                                  *)
(***************************************************************************)
\* A call without a handle returns at once; a retry does not look again.
StartInsert(f, k) == IF f.h = None THEN Done(f, 0, None) ELSE Find(f, k, "insert")

\* Mutation: an update is counted as a node.
UpdateHandleMutant(t) ==
  /\ At(t, "insert")
  /\ frame[t].found
  /\ node' = [node EXCEPT ![frame[t].succs[0].to].handle = frame[t].h]
  /\ counts' = [counts EXCEPT ![frame[t].list].nodes = @ + 1]
  /\ SetFrame(t, Idle)
  /\ UNCHANGED todo

UpdateHandle(t) ==
  /\ At(t, "insert")
  /\ frame[t].found
  /\ LET n == frame[t].succs[0].to
     IN  /\ node' = [node EXCEPT ![n].handle = frame[t].h]
         /\ SetFrame(t, Done(frame[t], 0, node[n].handle))
  /\ UNCHANGED <<counts, todo>>

LinkWord(expected, n) == PackPtr(n, expected.ver + 1, FALSE)
SameWord(n, i, expected) == Word(n, i) = expected
\* Every level has a chance.
RandomLevel == Levels
Counting(f, n) == [Idle EXCEPT !.pc = "count", !.ret = f.ret, !.list = f.list, !.new = n]
Fresh == CHOOSE n \in Nodes : node[n].list = 0

\* Mutation: the new node is stored instead of compared and swapped.
LinkBottomMutant(t) ==
  LET f == frame[t]
      new == Fresh
  IN  /\ At(t, "insert")
      /\ ~f.found
      /\ node' = [node EXCEPT
           ![new] = NewNode(f.list, f.key, f.h,
                      [i \in Levels |-> IF i > 0 THEN NullWord
                                        ELSE PackPtr(f.succs[i].to, 0, FALSE)]),
           ![f.preds[0]].nexts[0] = LinkWord(f.succs[0], new)]
      /\ SetFrame(t, Counting(f, new))
      /\ UNCHANGED <<counts, todo>>

\* The new node points to the nodes Find has seen behind it; LinkLevel puts
\* it there if the word Find has read still stands.  Bound: there is a node.
LinkBottom(t) ==
  LET f == frame[t]
      new == Fresh
  IN  /\ At(t, "insert")
      /\ ~f.found
      /\ \E n \in Nodes : node[n].list = 0
      /\ SameWord(f.preds[0], 0, f.succs[0])
      /\ \E top \in RandomLevel :
           /\ node' = [node EXCEPT
                ![new] = NewNode(f.list, f.key, f.h,
                           [i \in Levels |-> IF i > top THEN NullWord
                                             ELSE PackPtr(f.succs[i].to, 0, FALSE)]),
                ![f.preds[0]].nexts[0] = LinkWord(f.succs[0], new)]
           /\ SetFrame(t, IF top = 0 THEN Counting(f, new)
                          ELSE [f EXCEPT !.new = new, !.top = top, !.up = 1, !.h = None,
                                         !.pc = "linkUp"])
      /\ UNCHANGED <<counts, todo>>

\* Mutation: the word is read again, the place is not looked for again.
LinkBottomFailsMutant(t) ==
  LET f == frame[t]
  IN  /\ At(t, "insert")
      /\ ~f.found
      /\ ~SameWord(f.preds[0], 0, f.succs[0])
      /\ SetFrame(t, [f EXCEPT !.h = None, !.succs[0] = Word(f.preds[0], 0)])
      /\ UNCHANGED <<node, counts, todo>>

\* The handle went into the node that is deleted: the retry has none.
LinkBottomFails(t) ==
  /\ At(t, "insert")
  /\ ~frame[t].found
  /\ ~SameWord(frame[t].preds[0], 0, frame[t].succs[0])
  /\ SetFrame(t, Find([frame[t] EXCEPT !.h = None], frame[t].key, "insert"))
  /\ UNCHANGED <<node, counts, todo>>

LinkUpper(t) ==
  LET f == frame[t]
  IN  /\ At(t, "linkUp")
      /\ SameWord(f.preds[f.up], f.up, f.succs[f.up])
      /\ SetWord(f.preds[f.up], f.up, LinkWord(f.succs[f.up], f.new))
      /\ SetFrame(t, IF f.up = f.top THEN Counting(f, f.new) ELSE [f EXCEPT !.up = @ + 1])
      /\ UNCHANGED <<counts, todo>>

\* Mutation: the CAS is repeated with the same expectation.
LinkUpperFailsMutant(t) ==
  LET f == frame[t]
  IN  /\ At(t, "linkUp")
      /\ ~SameWord(f.preds[f.up], f.up, f.succs[f.up])
      /\ UNCHANGED listVars

LinkUpperFails(t) ==
  LET f == frame[t]
  IN  /\ At(t, "linkUp")
      /\ ~SameWord(f.preds[f.up], f.up, f.succs[f.up])
      /\ SetFrame(t, Find(f, f.key, "linkUp"))
      /\ UNCHANGED <<node, counts, todo>>

InsertCount(t) ==
  /\ At(t, "count")
  /\ counts' = [counts EXCEPT ![frame[t].list].nodes = @ + 1]
  /\ SetFrame(t, Done(frame[t], 0, None))
  /\ UNCHANGED <<node, todo>>
-----------------------------------------------------------------------------
(***************************************************************************)
(* MarkDeleted(f, n, c, l): the frame of a MarkDeleted of node n that      *)
(* returns to label l.  AtomicSkipList::MarkDeleted counts it (c is TRUE), *)
(* Node::MarkDeleted does not.                                             *)
(***************************************************************************)
MarkDeleted(f, n, counted, l) ==
  [f EXCEPT !.pc = "mark", !.n = n, !.counted = counted, !.ret = l, !.charge = 0]

Marked(f, c) == IF f.ret = "idle" THEN Idle
                ELSE [f EXCEPT !.pc = f.ret, !.word = NullWord, !.counted = FALSE, !.charge = c]

MarkRead(t) ==
  /\ At(t, "mark")
  /\ SetFrame(t, [frame[t] EXCEPT !.word = Word(frame[t].n, 0), !.pc = "markCas"])
  /\ UNCHANGED <<node, counts, todo>>

MarkCas(t) ==
  /\ At(t, "markCas")
  /\ LET f == frame[t]
     IN \/ /\ f.word.mark
           /\ SetFrame(t, Marked(f, 0))
           /\ UNCHANGED node
        \/ /\ ~f.word.mark /\ SameWord(f.n, 0, f.word)
           /\ SetWord(f.n, 0, PackPtr(f.word.to, f.word.ver + 1, TRUE))
           /\ Goto(t, "markHandle")
        \/ /\ ~f.word.mark /\ ~SameWord(f.n, 0, f.word)
           /\ SetFrame(t, [f EXCEPT !.word = Word(f.n, 0)])
           /\ UNCHANGED node
  /\ UNCHANGED <<counts, todo>>

MarkHandle(t) ==
  /\ At(t, "markHandle")
  /\ node' = [node EXCEPT ![frame[t].n].handle = None]
  /\ LET f == frame[t]
         c == Charge(node[f.n].handle)
     IN  SetFrame(t, IF f.counted /\ c > 0 THEN [f EXCEPT !.charge = c, !.pc = "markCount"]
                     ELSE Marked(f, c))
  /\ UNCHANGED <<counts, todo>>

MarkCount(t) ==
  /\ At(t, "markCount")
  /\ counts' = [counts EXCEPT ![frame[t].list].marked = @ + 1]
  /\ SetFrame(t, Marked(frame[t], frame[t].charge))
  /\ UNCHANGED <<node, todo>>
-----------------------------------------------------------------------------
(***************************************************************************)
(* IterateLevel(f, l): the frame of an iteration over level 0 that stops   *)
(* at label "visit" for every node that is not marked, and ends at l.      *)
(***************************************************************************)
IterateLevel(f, l) == [f EXCEPT !.pc = "iterate", !.pred = HeadNode(f.list), !.after = l]

\* fn has returned true.
IterateOn(f) == [f EXCEPT !.pc = "iterate", !.pred = f.n, !.n = 0, !.charge = 0, !.ret = "idle"]

IterateRead(t) ==
  /\ At(t, "iterate")
  /\ SetFrame(t, [frame[t] EXCEPT !.n = Word(frame[t].pred, 0).to, !.pc = "iterateMarked"])
  /\ UNCHANGED <<node, counts, todo>>

\* Mutation: a marked node ends the iteration.
IterateMarkedMutant(t) ==
  /\ At(t, "iterateMarked")
  /\ LET f == frame[t]
     IN  SetFrame(t, IF IsMarked(f.n) \/ f.n = TailNode(f.list) THEN Idle ELSE [f EXCEPT !.pc = "visit"])
  /\ UNCHANGED <<node, counts, todo>>

IterateMarked(t) ==
  /\ At(t, "iterateMarked")
  /\ LET f == frame[t]
     IN  SetFrame(t, IF IsMarked(f.n) THEN IterateOn(f)
                     ELSE IF f.n = TailNode(f.list)
                     THEN IF f.after = "idle" THEN Idle ELSE [Idle EXCEPT !.pc = f.after, !.list = f.list]
                     ELSE [f EXCEPT !.pc = "visit"])
  /\ UNCHANGED <<node, counts, todo>>
-----------------------------------------------------------------------------
\* The accesses a running list operation still has to make.
ListStep(t) ==
  \/ FindStep(t)
  \/ GetNode(t) \/ GetHandle(t) \/ GetHit(t)
  \/ UpdateHandle(t) \/ LinkBottom(t) \/ LinkBottomFails(t) \/ LinkUpper(t) \/ LinkUpperFails(t)
  \/ InsertCount(t)
  \/ MarkRead(t) \/ MarkCas(t) \/ MarkHandle(t) \/ MarkCount(t)
  \/ IterateRead(t) \/ IterateMarked(t)
-----------------------------------------------------------------------------
(***************************************************************************)
(* The list on its own: threads that get, insert, look for a node to mark  *)
(* it, and iterate with a function that marks some of the nodes.           *)
(***************************************************************************)
Call(t) == Head(todo[t])

Take(t, op) == /\ At(t, "idle")
               /\ todo[t] # <<>>
               /\ Call(t).op = op
               /\ todo' = [todo EXCEPT ![t] = Tail(@)]

Begin(t) ==
  /\ LET f == [Idle EXCEPT !.list = 1]
     IN \/ Take(t, "get") /\ SetFrame(t, Find(f, Call(t).key, "getFor"))
        \/ Take(t, "insert") /\ SetFrame(t, StartInsert([f EXCEPT !.h = Call(t).h], Call(t).key))
        \/ Take(t, "mark") /\ SetFrame(t, Find([f EXCEPT !.ret = "marking"], Call(t).key, "getNode"))
        \/ Take(t, "sweep") /\ SetFrame(t, IterateLevel(f, "idle"))
  /\ UNCHANGED <<node, counts>>

Marking(t) ==
  /\ At(t, "marking")
  /\ SetFrame(t, IF frame[t].n = 0 THEN Idle ELSE MarkDeleted(frame[t], frame[t].n, FALSE, "idle"))
  /\ UNCHANGED <<node, counts, todo>>

Visit(t) ==
  /\ \/ At(t, "visit") /\ SetFrame(t, MarkDeleted(frame[t], frame[t].n, TRUE, "visited"))
     \/ At(t, "visit") /\ SetFrame(t, IterateOn(frame[t]))
     \/ At(t, "visited") /\ SetFrame(t, IterateOn(frame[t]))
  /\ UNCHANGED <<node, counts, todo>>

Step(t) == ListStep(t) \/ Marking(t) \/ Visit(t)

ListNext == \E t \in Threads : Begin(t) \/ Step(t)

ListSpec == ListInit /\ [][ListNext]_listVars
-----------------------------------------------------------------------------
\* The threads that have linked their node at level 0 and not counted it yet.
Linking(l) == {t \in Threads : frame[t].new # 0 /\ frame[t].list = l}

ListTypeOK ==
  /\ \A n \in AllNodes :
       /\ node[n].list \in 0 .. ListNum
       /\ node[n].hit \in 0 .. MaxHitCount
       /\ \A i \in Levels : Word(n, i).to \in 0 .. MaxNodes + 2 * ListNum
                           /\ Word(n, i).ver \in 0 .. VersionMod - 1
  /\ \A l \in Lists : counts[l].nodes \in Nat /\ counts[l].marked \in Nat
  /\ \A t \in Threads : frame[t].n \in 0 .. MaxNodes + 2 * ListNum /\ frame[t].charge \in Nat

(***************************************************************************)
(* At every level the words lead from smaller to larger keys and stay in   *)
(* the list, so Find and IterateLevel end at tail_ and keys are unique,    *)
(* although upper levels are linked with words read long before.           *)
(***************************************************************************)
Ordered ==
  \A l \in Lists : \A n \in Linked(l) \cup {HeadNode(l)} : \A i \in Levels :
    LET to == Word(n, i).to
    IN  to # 0 => to \in Linked(l) \cup {TailNode(l)} /\ node[n].key < node[to].key

(***************************************************************************)
(* "Append-only": no race of inserts and marks drops a node out of level   *)
(* 0; one word leads to each, and the words form a single chain.           *)
(***************************************************************************)
Chained ==
  \A l \in Lists : \A n \in Linked(l) \cup {TailNode(l)} :
    Cardinality({m \in Chain(l) : Word(m, 0).to = n}) = 1

(***************************************************************************)
(* node_num_ counts the nodes of the list, up to the inserts that have     *)
(* linked their node and not returned.                                     *)
(***************************************************************************)
CountExact ==
  \A l \in Lists : counts[l].nodes = Cardinality(Linked(l)) - Cardinality(Linking(l))

(***************************************************************************)
(* A "Thread-safe Skiplist": what Insert puts under a key is there to be   *)
(* read until someone marks the node, whoever else is inserting.           *)
(***************************************************************************)
NodeHasHandle ==
  \A n \in Nodes : node[n].list # 0 /\ node[n].handle = None =>
    IsMarked(n) \/ \E t \in Threads : frame[t].n = n

(***************************************************************************)
(* Every call returns: CAS loops end, and no Find or iteration is led      *)
(* round in circles by the words that others change under it.              *)
(***************************************************************************)
CallsReturn == \A t \in Threads : []<>At(t, "idle")
=============================================================================
