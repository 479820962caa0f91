------------------------ MODULE AtomicSkipListProofs ------------------------
(***************************************************************************)
(* Proofs about AtomicSkipList, for any number of threads, lists, levels   *)
(* and nodes and any workload with keys between those of head_ and tail_.  *)
(*                                                                         *)
(* Ordered is not inductive.  A link is made with what a Find has read     *)
(* long before, so the invariant says of every frame that what it has read *)
(* is still good: nodes never leave a list, keys never change, and a word  *)
(* that leads somewhere never becomes null (Grow).  Level 0 has no gaps:   *)
(* no node lies between a node and the one its word leads to, which is why *)
(* a Find that has seen its key at some level meets it at level 0, and why *)
(* a key is linked once.                                                   *)
(***************************************************************************)
EXTENDS AtomicSkipList, FiniteSetTheorems, TLAPS

SearchLabels == {"getNode", "getFor", "insert", "linkUp"}
MarkLabels == {"mark", "markCas", "markHandle", "markCount"}
\* Where the function of an iteration is, in the list's own specification and
\* in the decay thread of HashSkipCache.
VisitLabels == {"visit", "visited", "decayGen", "decayPush", "decayPublish", "decayed"}
IterateLabels == {"iterate", "iterateMarked"} \cup VisitLabels
NodeLabels == {"getHandle", "getHit", "iterateMarked", "evicted"} \cup VisitLabels \cup MarkLabels

\* Where the operations of a list return to, there and here.
FindReturns == {"idle", "marking", "inserted", "evictNode"}
MarkReturns == {"idle", "visited", "evicted", "decayed"}
IterateEnds == {"idle", "decayEnd", "compactSwap"}

\* Where HashSkipCache is between operations of a list.
CacheLabels == {"insertCheck", "evict", "evictPop", "evictGen", "evictLoad", "decayLoad", "exited",
                "compactMarked", "compactNodes", "compactGen"}

Labels == {"find", "count"} \cup SearchLabels \cup NodeLabels \cup IterateLabels
          \cup FindReturns \cup MarkReturns \cup IterateEnds \cup CacheLabels

Refs == 0 .. MaxNodes + 2 * ListNum
Words == [to : Refs, ver : 0 .. VersionMod - 1, mark : BOOLEAN]
NodeRecords == [list : 0 .. ListNum, key : -1 .. MaxKey, handle : Handles \cup {None},
                hit : 0 .. MaxHitCount, nexts : [Levels -> Words]]
Frames == [pc : Labels, ret : Labels, list : 0 .. ListNum, key : 0 .. MaxKey,
           h : Handles \cup {None}, level : Levels, pred : Refs, found : BOOLEAN,
           preds : [Levels -> Refs], succs : [Levels -> Words], after : Labels,
           new : Nodes \cup {0}, top : Levels, up : Nat, n : Refs, word : Words,
           counted : BOOLEAN, charge : Nat]

StateType ==
  /\ node \in [AllNodes -> NodeRecords]
  /\ counts \in [Lists -> [nodes : Nat, marked : Nat]]
  /\ frame \in [Threads -> Frames]
  /\ todo \in [Threads -> Seq(Calls)]

\* The nodes of list l that are tall enough for level i.
OnLevel(l, i) == {n \in Linked(l) : Word(n, i).to # 0}

Sentinels ==
  \A l \in Lists :
    /\ node[HeadNode(l)].list = l /\ node[HeadNode(l)].key = -1
    /\ node[TailNode(l)].list = l /\ node[TailNode(l)].key = MaxKey
    /\ ~IsMarked(TailNode(l))
    /\ \A i \in Levels : Word(HeadNode(l), i).to # 0 /\ Word(TailNode(l), i).to = 0

Towers ==
  \A l \in Lists : \A n \in Linked(l) :
    /\ node[n].key \in 0 .. MaxKey - 1
    /\ Word(n, 0).to # 0
    /\ \A i, j \in Levels : j <= i /\ Word(n, i).to # 0 => Word(n, j).to # 0

LevelsOrdered ==
  \A l \in Lists : \A i \in Levels : \A n \in OnLevel(l, i) \cup {HeadNode(l)} :
    /\ Word(n, i).to \in OnLevel(l, i) \cup {TailNode(l)}
    /\ node[n].key < node[Word(n, i).to].key

\* No node lies between a node and the one behind it.
Gapless ==
  \A l \in Lists : \A n \in Linked(l) \cup {HeadNode(l)} : \A m \in Linked(l) :
    node[n].key < node[m].key => node[Word(n, 0).to].key <= node[m].key

(***************************************************************************)
(* Insert links a key once, however many inserts of it race: no two nodes  *)
(* of a list have the same key.                                            *)
(***************************************************************************)
KeysUnique ==
  \A l \in Lists : \A n, m \in Linked(l) : node[n].key = node[m].key => n = m

Structure == Sentinels /\ Towers /\ LevelsOrdered /\ Gapless /\ KeysUnique

\* Where a Find of k may be on level i, and where it may stop.
Before(l, i, k) == {n \in OnLevel(l, i) \cup {HeadNode(l)} : node[n].key < k}
Behind(l, i, k) == {n \in OnLevel(l, i) \cup {TailNode(l)} : node[n].key >= k}

\* What Find has kept for level i.
Searched(f, i) ==
  /\ f.preds[i] \in Before(f.list, i, f.key)
  /\ f.succs[i].to \in Behind(f.list, i, f.key)
  /\ node[f.succs[i].to].key = f.key => f.found

FindInv(f) ==
  /\ f.pc \in {"find"} \cup SearchLabels =>
       /\ f.list \in Lists /\ f.key \in 0 .. MaxKey - 1 /\ f.n = 0
       /\ f.found => \E m \in Linked(f.list) : node[m].key = f.key
  /\ f.pc = "find" =>
       /\ f.after \in SearchLabels
       /\ f.pred \in Before(f.list, f.level, f.key)
       /\ \A i \in Levels : i > f.level => Searched(f, i)
  /\ f.pc \in SearchLabels =>
       /\ \A i \in Levels : Searched(f, i)
       /\ f.found => f.succs[0].to \in Linked(f.list) /\ node[f.succs[0].to].key = f.key

\* The node an Insert has linked and not counted yet.
IsLinking(f) == f.pc \in {"linkUp", "count"} \/ (f.pc = "find" /\ f.after = "linkUp")

NewInv(f) ==
  /\ f.new # 0 <=> IsLinking(f)
  /\ IsLinking(f) => f.list \in Lists /\ f.new \in Linked(f.list)
  /\ IsLinking(f) /\ f.pc # "count" =>
       node[f.new].key = f.key /\ f.up \in 1 .. f.top /\ f.new \in OnLevel(f.list, f.top)

\* The node an operation has in its hands.
NodeInv(f) ==
  /\ f.pc \in NodeLabels => f.n # 0
  /\ f.n # 0 => /\ f.list \in Lists
                /\ \/ f.n \in Linked(f.list)
                   \/ f.pc = "iterateMarked" /\ f.n = TailNode(f.list)
  /\ f.pc = "iterate" => f.list \in Lists /\ f.pred \in Linked(f.list) \cup {HeadNode(f.list)}

\* Where an operation returns to.
ReturnInv(f) ==
  /\ f.pc \in {"find", "getHandle", "getHit", "count"} \cup SearchLabels => f.ret \in FindReturns
  /\ f.pc \in MarkLabels => f.ret \in MarkReturns
  /\ f.pc \in {"marking", "evictNode"} \cup MarkLabels \cup IterateLabels => f.after \in IterateEnds

FrameInv(f) == FindInv(f) /\ NewInv(f) /\ NodeInv(f) /\ ReturnInv(f)

FramesInv == \A t \in Threads : FrameInv(frame[t])

LInv == StateType /\ Structure /\ FramesInv
-----------------------------------------------------------------------------
(***************************************************************************)
(* The numbers of the nodes: the sentinels are apart from each other and   *)
(* from the nodes of inserts, and 0 is none of them.                       *)
(***************************************************************************)
LEMMA Numbers ==
  /\ 0 \in Levels /\ MaxLevel \in Levels
  /\ Nodes \subseteq AllNodes /\ AllNodes \subseteq Refs /\ 0 \in Refs /\ 0 \notin AllNodes
  /\ \A l \in Lists : /\ l \in 1 .. ListNum /\ l # 0
                      /\ HeadNode(l) \in AllNodes \ Nodes /\ TailNode(l) \in AllNodes \ Nodes
  /\ \A l, m \in Lists : /\ HeadNode(l) # TailNode(m)
                         /\ HeadNode(l) = HeadNode(m) => l = m
                         /\ TailNode(l) = TailNode(m) => l = m
BY ListAssumption DEF Levels, Nodes, AllNodes, Refs, Lists, HeadNode, TailNode

LEMMA PackType ==
  ASSUME NEW n \in Refs, NEW v \in Nat, NEW m \in BOOLEAN
  PROVE  /\ PackPtr(n, v, m) \in Words
         /\ PackPtr(n, v, m).to = n /\ PackPtr(n, v, m).mark = m
<1>1. v % VersionMod \in 0 .. VersionMod - 1
  BY ListAssumption
<1> QED BY <1>1 DEF PackPtr, Words

LEMMA NullType == NullWord \in Words /\ NoWords \in [Levels -> Words] /\ NoNode \in [Levels -> Refs]
BY ListAssumption, Numbers DEF NullWord, NoWords, NoNode, Words

LEMMA LabelType ==
  /\ {"find", "count", "getHandle", "getHit"} \subseteq Labels
  /\ SearchLabels \subseteq Labels /\ MarkLabels \subseteq Labels /\ IterateLabels \subseteq Labels
  /\ FindReturns \subseteq Labels /\ MarkReturns \subseteq Labels /\ IterateEnds \subseteq Labels
  /\ CacheLabels \subseteq Labels
  /\ "idle" \in Labels /\ "idle" \in FindReturns /\ "idle" \in MarkReturns /\ "idle" \in IterateEnds
BY DEF Labels, NodeLabels, VisitLabels, FindReturns, MarkReturns, IterateEnds

LEMMA IdleType == Idle \in Frames
<1>1. 0 \in 0 .. MaxKey /\ 0 \in 0 .. ListNum /\ 0 \in Levels /\ 0 \in Refs /\ 0 \in Nodes \cup {0} /\ 0 \in Nat
  BY ListAssumption, Numbers
<1>2. None \in Handles \cup {None}
  OBVIOUS
<1>3. FALSE \in BOOLEAN
  OBVIOUS
<1>4. "idle" \in Labels
  BY LabelType
<1> QED BY <1>1, <1>2, <1>3, <1>4, NullType DEF Idle, Frames
-----------------------------------------------------------------------------
LEMMA EmptyList ==
  ASSUME NEW l \in Lists
  PROVE  /\ Empty[HeadNode(l)] = NewNode(l, -1, None, [i \in Levels |-> PackPtr(TailNode(l), 0, FALSE)])
         /\ Empty[TailNode(l)] = NewNode(l, MaxKey, None, NoWords)
<1>1. HeadNode(l) \in AllNodes /\ TailNode(l) \in AllNodes /\ \A m \in Lists : TailNode(l) # HeadNode(m)
  BY Numbers
<1>2. (HeadNode(l) - MaxNodes + 1) \div 2 = l /\ (TailNode(l) - MaxNodes) \div 2 = l /\ HeadNode(l) + 1 = TailNode(l)
  BY ListAssumption DEF HeadNode, TailNode, Lists
<1>3. Empty[HeadNode(l)] = NewNode((HeadNode(l) - MaxNodes + 1) \div 2, -1, None,
                                   [i \in Levels |-> PackPtr(HeadNode(l) + 1, 0, FALSE)])
  BY <1>1 DEF Empty
<1>4. Empty[TailNode(l)] = NewNode((TailNode(l) - MaxNodes) \div 2, MaxKey, None, NoWords)
  BY <1>1 DEF Empty
<1> QED BY <1>2, <1>3, <1>4

LEMMA EmptyNode ==
  ASSUME NEW n \in Nodes
  PROVE  Empty[n] = NewNode(0, 0, None, NoWords)
<1>1. n \in AllNodes /\ \A l \in Lists : n # HeadNode(l) /\ n # TailNode(l)
  BY Numbers
<1> QED BY <1>1 DEF Empty

LEMMA NewNodeType ==
  ASSUME NEW l \in 0 .. ListNum, NEW k \in -1 .. MaxKey, NEW h \in Handles \cup {None},
         NEW nexts \in [Levels -> Words]
  PROVE  /\ NewNode(l, k, h, nexts) \in NodeRecords
         /\ NewNode(l, k, h, nexts).list = l
         /\ NewNode(l, k, h, nexts).key = k
         /\ NewNode(l, k, h, nexts).nexts = nexts
BY ListAssumption DEF NewNode, NodeRecords

LEMMA InitType == ListInit => StateType
<1> SUFFICES ASSUME ListInit PROVE StateType
  OBVIOUS
<1>1. \A n \in AllNodes : n \in Nodes \/ \E l \in Lists : n = HeadNode(l) \/ n = TailNode(l)
  <2> SUFFICES ASSUME NEW n \in AllNodes, n \notin Nodes
               PROVE  \E l \in Lists : n = HeadNode(l) \/ n = TailNode(l)
    OBVIOUS
  <2>1. PICK q \in Nat : n - MaxNodes = 2 * q \/ n - MaxNodes = 2 * q - 1
    <3>1. n - MaxNodes \in Nat
      BY ListAssumption DEF AllNodes, Nodes
    <3> DEFINE q == (n - MaxNodes + 1) \div 2
    <3>2. q \in Nat /\ (n - MaxNodes = 2 * q \/ n - MaxNodes = 2 * q - 1)
      BY <3>1
    <3> QED BY <3>2
  <2>2. q \in Lists
    BY <2>1, ListAssumption DEF Lists, AllNodes, Nodes
  <2> QED BY <2>1, <2>2, ListAssumption DEF HeadNode, TailNode, AllNodes
<1>2. node \in [AllNodes -> NodeRecords]
  <2>1. Empty = [n \in AllNodes |-> Empty[n]]
    BY DEF Empty
  <2>2. ASSUME NEW n \in AllNodes PROVE Empty[n] \in NodeRecords
    <3>1. CASE n \in Nodes
      BY <3>1, EmptyNode, NewNodeType, NullType, ListAssumption
    <3>2. CASE \E l \in Lists : n = HeadNode(l) \/ n = TailNode(l)
      <4>1. PICK l \in Lists : n = HeadNode(l) \/ n = TailNode(l)
        BY <3>2
      <4>2. l \in 0 .. ListNum /\ TailNode(l) \in Refs
        BY Numbers DEF Lists
      <4>3. [i \in Levels |-> PackPtr(TailNode(l), 0, FALSE)] \in [Levels -> Words]
        BY <4>2, PackType
      <4>4. -1 \in -1 .. MaxKey /\ MaxKey \in -1 .. MaxKey
        BY ListAssumption
      <4>5. None \in Handles \cup {None}
        OBVIOUS
      <4>6. NewNode(l, -1, None, [i \in Levels |-> PackPtr(TailNode(l), 0, FALSE)]) \in NodeRecords
        BY <4>2, <4>3, <4>4, <4>5, NewNodeType
      <4>7. NewNode(l, MaxKey, None, NoWords) \in NodeRecords
        BY <4>2, <4>4, <4>5, NewNodeType, NullType
      <4> QED BY <4>1, <4>6, <4>7, EmptyList
    <3> QED BY <1>1, <3>1, <3>2
  <2> QED BY <2>1, <2>2 DEF ListInit
<1>3. todo \in [Threads -> Seq(Calls)]
  BY ClientAssumption DEF ListInit
<1> QED BY <1>2, <1>3, IdleType DEF ListInit, StateType

LEMMA InitStructure == ListInit => Structure /\ \A l \in Lists : Linked(l) = {}
<1> SUFFICES ASSUME ListInit PROVE Structure /\ \A l \in Lists : Linked(l) = {}
  OBVIOUS
<1>1. \A l \in Lists : Linked(l) = {}
  BY EmptyNode, Numbers, ListAssumption DEF ListInit, Linked, NewNode
<1>2. ASSUME NEW l \in Lists
      PROVE  /\ node[HeadNode(l)].list = l /\ node[HeadNode(l)].key = -1
             /\ node[TailNode(l)].list = l /\ node[TailNode(l)].key = MaxKey
             /\ ~IsMarked(TailNode(l))
             /\ \A i \in Levels : Word(HeadNode(l), i).to = TailNode(l) /\ Word(TailNode(l), i).to = 0
  <2>2. \A i \in Levels : NoWords[i].to = 0 /\ ~NoWords[i].mark
    BY DEF NoWords, NullWord
  <2>3. PackPtr(TailNode(l), 0, FALSE).to = TailNode(l)
    BY DEF PackPtr
  <2>4. node[HeadNode(l)] = NewNode(l, -1, None, [i \in Levels |-> PackPtr(TailNode(l), 0, FALSE)])
    BY EmptyList DEF ListInit
  <2>5. node[TailNode(l)] = NewNode(l, MaxKey, None, NoWords)
    BY EmptyList DEF ListInit
  <2>6. \A i \in Levels : Word(HeadNode(l), i).to = TailNode(l)
    <3>1. node[HeadNode(l)].nexts = [i \in Levels |-> PackPtr(TailNode(l), 0, FALSE)]
      BY <2>4 DEF NewNode
    <3> QED BY <2>3, <3>1 DEF Word
  <2>7. \A i \in Levels : Word(TailNode(l), i).to = 0 /\ ~Word(TailNode(l), i).mark
    BY <2>2, <2>5 DEF NewNode, Word
  <2> QED BY <2>4, <2>5, <2>6, <2>7, Numbers DEF NewNode, IsMarked
<1>3. Sentinels
  BY <1>2, Numbers DEF Sentinels
<1>4. Towers /\ Gapless /\ KeysUnique
  BY <1>1 DEF Towers, Gapless, KeysUnique
<1>5. LevelsOrdered
  <2>1. \A l \in Lists : \A i \in Levels : OnLevel(l, i) = {}
    BY <1>1 DEF OnLevel
  <2> QED BY <1>2, <2>1, ListAssumption DEF LevelsOrdered
<1> QED BY <1>1, <1>3, <1>4, <1>5 DEF Structure

LEMMA IdleFrame == FrameInv(Idle)
BY DEF FrameInv, FindInv, NewInv, NodeInv, ReturnInv, Idle, SearchLabels, MarkLabels, IterateLabels,
       VisitLabels,
       NodeLabels, IsLinking

LEMMA InitLInv == ListInit => LInv
<1> SUFFICES ASSUME ListInit PROVE LInv
  OBVIOUS
<1>1. \A t \in Threads : frame[t] = Idle
  BY DEF ListInit
<1> QED BY <1>1, InitType, InitStructure, IdleFrame DEF LInv, FramesInv
-----------------------------------------------------------------------------
(***************************************************************************)
(* What no step undoes: a node stays in its list and keeps its key, and a  *)
(* word that leads to a node goes on leading to one.                       *)
(***************************************************************************)
Grow ==
  \A n \in AllNodes : node[n].list # 0 =>
    /\ node'[n].list = node[n].list /\ node'[n].key = node[n].key
    /\ \A i \in Levels : Word(n, i).to # 0 => Word(n, i)'.to # 0

LEMMA GrowSets ==
  ASSUME Sentinels, Grow, NEW l \in Lists
  PROVE  /\ Linked(l) \subseteq Linked(l)'
         /\ \A n \in Linked(l) \cup {HeadNode(l), TailNode(l)} : node'[n].key = node[n].key
         /\ \A i \in Levels : OnLevel(l, i) \subseteq OnLevel(l, i)'
         /\ \A i \in Levels : \A k : Before(l, i, k) \subseteq Before(l, i, k)'
         /\ \A i \in Levels : \A k : Behind(l, i, k) \subseteq Behind(l, i, k)'
<1>1. \A n \in Linked(l) \cup {HeadNode(l), TailNode(l)} : n \in AllNodes /\ node[n].list # 0
  BY Numbers DEF Sentinels, Linked
<1>2. Linked(l) \subseteq Linked(l)'
  BY <1>1 DEF Grow, Linked
<1>3. \A n \in Linked(l) \cup {HeadNode(l), TailNode(l)} : node'[n].key = node[n].key
  BY <1>1 DEF Grow
<1>4. \A i \in Levels : OnLevel(l, i) \subseteq OnLevel(l, i)'
  BY <1>1, <1>2 DEF Grow, OnLevel
<1>5. \A i \in Levels : OnLevel(l, i) \subseteq Linked(l)
  BY DEF OnLevel
<1>6. \A i \in Levels : \A k : Before(l, i, k) \subseteq Before(l, i, k)'
  BY <1>3, <1>4, <1>5 DEF Before
<1>7. \A i \in Levels : \A k : Behind(l, i, k) \subseteq Behind(l, i, k)'
  BY <1>3, <1>4, <1>5 DEF Behind
<1> QED BY <1>2, <1>3, <1>4, <1>6, <1>7

LEMMA SearchedGrow ==
  ASSUME Sentinels, Grow, NEW f \in Frames, NEW i \in Levels, f.list \in Lists, Searched(f, i)
  PROVE  Searched(f, i)'
<1> DEFINE l == f.list
           s == f.succs[i].to
<1>1. s \in Linked(l) \cup {TailNode(l)}
  BY DEF Searched, Behind, OnLevel
<1>2. node'[s].key = node[s].key
  BY <1>1, GrowSets
<1> QED BY <1>2, GrowSets DEF Searched

\* What a thread knows stays true while the others go on.
LEMMA FrameGrow ==
  ASSUME Sentinels, Grow, NEW f \in Frames, FrameInv(f)
  PROVE  FrameInv(f)'
<1>1. FindInv(f)'
  <2>1. ASSUME f.pc \in {"find"} \cup SearchLabels
        PROVE  /\ f.list \in Lists /\ f.key \in 0 .. MaxKey - 1 /\ f.n = 0
               /\ f.found => \E m \in Linked(f.list)' : node'[m].key = f.key
    BY <2>1, GrowSets DEF FrameInv, FindInv
  <2>2. ASSUME f.pc = "find"
        PROVE  /\ f.after \in SearchLabels
               /\ f.pred \in Before(f.list, f.level, f.key)'
               /\ \A i \in Levels : i > f.level => Searched(f, i)'
    <3>1. f.level \in Levels
      BY DEF Frames
    <3> QED BY <2>1, <2>2, <3>1, GrowSets, SearchedGrow DEF FrameInv, FindInv
  <2>3. ASSUME f.pc \in SearchLabels
        PROVE  /\ \A i \in Levels : Searched(f, i)'
               /\ f.found => f.succs[0].to \in Linked(f.list)' /\ node'[f.succs[0].to].key = f.key
    BY <2>1, <2>3, GrowSets, SearchedGrow DEF FrameInv, FindInv
  <2> QED BY <2>1, <2>2, <2>3 DEF FindInv
<1>2. NewInv(f)'
  <2>1. f.top \in Levels
    BY DEF Frames
  <2> QED BY <2>1, GrowSets DEF FrameInv, NewInv, IsLinking
<1>3. NodeInv(f)'
  BY GrowSets DEF FrameInv, NodeInv
<1>4. ReturnInv(f)'
  BY DEF FrameInv, ReturnInv
<1> QED BY <1>1, <1>2, <1>3, <1>4 DEF FrameInv
-----------------------------------------------------------------------------
(***************************************************************************)
(* Every step but the two that link: no list, key or link changes, and the *)
(* acting thread gets a frame that is good before the step.                *)
(***************************************************************************)
Quiet ==
  /\ \A n \in AllNodes : /\ node'[n].list = node[n].list /\ node'[n].key = node[n].key
                         /\ \A i \in Levels : Word(n, i)'.to = Word(n, i).to
  /\ \A l \in Lists : IsMarked(TailNode(l))' => IsMarked(TailNode(l))

Moves(t) == \E g \in Frames : frame' = [frame EXCEPT ![t] = g] /\ FrameInv(g)

LEMMA UnchangedQuiet == node' = node => Quiet
BY DEF Quiet, Word, IsMarked

LEMMA QuietGrows == Quiet => Grow
BY DEF Quiet, Grow

LEMMA QuietSets ==
  ASSUME Quiet, NEW l \in Lists
  PROVE  Linked(l)' = Linked(l) /\ \A i \in Levels : OnLevel(l, i)' = OnLevel(l, i)
<1>1. \A n \in Nodes : n \in AllNodes
  BY Numbers
<1>2. Linked(l)' = Linked(l)
  BY <1>1 DEF Quiet, Linked
<1> QED BY <1>1, <1>2 DEF Quiet, OnLevel, Linked

LEMMA LinkTargets ==
  ASSUME StateType, NEW n \in AllNodes, NEW i \in Levels
  PROVE  Word(n, i) \in Words /\ Word(n, i).to \in Refs
BY DEF StateType, NodeRecords, Words, Word

LEMMA QuietStructure ==
  ASSUME StateType, Structure, Quiet
  PROVE  Structure'
<1> USE DEF Structure
<1>1. ASSUME NEW l \in Lists
      PROVE  \A n \in Linked(l) \cup {HeadNode(l), TailNode(l)} :
               n \in AllNodes /\ node'[n].key = node[n].key
  BY Numbers DEF Quiet, Linked
<1>2. Sentinels'
  BY Numbers DEF Sentinels, Quiet
<1>3. Towers'
  <2> SUFFICES ASSUME NEW l \in Lists, NEW n \in Linked(l)
               PROVE  /\ node'[n].key \in 0 .. MaxKey - 1
                      /\ Word(n, 0)'.to # 0
                      /\ \A i, j \in Levels : j <= i /\ Word(n, i)'.to # 0 => Word(n, j)'.to # 0
    BY QuietSets DEF Towers
  <2> QED BY <1>1, Numbers DEF Towers, Quiet
<1>4. LevelsOrdered'
  <2> SUFFICES ASSUME NEW l \in Lists, NEW i \in Levels, NEW n \in OnLevel(l, i) \cup {HeadNode(l)}
               PROVE  /\ Word(n, i)'.to \in OnLevel(l, i) \cup {TailNode(l)}
                      /\ node'[n].key < node'[Word(n, i)'.to].key
    BY QuietSets DEF LevelsOrdered
  <2>1. n \in Linked(l) \cup {HeadNode(l)}
    BY DEF OnLevel
  <2>2. Word(n, i)'.to = Word(n, i).to
    BY <1>1, <2>1 DEF Quiet
  <2>3. Word(n, i).to \in OnLevel(l, i) \cup {TailNode(l)} /\ node[n].key < node[Word(n, i).to].key
    BY DEF LevelsOrdered
  <2>4. Word(n, i).to \in Linked(l) \cup {TailNode(l)}
    BY <2>3 DEF OnLevel
  <2> QED BY <1>1, <2>1, <2>2, <2>3, <2>4
<1>5. Gapless'
  <2> SUFFICES ASSUME NEW l \in Lists, NEW n \in Linked(l) \cup {HeadNode(l)}, NEW m \in Linked(l),
                      node'[n].key < node'[m].key
               PROVE  node'[Word(n, 0)'.to].key <= node'[m].key
    BY QuietSets DEF Gapless
  <2>1. Word(n, 0)'.to = Word(n, 0).to
    BY <1>1, Numbers DEF Quiet
  <2>2. n \in OnLevel(l, 0) \cup {HeadNode(l)}
    BY DEF Towers, OnLevel
  <2>3. Word(n, 0).to \in Linked(l) \cup {TailNode(l)}
    BY <2>2, Numbers DEF LevelsOrdered, OnLevel
  <2> QED BY <1>1, <2>1, <2>3 DEF Gapless
<1>6. KeysUnique'
  BY <1>1, QuietSets DEF KeysUnique
<1> QED BY <1>2, <1>3, <1>4, <1>5, <1>6

\* What the invariant says of the thread that moves.
LEMMA ActorFrame ==
  ASSUME LInv, NEW t \in Threads
  PROVE  frame[t] \in Frames /\ FrameInv(frame[t]) /\ frame \in [Threads -> Frames]
BY DEF LInv, StateType, FramesInv

LEMMA FrameMoves ==
  ASSUME LInv, NEW t \in Threads, NEW g, frame' = [frame EXCEPT ![t] = g]
  PROVE  frame'[t] = g
BY DEF LInv, StateType

LEMMA NotLinking ==
  ASSUME LInv, NEW t \in Threads,
         frame[t].pc \notin {"linkUp", "count", "find"}
  PROVE  frame[t].new = 0
BY ActorFrame DEF FrameInv, NewInv, IsLinking

\* Keys of a list: those of nodes lie between those of head_ and tail_.
LEMMA ListKeys ==
  ASSUME LInv, NEW l \in Lists
  PROVE  /\ \A n \in Linked(l) : node[n].key \in 0 .. MaxKey - 1 /\ n \in AllNodes
         /\ node[HeadNode(l)].key = -1 /\ node[TailNode(l)].key = MaxKey
         /\ ~IsMarked(TailNode(l))
BY Numbers DEF LInv, Structure, Towers, Sentinels, Linked

LEMMA FindStepMoves ==
  ASSUME LInv, NEW t \in Threads, FindStep(t)
  PROVE  Moves(t)
<1> DEFINE f == frame[t]
           w == Word(f.pred, f.level)
           k == node[w.to].key
           l == f.list
           g == [f EXCEPT !.preds[f.level] = f.pred, !.succs[f.level] = w, !.found = @ \/ k = f.key]
<1>1. f \in Frames /\ FrameInv(f) /\ f.pc = "find" /\ l \in Lists /\ f.key \in 0 .. MaxKey - 1
      /\ f.level \in Levels /\ f.pred \in Before(l, f.level, f.key)
  BY ActorFrame DEF FindStep, At, FrameInv, FindInv, Frames
<1>2. f.pred \in OnLevel(l, f.level) \cup {HeadNode(l)} /\ f.pred \in AllNodes /\ node[f.pred].key < f.key
  BY <1>1, Numbers DEF Before, OnLevel, Linked
<1>3. /\ w \in Words /\ w.to \in OnLevel(l, f.level) \cup {TailNode(l)} /\ node[f.pred].key < k
      /\ w.to \in AllNodes
  BY <1>1, <1>2, LinkTargets, Numbers DEF LInv, Structure, LevelsOrdered, OnLevel, Linked
<1>4. k \in Int /\ node[TailNode(l)].key = MaxKey
  BY <1>1, <1>3 DEF LInv, StateType, NodeRecords, Structure, Sentinels
<1>5. CASE k < f.key /\ SetFrame(t, [f EXCEPT !.pred = w.to])
  <2> DEFINE h == [f EXCEPT !.pred = w.to]
  <2>1. h \in Frames
    BY <1>1, <1>3, Numbers DEF Frames
  <2>2. w.to \in Before(l, f.level, f.key)
    BY <1>1, <1>3, <1>4, <1>5, ListAssumption DEF Before
  <2>3. FindInv(h)
    BY <1>1, <2>2 DEF FrameInv, FindInv, Frames, Searched, SearchLabels
  <2>4. NewInv(h) /\ NodeInv(h) /\ ReturnInv(h)
    BY <1>1, <2>2 DEF FrameInv, NewInv, NodeInv, ReturnInv, Frames, IsLinking, SearchLabels, NodeLabels,
                      MarkLabels, IterateLabels, VisitLabels
  <2> QED BY <1>5, <2>1, <2>3, <2>4 DEF Moves, SetFrame, FrameInv
<1>6. ASSUME k >= f.key
      PROVE  /\ g \in Frames
             /\ g.pc = "find" /\ g.list = l /\ g.key = f.key /\ g.level = f.level /\ g.pred = f.pred
             /\ g.n = f.n /\ g.new = f.new /\ g.top = f.top /\ g.up = f.up /\ g.ret = f.ret /\ g.after = f.after
             /\ \A i \in Levels : i >= f.level => Searched(g, i)
             /\ g.succs[f.level] = w /\ g.found = (f.found \/ k = f.key)
             /\ g.found => \E m \in Linked(l) : node[m].key = f.key
  <2>1. f.preds \in [Levels -> Refs] /\ f.succs \in [Levels -> Words] /\ f.found \in BOOLEAN /\ f.pred \in Refs
    BY <1>1 DEF Frames
  <2>2. /\ g.preds = [f.preds EXCEPT ![f.level] = f.pred] /\ g.succs = [f.succs EXCEPT ![f.level] = w]
        /\ g.found = (f.found \/ k = f.key)
    BY <1>1 DEF Frames
  <2>3. g \in Frames
    BY <1>1, <1>3, <2>1 DEF Frames
  <2>4. /\ g.pc = "find" /\ g.list = l /\ g.key = f.key /\ g.level = f.level /\ g.pred = f.pred
        /\ g.n = f.n /\ g.new = f.new /\ g.top = f.top /\ g.up = f.up /\ g.ret = f.ret /\ g.after = f.after
    BY <1>1 DEF Frames
  <2>5. w.to \in Behind(l, f.level, f.key)
    BY <1>3, <1>6 DEF Behind
  <2>6. \A i \in Levels : i >= f.level => Searched(g, i)
    <3> SUFFICES ASSUME NEW i \in Levels, i >= f.level PROVE Searched(g, i)
      OBVIOUS
    <3>1. CASE i = f.level
      <4>1. g.preds[i] = f.pred /\ g.succs[i] = w
        BY <1>1, <2>1, <2>2, <3>1
      <4> HIDE DEF g, w
      <4> QED BY <1>1, <2>2, <2>4, <2>5, <3>1, <4>1 DEF Searched
    <3>2. CASE i # f.level
      <4>1. i > f.level
        BY <1>1, <3>2 DEF Levels
      <4>2. Searched(f, i)
        BY <1>1, <4>1 DEF FrameInv, FindInv
      <4>3. g.preds[i] = f.preds[i] /\ g.succs[i] = f.succs[i]
        BY <2>1, <2>2, <3>2
      <4> QED BY <2>2, <2>4, <4>2, <4>3 DEF Searched
    <3> QED BY <3>1, <3>2
  <2>7. g.succs[f.level] = w
    BY <1>1, <2>1, <2>2
  <2>8. g.found => \E m \in Linked(l) : node[m].key = f.key
    <3>1. f.found => \E m \in Linked(l) : node[m].key = f.key
      BY <1>1 DEF FrameInv, FindInv
    <3>2. k = f.key => w.to \in Linked(l)
      BY <1>1, <1>3, <1>4, ListAssumption DEF OnLevel
    <3> QED BY <2>2, <3>1, <3>2
  <2> QED BY <2>2, <2>3, <2>4, <2>6, <2>7, <2>8
<1>7. f.n = 0 /\ f.after \in SearchLabels /\ f.ret \in FindReturns /\ NewInv(f)
  BY <1>1 DEF FrameInv, FindInv, ReturnInv
<1>8. CASE k >= f.key /\ f.level > 0 /\ SetFrame(t, [g EXCEPT !.level = @ - 1])
  <2> DEFINE h == [g EXCEPT !.level = @ - 1]
  <2>1. f.level - 1 \in Levels
    BY <1>1, <1>8, ListAssumption DEF Levels
  <2>2. /\ h \in Frames
        /\ h.pc = "find" /\ h.list = l /\ h.key = f.key /\ h.level = f.level - 1 /\ h.pred = f.pred
        /\ h.n = f.n /\ h.new = f.new /\ h.top = f.top /\ h.up = f.up /\ h.ret = f.ret /\ h.after = f.after
        /\ h.preds = g.preds /\ h.succs = g.succs /\ h.found = g.found
    BY <1>6, <1>8, <2>1 DEF Frames
  <2>3. f.pred \in Before(l, f.level - 1, f.key)
    <3>1. f.pred \in OnLevel(l, f.level - 1) \cup {HeadNode(l)}
      BY <1>1, <1>2, <2>1 DEF LInv, Structure, Towers, OnLevel, Levels
    <3> QED BY <1>2, <3>1 DEF Before
  <2>4. \A i \in Levels : i > f.level - 1 => Searched(h, i)
    <3>1. \A i \in Levels : i > f.level - 1 => i >= f.level
      BY <1>1 DEF Levels
    <3> QED BY <1>6, <1>8, <2>2, <3>1 DEF Searched
  <2>5. FindInv(h)
    <3> HIDE DEF g, h
    <3> QED BY <1>1, <1>6, <1>7, <1>8, <2>2, <2>3, <2>4 DEF FindInv, SearchLabels
  <2>6. NewInv(h)
    BY <1>1, <1>7, <2>2 DEF NewInv, IsLinking
  <2>7. NodeInv(h) /\ ReturnInv(h)
    BY <1>7, <2>2 DEF NodeInv, ReturnInv, NodeLabels, MarkLabels, IterateLabels, VisitLabels
  <2> QED BY <1>8, <2>2, <2>5, <2>6, <2>7 DEF Moves, SetFrame, FrameInv
<1>9. CASE k >= f.key /\ f.level = 0 /\ SetFrame(t, [g EXCEPT !.pc = f.after, !.pred = 0])
  <2> DEFINE h == [g EXCEPT !.pc = f.after, !.pred = 0]
  <2>1. /\ h \in Frames
        /\ h.pc = f.after /\ h.list = l /\ h.key = f.key
        /\ h.n = f.n /\ h.new = f.new /\ h.top = f.top /\ h.up = f.up /\ h.ret = f.ret
        /\ h.preds = g.preds /\ h.succs = g.succs /\ h.found = g.found
    <3>1. f.after \in Labels
      BY <1>1 DEF Frames
    <3> QED BY <1>6, <1>9, <3>1, Numbers DEF Frames
  <2>2. \A i \in Levels : Searched(h, i)
    <3>1. \A i \in Levels : i >= f.level
      BY <1>9, ListAssumption DEF Levels
    <3> QED BY <1>6, <1>9, <2>1, <3>1 DEF Searched
  <2>3. ASSUME h.found PROVE h.succs[0].to \in Linked(l) /\ node[h.succs[0].to].key = f.key
    <3>1. PICK m \in Linked(l) : node[m].key = f.key
      BY <1>6, <1>9, <2>1, <2>3
    <3>2. f.pred \in Linked(l) \cup {HeadNode(l)}
      BY <1>2 DEF OnLevel
    <3>3. k <= f.key
      BY <1>1, <1>2, <1>9, <3>1, <3>2 DEF LInv, Structure, Gapless
    <3>4. k = f.key
      BY <1>1, <1>4, <1>9, <3>3
    <3>5. w.to \in Linked(l)
      BY <1>1, <1>3, <1>4, <3>4, ListAssumption DEF OnLevel
    <3> QED BY <1>6, <1>9, <2>1, <3>4, <3>5
  <2>4. FindInv(h)
    BY <1>1, <1>6, <1>7, <1>9, <2>1, <2>2, <2>3 DEF FindInv, SearchLabels
  <2>5. NewInv(h)
    BY <1>1, <1>7, <2>1 DEF NewInv, IsLinking, SearchLabels
  <2>6. NodeInv(h) /\ ReturnInv(h)
    BY <1>7, <2>1 DEF NodeInv, ReturnInv, SearchLabels, NodeLabels, MarkLabels, IterateLabels, VisitLabels
  <2> QED BY <1>9, <2>1, <2>4, <2>5, <2>6 DEF Moves, SetFrame, FrameInv
<1> QED BY <1>5, <1>8, <1>9 DEF FindStep
-----------------------------------------------------------------------------
(***************************************************************************)
(* The frames operations go on with.                                       *)
(***************************************************************************)
LEMMA DoneFrame ==
  ASSUME NEW f \in Frames, f.list \in Lists, f.ret \in FindReturns,
         NEW n \in Refs, n # 0 => n \in Linked(f.list), NEW h \in Handles \cup {None}
  PROVE  Done(f, n, h) \in Frames /\ FrameInv(Done(f, n, h))
<1>1. CASE f.ret = "idle"
  BY <1>1, IdleType, IdleFrame DEF Done
<1>2. CASE f.ret # "idle"
  <2> DEFINE g == [Idle EXCEPT !.pc = f.ret, !.list = f.list, !.n = n, !.h = h]
  <2>1. g \in Frames
    BY IdleType DEF Frames
  <2>2. g.pc \in {"marking", "inserted", "evictNode"} /\ g.list = f.list /\ g.n = n /\ g.new = 0 /\ g.after \in IterateEnds
    BY <1>2, LabelType DEF Idle, FindReturns
  <2> HIDE DEF g
  <2>3. FrameInv(g)
    BY <2>2 DEF FrameInv, FindInv, NewInv, NodeInv, ReturnInv, SearchLabels, MarkLabels, IterateLabels,
                VisitLabels,
                NodeLabels, IsLinking
  <2> QED BY <1>2, <2>1, <2>3 DEF Done, g
<1> QED BY <1>1, <1>2

LEMMA FindFrame ==
  ASSUME Structure, NEW f \in Frames, f.list \in Lists, NEW k \in 0 .. MaxKey - 1,
         NEW a \in SearchLabels, f.n = 0, f.ret \in FindReturns,
         a # "linkUp" => f.new = 0,
         a = "linkUp" => /\ f.new \in OnLevel(f.list, f.top) /\ node[f.new].key = k
                         /\ f.up \in 1 .. f.top
  PROVE  Find(f, k, a) \in Frames /\ FrameInv(Find(f, k, a))
<1> DEFINE g == Find(f, k, a)
<1>1. HeadNode(f.list) \in Refs /\ a \in Labels /\ "find" \in Labels /\ MaxLevel \in Levels /\ k \in 0 .. MaxKey
  BY Numbers, ListAssumption DEF Labels, SearchLabels
<1>2. g \in Frames
  BY <1>1, NullType DEF Frames, Find
<1>3. /\ g.pc = "find" /\ g.after = a /\ g.key = k /\ g.level = MaxLevel /\ g.pred = HeadNode(f.list)
      /\ g.found = FALSE /\ g.list = f.list /\ g.n = 0 /\ g.ret = f.ret
      /\ g.new = f.new /\ g.top = f.top /\ g.up = f.up
  BY DEF Find, Frames
<1> HIDE DEF g
<1>4. HeadNode(f.list) \in Before(f.list, MaxLevel, k)
  BY ListAssumption DEF Structure, Sentinels, Before
<1>5. FindInv(g)
  <2>1. \A i \in Levels : ~(i > MaxLevel)
    BY ListAssumption DEF Levels
  <2> QED BY <1>3, <1>4, <2>1 DEF FindInv, SearchLabels
<1>6. NewInv(g)
  <2>1. f.new # 0 <=> a = "linkUp"
    BY Numbers DEF OnLevel, Linked, Nodes
  <2>2. a = "linkUp" => f.new \in Linked(f.list)
    BY DEF OnLevel
  <2> QED BY <1>3, <2>1, <2>2 DEF NewInv, IsLinking
<1>7. NodeInv(g) /\ ReturnInv(g)
  BY <1>3 DEF NodeInv, ReturnInv, NodeLabels, SearchLabels, MarkLabels, IterateLabels, VisitLabels
<1> QED BY <1>2, <1>5, <1>6, <1>7 DEF FrameInv, g

LEMMA CountingType ==
  ASSUME NEW f \in Frames, NEW n \in Nodes
  PROVE  /\ Counting(f, n) \in Frames
         /\ Counting(f, n).pc = "count" /\ Counting(f, n).ret = f.ret /\ Counting(f, n).list = f.list
         /\ Counting(f, n).new = n /\ Counting(f, n).n = 0
<1>1. "count" \in Labels
  BY LabelType
<1>2. Counting(f, n) \in Frames
  BY <1>1, IdleType DEF Counting, Frames
<1> QED BY <1>2 DEF Counting, Idle

LEMMA CountingFrame ==
  ASSUME NEW f \in Frames, f.list \in Lists, f.ret \in FindReturns, NEW n \in Linked(f.list)
  PROVE  Counting(f, n) \in Frames /\ FrameInv(Counting(f, n))
<1>1. n \in Nodes /\ n # 0
  BY DEF Linked, Nodes
<1> QED
  BY <1>1, CountingType
  DEF FrameInv, FindInv, NewInv, NodeInv, ReturnInv, SearchLabels, MarkLabels, IterateLabels, VisitLabels,
      NodeLabels, IsLinking

LEMMA MarkedFrame ==
  ASSUME NEW f \in Frames, FrameInv(f), f.pc \in MarkLabels, NEW c \in Nat
  PROVE  Marked(f, c) \in Frames /\ FrameInv(Marked(f, c))
<1>1. CASE f.ret = "idle"
  BY <1>1, IdleType, IdleFrame DEF Marked
<1>2. CASE f.ret # "idle"
  <2> DEFINE g == [f EXCEPT !.pc = f.ret, !.word = NullWord, !.counted = FALSE, !.charge = c]
  <2>1. g \in Frames
    BY NullType DEF Frames
  <2>2. f.ret \in {"visited", "evicted", "decayed"} /\ f.after \in IterateEnds /\ f.new = 0 /\ f.n # 0 /\ f.list \in Lists /\ f.n \in Linked(f.list)
    BY <1>2 DEF FrameInv, ReturnInv, NewInv, NodeInv, IsLinking, MarkLabels, NodeLabels, VisitLabels,
                MarkReturns
  <2>3. g.pc \in {"visited", "evicted", "decayed"} /\ g.after \in IterateEnds /\ g.list = f.list /\ g.n = f.n /\ g.new = 0
    BY <2>2 DEF Frames
  <2> HIDE DEF g
  <2>4. FrameInv(g)
    BY <2>2, <2>3 DEF FrameInv, FindInv, NewInv, NodeInv, ReturnInv, SearchLabels, MarkLabels, IterateLabels,
                      VisitLabels,
                      NodeLabels, IsLinking
  <2> QED BY <1>2, <2>1, <2>4 DEF Marked, g
<1> QED BY <1>1, <1>2

LEMMA IterateOnFrame ==
  ASSUME NEW f \in Frames, f.list \in Lists, f.n \in Linked(f.list), f.after \in IterateEnds, f.new = 0
  PROVE  IterateOn(f) \in Frames /\ FrameInv(IterateOn(f))
<1> DEFINE g == IterateOn(f)
<1>1. g \in Frames
  <2>1. "iterate" \in Labels /\ "idle" \in Labels /\ 0 \in Refs /\ 0 \in Nat
    BY LabelType, Numbers DEF IterateLabels, VisitLabels
  <2> QED BY <2>1 DEF Frames, IterateOn
<1>2. g.pc = "iterate" /\ g.after \in IterateEnds /\ g.list = f.list /\ g.n = 0 /\ g.new = 0 /\ g.pred = f.n
  BY DEF Frames, IterateOn
<1> HIDE DEF g
<1>3. FrameInv(g)
  BY <1>2 DEF FrameInv, FindInv, NewInv, NodeInv, ReturnInv, SearchLabels, MarkLabels, IterateLabels,
              VisitLabels,
              NodeLabels, IsLinking
<1> QED BY <1>1, <1>3 DEF g
-----------------------------------------------------------------------------
(***************************************************************************)
(* Steps that change a node and no link.                                   *)
(***************************************************************************)
LEMMA SetHitQuiet ==
  ASSUME StateType, NEW n \in AllNodes, NEW x \in 0 .. MaxHitCount,
         node' = [node EXCEPT ![n].hit = x]
  PROVE  node' \in [AllNodes -> NodeRecords] /\ Quiet
<1>1. node \in [AllNodes -> NodeRecords]
  BY DEF StateType
<1>2. node' \in [AllNodes -> NodeRecords]
  BY <1>1 DEF NodeRecords
<1>3. \A m \in AllNodes : node'[m].list = node[m].list /\ node'[m].key = node[m].key /\ node'[m].nexts = node[m].nexts
  BY <1>1 DEF NodeRecords
<1> QED BY <1>2, <1>3, Numbers DEF Quiet, Word, IsMarked

LEMMA SetHandleQuiet ==
  ASSUME StateType, NEW n \in AllNodes, NEW h \in Handles \cup {None},
         node' = [node EXCEPT ![n].handle = h]
  PROVE  node' \in [AllNodes -> NodeRecords] /\ Quiet
<1>1. node \in [AllNodes -> NodeRecords]
  BY DEF StateType
<1>2. node' \in [AllNodes -> NodeRecords]
  BY <1>1 DEF NodeRecords
<1>3. \A m \in AllNodes : node'[m].list = node[m].list /\ node'[m].key = node[m].key /\ node'[m].nexts = node[m].nexts
  BY <1>1 DEF NodeRecords
<1> QED BY <1>2, <1>3, Numbers DEF Quiet, Word, IsMarked

\* What SetWord does to the words of all nodes.
LEMMA SetWordEffect ==
  ASSUME StateType, NEW n \in AllNodes, NEW i \in Levels, NEW w \in Words, SetWord(n, i, w)
  PROVE  /\ node' \in [AllNodes -> NodeRecords]
         /\ \A m \in AllNodes : node'[m].list = node[m].list /\ node'[m].key = node[m].key
         /\ \A m \in AllNodes : \A j \in Levels :
              Word(m, j)' = IF m = n /\ j = i THEN w ELSE Word(m, j)
<1>1. node \in [AllNodes -> NodeRecords] /\ node[n].nexts \in [Levels -> Words]
  BY DEF StateType, NodeRecords
<1>2. node' = [node EXCEPT ![n] = [node[n] EXCEPT !.nexts = [node[n].nexts EXCEPT ![i] = w]]]
  BY DEF SetWord
<1>3. [node[n].nexts EXCEPT ![i] = w] \in [Levels -> Words]
  BY <1>1
<1> DEFINE r == [node[n] EXCEPT !.nexts = [node[n].nexts EXCEPT ![i] = w]]
<1>4. /\ r \in NodeRecords /\ r.list = node[n].list /\ r.key = node[n].key
      /\ r.nexts = [node[n].nexts EXCEPT ![i] = w]
  BY <1>1, <1>3 DEF NodeRecords
<1> HIDE DEF r
<1>5. node' = [node EXCEPT ![n] = r]
  BY <1>2 DEF r
<1>6. node' \in [AllNodes -> NodeRecords]
  BY <1>1, <1>4, <1>5
<1>7. node'[n] = r /\ \A m \in AllNodes : m # n => node'[m] = node[m]
  BY <1>1, <1>5
<1>8. \A m \in AllNodes : node'[m].list = node[m].list /\ node'[m].key = node[m].key
  BY <1>4, <1>7
<1>9. ASSUME NEW m \in AllNodes, NEW j \in Levels
      PROVE  Word(m, j)' = IF m = n /\ j = i THEN w ELSE Word(m, j)
  BY <1>1, <1>4, <1>7 DEF Word
<1> QED BY <1>6, <1>8, <1>9

LEMMA SetMarkQuiet ==
  ASSUME StateType, NEW l \in Lists, NEW n \in Linked(l), NEW w \in Words, w.to = Word(n, 0).to,
         SetWord(n, 0, w)
  PROVE  node' \in [AllNodes -> NodeRecords] /\ Quiet
<1>1. n \in AllNodes /\ 0 \in Levels /\ \A k \in Lists : TailNode(k) # n /\ TailNode(k) \in AllNodes
  BY Numbers DEF Linked
<1>2. /\ node' \in [AllNodes -> NodeRecords]
      /\ \A m \in AllNodes : node'[m].list = node[m].list /\ node'[m].key = node[m].key
      /\ \A m \in AllNodes : \A j \in Levels : Word(m, j)' = IF m = n /\ j = 0 THEN w ELSE Word(m, j)
  BY <1>1, SetWordEffect
<1>3. \A k \in Lists : IsMarked(TailNode(k))' => IsMarked(TailNode(k))
  BY <1>1, <1>2 DEF IsMarked
<1>4. \A m \in AllNodes : \A j \in Levels : Word(m, j)'.to = Word(m, j).to
  BY <1>2
<1> QED BY <1>2, <1>3, <1>4 DEF Quiet
-----------------------------------------------------------------------------
(***************************************************************************)
(* The steps of Get.                                                       *)
(***************************************************************************)
LEMMA GetNodeMoves ==
  ASSUME LInv, NEW t \in Threads, GetNode(t)
  PROVE  Moves(t)
<1> DEFINE f == frame[t]
           n == f.succs[0].to
           g == [Idle EXCEPT !.pc = "getHandle", !.ret = f.ret, !.list = f.list, !.n = n]
<1>1. /\ f \in Frames /\ f.pc \in {"getNode", "getFor"} /\ f.list \in Lists /\ f.ret \in FindReturns
      /\ f.found => n \in Linked(f.list)
  BY ActorFrame DEF GetNode, At, FrameInv, FindInv, ReturnInv, SearchLabels
<1>2. 0 \in Refs /\ None \in Handles \cup {None}
  BY Numbers
<1>3. CASE SetFrame(t, Done(f, 0, None))
  BY <1>1, <1>2, <1>3, DoneFrame DEF Moves, SetFrame
<1>4. ASSUME f.found PROVE n \in Linked(f.list) /\ n \in Refs /\ n # 0
  BY <1>1, <1>4, Numbers DEF Linked, Nodes
<1>5. CASE f.found /\ SetFrame(t, Done(f, n, None))
  BY <1>1, <1>2, <1>4, <1>5, DoneFrame DEF Moves, SetFrame
<1>6. CASE f.found /\ SetFrame(t, g)
  <2>1. f.ret \in Labels /\ "getHandle" \in Labels
    BY <1>1, LabelType DEF Frames
  <2>2. g \in Frames
    BY <1>1, <1>4, <1>6, <2>1, IdleType DEF Frames
  <2>3. g.pc = "getHandle" /\ g.ret = f.ret /\ g.list = f.list /\ g.n = n /\ g.new = 0
    BY DEF Idle
  <2> HIDE DEF g
  <2>4. FrameInv(g)
    BY <1>1, <1>4, <1>6, <2>3
    DEF FrameInv, FindInv, NewInv, NodeInv, ReturnInv, SearchLabels, MarkLabels, IterateLabels, VisitLabels,
        NodeLabels, IsLinking
  <2> QED BY <1>6, <2>2, <2>4 DEF Moves, SetFrame
<1> QED BY <1>3, <1>5, <1>6 DEF GetNode

\* What the invariant says of a frame that has a node in its hands.
LEMMA NodeInHand ==
  ASSUME NEW f \in Frames, FrameInv(f), f.pc \in NodeLabels \ {"iterateMarked"}
  PROVE  /\ f.list \in Lists /\ f.n \in Linked(f.list) /\ f.n \in AllNodes /\ f.n # 0 /\ f.new = 0
         /\ f.pc \in {"getHandle", "getHit"} => f.ret \in FindReturns
         /\ f.pc \in MarkLabels => f.ret \in MarkReturns
         /\ f.pc \in MarkLabels \cup IterateLabels => f.after \in IterateEnds
<1>1. f.list \in Lists /\ f.n \in Linked(f.list) /\ f.n # 0 /\ f.new = 0
  BY DEF FrameInv, NodeInv, NewInv, IsLinking, NodeLabels, VisitLabels, MarkLabels
<1>2. f.n \in AllNodes
  BY <1>1, Numbers DEF Linked
<1> QED BY <1>1, <1>2 DEF FrameInv, ReturnInv

\* A step that only changes locals and goes from one node label to another.
LEMMA NodeFrame ==
  ASSUME NEW g \in Frames, g.list \in Lists, g.n \in Linked(g.list), g.new = 0,
         g.pc \in NodeLabels,
         g.pc \in {"getHandle", "getHit"} => g.ret \in FindReturns,
         g.pc \in MarkLabels => g.ret \in MarkReturns,
         g.pc \in MarkLabels \cup IterateLabels => g.after \in IterateEnds
  PROVE  FrameInv(g)
<1>1. g.n # 0
  BY DEF Linked, Nodes
<1>2. g.pc \notin {"find", "count", "iterate", "marking", "evictNode"} \cup SearchLabels
  BY DEF NodeLabels, VisitLabels, SearchLabels, MarkLabels
<1>3. FindInv(g)
  BY <1>2 DEF FindInv
<1>4. NewInv(g)
  BY <1>2 DEF NewInv, IsLinking, SearchLabels
<1>5. NodeInv(g)
  BY <1>1, <1>2 DEF NodeInv
<1>6. ReturnInv(g)
  BY <1>2 DEF ReturnInv
<1> QED BY <1>3, <1>4, <1>5, <1>6 DEF FrameInv

LEMMA GetHandleMoves ==
  ASSUME LInv, NEW t \in Threads, GetHandle(t)
  PROVE  Moves(t)
<1> DEFINE f == frame[t]
           g == [f EXCEPT !.h = node[f.n].handle, !.pc = "getHit"]
<1>1. f \in Frames /\ FrameInv(f) /\ f.pc = "getHandle"
  BY ActorFrame DEF GetHandle, At
<1>2. f.list \in Lists /\ f.n \in Linked(f.list) /\ f.n \in AllNodes /\ f.new = 0 /\ f.ret \in FindReturns
  BY <1>1, NodeInHand DEF NodeLabels, VisitLabels
<1>3. node[f.n].handle \in Handles \cup {None} /\ "getHit" \in Labels
  BY <1>2, LabelType DEF LInv, StateType, NodeRecords
<1>4. g \in Frames
  BY <1>1, <1>3 DEF Frames
<1>5. g.pc = "getHit" /\ g.list = f.list /\ g.n = f.n /\ g.new = f.new /\ g.ret = f.ret
  BY <1>1 DEF Frames
<1>6. SetFrame(t, g)
  BY DEF GetHandle
<1> HIDE DEF g
<1>7. FrameInv(g)
  BY <1>1, <1>2, <1>4, <1>5, NodeFrame DEF NodeLabels, MarkLabels, IterateLabels, VisitLabels
<1> QED BY <1>4, <1>6, <1>7 DEF Moves, SetFrame

LEMMA GetHitMoves ==
  ASSUME LInv, NEW t \in Threads, GetHit(t)
  PROVE  Moves(t) /\ node' \in [AllNodes -> NodeRecords] /\ Quiet
<1> DEFINE f == frame[t]
<1>1. f \in Frames /\ FrameInv(f) /\ f.pc = "getHit"
  BY ActorFrame DEF GetHit, At
<1>2. f.list \in Lists /\ f.n \in AllNodes /\ f.ret \in FindReturns
  BY <1>1, NodeInHand DEF NodeLabels, VisitLabels
<1>3. Moves(t)
  BY <1>1, <1>2, Numbers, DoneFrame DEF GetHit, Moves, SetFrame, Frames
<1>4. node[f.n].hit \in 0 .. MaxHitCount
  BY <1>2 DEF LInv, StateType, NodeRecords
<1>5. IncrHitCount(node[f.n].hit) \in 0 .. MaxHitCount
  BY <1>4, ListAssumption DEF IncrHitCount
<1>6. node' = [node EXCEPT ![f.n].hit = IncrHitCount(node[f.n].hit)]
  BY DEF GetHit
<1> QED BY <1>2, <1>3, <1>5, <1>6, SetHitQuiet DEF LInv
-----------------------------------------------------------------------------
(***************************************************************************)
(* The steps of Insert that link nothing.                                  *)
(***************************************************************************)
LEMMA UpdateHandleMoves ==
  ASSUME LInv, NEW t \in Threads, UpdateHandle(t)
  PROVE  Moves(t) /\ node' \in [AllNodes -> NodeRecords] /\ Quiet
<1> DEFINE f == frame[t]
           n == f.succs[0].to
<1>1. /\ f \in Frames /\ f.list \in Lists /\ f.ret \in FindReturns /\ n \in Linked(f.list)
  BY ActorFrame DEF UpdateHandle, At, FrameInv, FindInv, ReturnInv, SearchLabels
<1>2. n \in AllNodes /\ 0 \in Refs
  BY <1>1, Numbers DEF Linked
<1>3. node[n].handle \in Handles \cup {None} /\ f.h \in Handles \cup {None}
  BY <1>1, <1>2 DEF LInv, StateType, NodeRecords, Frames
<1>4. Moves(t)
  BY <1>1, <1>2, <1>3, DoneFrame DEF UpdateHandle, Moves, SetFrame
<1>5. node' = [node EXCEPT ![n].handle = f.h]
  BY DEF UpdateHandle
<1> QED BY <1>2, <1>3, <1>4, <1>5, SetHandleQuiet DEF LInv

LEMMA LinkBottomFailsMoves ==
  ASSUME LInv, NEW t \in Threads, LinkBottomFails(t)
  PROVE  Moves(t)
<1> DEFINE f == frame[t]
           g == [f EXCEPT !.h = None]
<1>1. /\ f \in Frames /\ f.list \in Lists /\ f.ret \in FindReturns /\ f.key \in 0 .. MaxKey - 1
      /\ f.n = 0 /\ f.new = 0
  BY ActorFrame DEF LinkBottomFails, At, FrameInv, FindInv, ReturnInv, NewInv, IsLinking, SearchLabels
<1>2. g \in Frames /\ g.list = f.list /\ g.ret = f.ret /\ g.n = 0 /\ g.new = 0
  BY <1>1 DEF Frames
<1>3. SetFrame(t, Find(g, f.key, "insert"))
  BY DEF LinkBottomFails
<1> HIDE DEF g
<1>4. "insert" \in SearchLabels /\ "insert" # "linkUp"
  BY DEF SearchLabels
<1>5. Find(g, f.key, "insert") \in Frames /\ FrameInv(Find(g, f.key, "insert"))
  BY <1>1, <1>2, <1>4, FindFrame DEF LInv
<1> QED BY <1>3, <1>5 DEF Moves, SetFrame

\* What the invariant says of an Insert that is linking upper levels.
LEMMA LinkUpFrame ==
  ASSUME LInv, NEW t \in Threads, At(t, "linkUp")
  PROVE  /\ frame[t] \in Frames /\ FrameInv(frame[t]) /\ frame[t].list \in Lists
         /\ frame[t].ret \in FindReturns /\ frame[t].key \in 0 .. MaxKey - 1 /\ frame[t].n = 0
         /\ frame[t].top \in Levels /\ frame[t].up \in 1 .. frame[t].top /\ frame[t].up \in Levels
         /\ frame[t].new \in Linked(frame[t].list) /\ frame[t].new \in OnLevel(frame[t].list, frame[t].top)
         /\ node[frame[t].new].key = frame[t].key
         /\ \A i \in Levels : Searched(frame[t], i)
<1> DEFINE f == frame[t]
<1>1. f \in Frames /\ FrameInv(f) /\ f.pc = "linkUp" /\ f.top \in Levels
  BY ActorFrame DEF At, Frames
<1>2. IsLinking(f) /\ f.pc \in SearchLabels
  BY <1>1 DEF IsLinking, SearchLabels
<1>3. /\ f.list \in Lists /\ f.key \in 0 .. MaxKey - 1 /\ f.n = 0 /\ \A i \in Levels : Searched(f, i)
  BY <1>1, <1>2 DEF FrameInv, FindInv
<1>4. /\ f.new \in Linked(f.list) /\ f.new \in OnLevel(f.list, f.top)
      /\ f.up \in 1 .. f.top /\ node[f.new].key = f.key
  BY <1>1, <1>2 DEF FrameInv, NewInv
<1>5. f.up \in Levels
  BY <1>1, <1>4, ListAssumption DEF Levels
<1>6. f.ret \in FindReturns
  BY <1>1, <1>2 DEF FrameInv, ReturnInv
<1> QED BY <1>1, <1>3, <1>4, <1>5, <1>6

LEMMA LinkUpperFailsMoves ==
  ASSUME LInv, NEW t \in Threads, LinkUpperFails(t)
  PROVE  Moves(t)
<1> DEFINE f == frame[t]
<1>1. At(t, "linkUp") /\ SetFrame(t, Find(f, f.key, "linkUp"))
  BY DEF LinkUpperFails
<1>2. "linkUp" \in SearchLabels
  BY DEF SearchLabels
<1>3. Find(f, f.key, "linkUp") \in Frames /\ FrameInv(Find(f, f.key, "linkUp"))
  BY <1>1, <1>2, LinkUpFrame, FindFrame DEF LInv
<1> QED BY <1>1, <1>3 DEF Moves, SetFrame

LEMMA InsertCountMoves ==
  ASSUME LInv, NEW t \in Threads, InsertCount(t)
  PROVE  Moves(t) /\ counts' \in [Lists -> [nodes : Nat, marked : Nat]]
<1> DEFINE f == frame[t]
<1>1. f \in Frames /\ f.pc = "count" /\ f.list \in Lists /\ f.ret \in FindReturns
  BY ActorFrame DEF InsertCount, At, FrameInv, NewInv, IsLinking, ReturnInv
<1>2. Moves(t)
  BY <1>1, Numbers, DoneFrame DEF InsertCount, Moves, SetFrame
<1>3. counts' = [counts EXCEPT ![f.list] = [counts[f.list] EXCEPT !.nodes = counts[f.list].nodes + 1]]
  BY DEF InsertCount
<1>4. counts' \in [Lists -> [nodes : Nat, marked : Nat]]
  <2>1. counts[f.list] \in [nodes : Nat, marked : Nat] /\ counts \in [Lists -> [nodes : Nat, marked : Nat]]
    BY <1>1 DEF LInv, StateType
  <2>2. [counts[f.list] EXCEPT !.nodes = counts[f.list].nodes + 1] \in [nodes : Nat, marked : Nat]
    BY <2>1
  <2> QED BY <1>3, <2>1, <2>2
<1> QED BY <1>2, <1>4
-----------------------------------------------------------------------------
(***************************************************************************)
(* The steps of MarkDeleted.                                               *)
(***************************************************************************)
LEMMA MarkReadMoves ==
  ASSUME LInv, NEW t \in Threads, MarkRead(t)
  PROVE  Moves(t)
<1> DEFINE f == frame[t]
           g == [f EXCEPT !.word = Word(f.n, 0), !.pc = "markCas"]
<1>1. f \in Frames /\ FrameInv(f) /\ f.pc = "mark"
  BY ActorFrame DEF MarkRead, At
<1>2. /\ f.list \in Lists /\ f.n \in Linked(f.list) /\ f.n \in AllNodes /\ f.new = 0
      /\ f.ret \in MarkReturns /\ f.after \in IterateEnds
  BY <1>1, NodeInHand DEF NodeLabels, VisitLabels, MarkLabels
<1>3. Word(f.n, 0) \in Words /\ "markCas" \in Labels
  BY <1>2, LinkTargets, Numbers, LabelType DEF LInv, MarkLabels
<1>4. g \in Frames
  BY <1>1, <1>3 DEF Frames
<1>5. g.pc = "markCas" /\ g.list = f.list /\ g.n = f.n /\ g.new = f.new /\ g.ret = f.ret /\ g.after = f.after
  BY <1>1 DEF Frames
<1>6. SetFrame(t, g)
  BY DEF MarkRead
<1> HIDE DEF g
<1>7. FrameInv(g)
  BY <1>1, <1>2, <1>4, <1>5, NodeFrame DEF NodeLabels, MarkLabels, IterateLabels, VisitLabels
<1> QED BY <1>4, <1>6, <1>7 DEF Moves, SetFrame

LEMMA MarkCasMoves ==
  ASSUME LInv, NEW t \in Threads, MarkCas(t)
  PROVE  Moves(t) /\ node' \in [AllNodes -> NodeRecords] /\ Quiet
<1> DEFINE f == frame[t]
<1>1. f \in Frames /\ FrameInv(f) /\ f.pc = "markCas"
  BY ActorFrame DEF MarkCas, At
<1>2. /\ f.list \in Lists /\ f.n \in Linked(f.list) /\ f.n \in AllNodes /\ f.new = 0
      /\ f.ret \in MarkReturns /\ f.after \in IterateEnds
  BY <1>1, NodeInHand DEF NodeLabels, VisitLabels, MarkLabels
<1>3. Word(f.n, 0) \in Words /\ "markCas" \in Labels /\ "markHandle" \in Labels /\ f.word \in Words
  BY <1>1, <1>2, LinkTargets, Numbers, LabelType DEF LInv, MarkLabels, Frames
<1>4. CASE SetFrame(t, Marked(f, 0)) /\ UNCHANGED node
  <2>1. Moves(t)
    BY <1>1, <1>4, MarkedFrame DEF Moves, SetFrame, MarkLabels
  <2> QED BY <1>4, <2>1, UnchangedQuiet DEF LInv, StateType
<1>5. CASE /\ ~f.word.mark /\ SameWord(f.n, 0, f.word)
           /\ SetWord(f.n, 0, PackPtr(f.word.to, f.word.ver + 1, TRUE)) /\ Goto(t, "markHandle")
  <2> DEFINE w == PackPtr(f.word.to, f.word.ver + 1, TRUE)
             g == [f EXCEPT !.pc = "markHandle"]
  <2>1. f.word.to \in Refs /\ f.word.ver + 1 \in Nat
    BY <1>3, ListAssumption DEF Words
  <2>2. w \in Words /\ w.to = Word(f.n, 0).to
    <3>1. TRUE \in BOOLEAN
      OBVIOUS
    <3>2. w \in Words /\ w.to = f.word.to
      BY <2>1, <3>1, PackType
    <3> QED BY <1>5, <3>2 DEF SameWord
  <2> HIDE DEF w
  <2>3. node' \in [AllNodes -> NodeRecords] /\ Quiet
    BY <1>2, <1>5, <2>2, SetMarkQuiet DEF LInv, w
  <2>4. g \in Frames
    BY <1>1, <1>3 DEF Frames
  <2>5. g.pc = "markHandle" /\ g.list = f.list /\ g.n = f.n /\ g.new = f.new /\ g.ret = f.ret /\ g.after = f.after
    BY <1>1 DEF Frames
  <2>6. frame' = [frame EXCEPT ![t] = g]
    BY <1>5 DEF Goto
  <2> HIDE DEF g
  <2>7. FrameInv(g)
    BY <1>1, <1>2, <2>4, <2>5, NodeFrame DEF NodeLabels, MarkLabels, IterateLabels, VisitLabels
  <2> QED BY <2>3, <2>4, <2>6, <2>7 DEF Moves
<1>6. CASE SetFrame(t, [f EXCEPT !.word = Word(f.n, 0)]) /\ UNCHANGED node
  <2> DEFINE g == [f EXCEPT !.word = Word(f.n, 0)]
  <2>1. g \in Frames
    BY <1>1, <1>3 DEF Frames
  <2>2. g.pc = "markCas" /\ g.list = f.list /\ g.n = f.n /\ g.new = f.new /\ g.ret = f.ret /\ g.after = f.after
    BY <1>1 DEF Frames
  <2>3. SetFrame(t, g)
    BY <1>6
  <2> HIDE DEF g
  <2>4. FrameInv(g)
    BY <1>1, <1>2, <2>1, <2>2, NodeFrame DEF NodeLabels, MarkLabels, IterateLabels, VisitLabels
  <2>5. Moves(t)
    BY <2>1, <2>3, <2>4 DEF Moves, SetFrame
  <2> QED BY <1>6, <2>5, UnchangedQuiet DEF LInv, StateType
<1> QED BY <1>4, <1>5, <1>6 DEF MarkCas

LEMMA MarkHandleMoves ==
  ASSUME LInv, NEW t \in Threads, MarkHandle(t)
  PROVE  Moves(t) /\ node' \in [AllNodes -> NodeRecords] /\ Quiet
<1> DEFINE f == frame[t]
           c == Charge(node[f.n].handle)
           g == [f EXCEPT !.charge = c, !.pc = "markCount"]
<1>1. f \in Frames /\ FrameInv(f) /\ f.pc = "markHandle"
  BY ActorFrame DEF MarkHandle, At
<1>2. /\ f.list \in Lists /\ f.n \in Linked(f.list) /\ f.n \in AllNodes /\ f.new = 0
      /\ f.ret \in MarkReturns /\ f.after \in IterateEnds
  BY <1>1, NodeInHand DEF NodeLabels, VisitLabels, MarkLabels
<1>3. node[f.n].handle \in Handles \cup {None} /\ "markCount" \in Labels
  BY <1>2, LabelType DEF LInv, StateType, NodeRecords, MarkLabels
<1>4. c \in Nat
  BY <1>3, ClientAssumption DEF Charge
<1>5. node' \in [AllNodes -> NodeRecords] /\ Quiet
  <2>1. node' = [node EXCEPT ![f.n].handle = None]
    BY DEF MarkHandle
  <2> QED BY <1>2, <2>1, SetHandleQuiet DEF LInv
<1> HIDE DEF c
<1>6. CASE SetFrame(t, Marked(f, c))
  BY <1>1, <1>4, <1>5, <1>6, MarkedFrame DEF Moves, SetFrame, MarkLabels
<1>7. CASE SetFrame(t, g)
  <2>1. g \in Frames
    BY <1>1, <1>3, <1>4 DEF Frames
  <2>2. g.pc = "markCount" /\ g.list = f.list /\ g.n = f.n /\ g.new = f.new /\ g.ret = f.ret /\ g.after = f.after
    BY <1>1 DEF Frames
  <2> HIDE DEF g
  <2>3. FrameInv(g)
    BY <1>1, <1>2, <2>1, <2>2, NodeFrame DEF NodeLabels, MarkLabels, IterateLabels, VisitLabels
  <2> QED BY <1>5, <1>7, <2>1, <2>3 DEF Moves, SetFrame
<1> QED BY <1>6, <1>7 DEF MarkHandle, c

LEMMA MarkCountMoves ==
  ASSUME LInv, NEW t \in Threads, MarkCount(t)
  PROVE  Moves(t) /\ counts' \in [Lists -> [nodes : Nat, marked : Nat]]
<1> DEFINE f == frame[t]
<1>1. f \in Frames /\ FrameInv(f) /\ f.pc = "markCount" /\ f.charge \in Nat
  BY ActorFrame DEF MarkCount, At, Frames
<1>2. f.list \in Lists
  BY <1>1, NodeInHand DEF NodeLabels, VisitLabels, MarkLabels
<1>3. Moves(t)
  BY <1>1, MarkedFrame DEF MarkCount, Moves, SetFrame, MarkLabels
<1>4. counts' = [counts EXCEPT ![f.list] = [counts[f.list] EXCEPT !.marked = counts[f.list].marked + 1]]
  BY DEF MarkCount
<1>5. counts' \in [Lists -> [nodes : Nat, marked : Nat]]
  <2>1. counts[f.list] \in [nodes : Nat, marked : Nat] /\ counts \in [Lists -> [nodes : Nat, marked : Nat]]
    BY <1>2 DEF LInv, StateType
  <2>2. [counts[f.list] EXCEPT !.marked = counts[f.list].marked + 1] \in [nodes : Nat, marked : Nat]
    BY <2>1
  <2> QED BY <1>4, <2>1, <2>2
<1> QED BY <1>3, <1>5
-----------------------------------------------------------------------------
(***************************************************************************)
(* The steps of IterateLevel, and what the threads do around the list.     *)
(***************************************************************************)
LEMMA BottomLink ==
  ASSUME Structure, NEW l \in Lists, NEW n \in Linked(l) \cup {HeadNode(l)}
  PROVE  /\ Word(n, 0).to \in Linked(l) \cup {TailNode(l)}
         /\ node[n].key < node[Word(n, 0).to].key
<1>1. n \in OnLevel(l, 0) \cup {HeadNode(l)}
  BY DEF Structure, Towers, OnLevel
<1> QED BY <1>1, Numbers DEF Structure, LevelsOrdered, OnLevel

LEMMA IterateReadMoves ==
  ASSUME LInv, NEW t \in Threads, IterateRead(t)
  PROVE  Moves(t)
<1> DEFINE f == frame[t]
           n == Word(f.pred, 0).to
           g == [f EXCEPT !.n = n, !.pc = "iterateMarked"]
<1>1. /\ f \in Frames /\ f.pc = "iterate" /\ f.list \in Lists /\ f.after \in IterateEnds /\ f.new = 0
      /\ f.pred \in Linked(f.list) \cup {HeadNode(f.list)}
  BY ActorFrame DEF IterateRead, At, FrameInv, NewInv, NodeInv, ReturnInv, IsLinking, IterateLabels,
                    VisitLabels
<1>2. n \in Linked(f.list) \cup {TailNode(f.list)}
  BY <1>1, BottomLink DEF LInv
<1>3. n \in Refs /\ n # 0 /\ "iterateMarked" \in Labels
  BY <1>1, <1>2, Numbers, LabelType DEF Linked, IterateLabels, VisitLabels
<1>4. g \in Frames
  BY <1>1, <1>3 DEF Frames
<1>5. g.pc = "iterateMarked" /\ g.list = f.list /\ g.n = n /\ g.new = 0 /\ g.after \in IterateEnds
  BY <1>1 DEF Frames
<1>6. SetFrame(t, g)
  BY DEF IterateRead
<1> HIDE DEF g, n
<1>7. FrameInv(g)
  BY <1>1, <1>2, <1>3, <1>5
  DEF FrameInv, FindInv, NewInv, NodeInv, ReturnInv, SearchLabels, MarkLabels, IterateLabels, VisitLabels,
      NodeLabels, IsLinking
<1> QED BY <1>4, <1>6, <1>7 DEF Moves, SetFrame

\* An iteration that has come to tail_.
LEMMA EndFrame ==
  ASSUME NEW f \in Frames, f.after \in IterateEnds,
         NEW g, g = IF f.after = "idle" THEN Idle ELSE [Idle EXCEPT !.pc = f.after, !.list = f.list]
  PROVE  g \in Frames /\ FrameInv(g)
<1>1. CASE f.after = "idle"
  BY <1>1, IdleType, IdleFrame
<1>2. CASE f.after # "idle"
  <2>1. g \in Frames
    BY <1>2, IdleType DEF Frames
  <2>2. g.pc \in {"decayEnd", "compactSwap"} /\ g.n = 0 /\ g.new = 0
    BY <1>2 DEF Idle, IterateEnds
  <2> QED
    BY <2>1, <2>2
    DEF FrameInv, FindInv, NewInv, NodeInv, ReturnInv, SearchLabels, MarkLabels, IterateLabels, VisitLabels,
        NodeLabels, IsLinking
<1> QED BY <1>1, <1>2

LEMMA IterateMarkedMoves ==
  ASSUME LInv, NEW t \in Threads, IterateMarked(t)
  PROVE  Moves(t)
<1> DEFINE f == frame[t]
           g == [f EXCEPT !.pc = "visit"]
<1>1. /\ f \in Frames /\ f.pc = "iterateMarked" /\ f.list \in Lists /\ f.after \in IterateEnds /\ f.new = 0
      /\ f.n \in Linked(f.list) \cup {TailNode(f.list)}
  BY ActorFrame DEF IterateMarked, At, FrameInv, NewInv, NodeInv, ReturnInv, IsLinking, IterateLabels,
                    VisitLabels, NodeLabels
<1>2. CASE IsMarked(f.n) /\ SetFrame(t, IterateOn(f))
  <2>1. f.n \in Linked(f.list)
    BY <1>1, <1>2 DEF LInv, Structure, Sentinels
  <2> QED BY <1>1, <1>2, <2>1, IterateOnFrame DEF Moves, SetFrame
<1>3. CASE SetFrame(t, IF f.after = "idle" THEN Idle ELSE [Idle EXCEPT !.pc = f.after, !.list = f.list])
  BY <1>1, <1>3, EndFrame DEF Moves, SetFrame
<1>4. CASE f.n # TailNode(f.list) /\ SetFrame(t, g)
  <2>1. "visit" \in Labels
    BY LabelType DEF IterateLabels, VisitLabels
  <2>2. g \in Frames
    BY <1>1, <2>1 DEF Frames
  <2>3. g.pc = "visit" /\ g.list = f.list /\ g.n = f.n /\ g.new = 0 /\ g.after \in IterateEnds
    BY <1>1 DEF Frames
  <2>4. g.pc \in NodeLabels /\ g.pc \notin MarkLabels /\ g.pc \notin {"getHandle", "getHit"}
    BY <2>3 DEF NodeLabels, VisitLabels, MarkLabels
  <2> HIDE DEF g
  <2>5. FrameInv(g)
    BY <1>1, <1>4, <2>2, <2>3, <2>4, NodeFrame
  <2> QED BY <1>4, <2>2, <2>5 DEF Moves, SetFrame
<1> QED BY <1>1, <1>2, <1>3, <1>4 DEF IterateMarked

LEMMA StartInsertFrame ==
  ASSUME NEW f, NEW k
  PROVE  \/ f.h = None /\ StartInsert(f, k) = Done(f, 0, None)
         \/ f.h # None /\ StartInsert(f, k) = Find(f, k, "insert")
BY DEF StartInsert

LEMMA BeginMoves ==
  ASSUME LInv, NEW t \in Threads, Begin(t)
  PROVE  Moves(t) /\ todo' \in [Threads -> Seq(Calls)]
<1>1. todo \in [Threads -> Seq(Calls)] /\ todo[t] # <<>> /\ todo' = [todo EXCEPT ![t] = Tail(todo[t])]
  BY DEF LInv, StateType, Begin, Take
<1>2. todo[t] \in Seq(Calls) /\ Call(t) \in Calls /\ Tail(todo[t]) \in Seq(Calls)
  BY <1>1 DEF Call
<1>3. todo' \in [Threads -> Seq(Calls)]
  BY <1>1, <1>2
<1>4. Call(t).key \in 0 .. MaxKey - 1 /\ Call(t).h \in Handles \cup {None}
  BY <1>2 DEF Calls
<1>5. 1 \in Lists /\ 1 \in 0 .. ListNum
  BY ListAssumption DEF Lists
<1> DEFINE f == [Idle EXCEPT !.list = 1]
           g == [f EXCEPT !.h = Call(t).h]
           m == [f EXCEPT !.ret = "marking"]
<1>6. f \in Frames /\ f.list = 1 /\ f.n = 0 /\ f.new = 0 /\ f.ret = "idle"
  BY <1>5, IdleType DEF Frames, Idle
<1>7. g \in Frames /\ g.list = 1 /\ g.n = 0 /\ g.new = 0 /\ g.ret = "idle"
  BY <1>4, <1>6 DEF Frames
<1>8. m \in Frames /\ m.list = 1 /\ m.n = 0 /\ m.new = 0 /\ m.ret = "marking"
  BY <1>6, LabelType DEF Frames, FindReturns
<1>9. \/ SetFrame(t, Find(f, Call(t).key, "getFor"))
      \/ SetFrame(t, Find(g, Call(t).key, "insert"))
      \/ SetFrame(t, Idle)
      \/ SetFrame(t, Find(m, Call(t).key, "getNode"))
      \/ SetFrame(t, IterateLevel(f, "idle"))
  <2>1. Done(g, 0, None) = Idle
    BY <1>7 DEF Done
  <2>2. \/ SetFrame(t, Find(f, Call(t).key, "getFor"))
        \/ SetFrame(t, StartInsert(g, Call(t).key))
        \/ SetFrame(t, Find(m, Call(t).key, "getNode"))
        \/ SetFrame(t, IterateLevel(f, "idle"))
    BY DEF Begin
  <2> HIDE DEF f, g, m
  <2> QED BY <2>1, <2>2, StartInsertFrame
<1> HIDE DEF f, g, m
<1>10. /\ \A a \in {"getFor", "insert", "getNode"} : a \in SearchLabels /\ a # "linkUp"
       /\ "idle" \in FindReturns /\ "marking" \in FindReturns
  BY DEF SearchLabels, FindReturns
<1>11. Structure
  BY DEF LInv
<1>12. CASE SetFrame(t, Find(f, Call(t).key, "getFor"))
  BY <1>3, <1>4, <1>5, <1>6, <1>10, <1>11, <1>12, FindFrame DEF Moves, SetFrame
<1>13. CASE SetFrame(t, Find(g, Call(t).key, "insert"))
  BY <1>3, <1>4, <1>5, <1>7, <1>10, <1>11, <1>13, FindFrame DEF Moves, SetFrame
<1>14. CASE SetFrame(t, Find(m, Call(t).key, "getNode"))
  BY <1>3, <1>4, <1>5, <1>8, <1>10, <1>11, <1>14, FindFrame DEF Moves, SetFrame
<1>15. CASE SetFrame(t, IterateLevel(f, "idle"))
  <2> DEFINE h == IterateLevel(f, "idle")
  <2>1. HeadNode(1) \in Refs /\ "iterate" \in Labels /\ "idle" \in Labels /\ "idle" \in IterateEnds
    BY <1>5, Numbers, LabelType DEF IterateLabels, VisitLabels
  <2>2. h \in Frames
    BY <1>6, <2>1 DEF Frames, IterateLevel
  <2>3. h.pc = "iterate" /\ h.list = 1 /\ h.pred = HeadNode(1) /\ h.after \in IterateEnds /\ h.n = 0 /\ h.new = 0
    BY <1>6, <2>1 DEF Frames, IterateLevel
  <2> HIDE DEF h
  <2>4. FrameInv(h)
    BY <1>5, <2>3
    DEF FrameInv, FindInv, NewInv, NodeInv, ReturnInv, SearchLabels, MarkLabels, IterateLabels, VisitLabels,
        NodeLabels, IsLinking
  <2> QED BY <1>3, <1>15, <2>2, <2>4 DEF Moves, SetFrame, h
<1>16. CASE SetFrame(t, Idle)
  BY <1>3, <1>16, IdleType, IdleFrame DEF Moves, SetFrame
<1> QED BY <1>9, <1>12, <1>13, <1>14, <1>15, <1>16

LEMMA MarkDeletedFrame ==
  ASSUME NEW f \in Frames, f.list \in Lists, f.n \in Linked(f.list), f.new = 0, f.after \in IterateEnds,
         NEW c \in BOOLEAN, NEW r \in MarkReturns
  PROVE  MarkDeleted(f, f.n, c, r) \in Frames /\ FrameInv(MarkDeleted(f, f.n, c, r))
<1> DEFINE g == MarkDeleted(f, f.n, c, r)
<1>1. "mark" \in Labels /\ r \in Labels
  BY LabelType DEF MarkLabels, IterateLabels, VisitLabels
<1>2. g \in Frames
  BY <1>1 DEF Frames, MarkDeleted
<1>3. g.pc = "mark" /\ g.list = f.list /\ g.n = f.n /\ g.new = 0 /\ g.after \in IterateEnds /\ g.ret = r
  BY DEF Frames, MarkDeleted
<1>4. g.pc \in NodeLabels /\ g.pc \notin {"getHandle", "getHit"}
  BY <1>3 DEF NodeLabels, VisitLabels, MarkLabels
<1> HIDE DEF g
<1>5. FrameInv(g)
  BY <1>2, <1>3, <1>4, NodeFrame
<1> QED BY <1>2, <1>5 DEF g

LEMMA MarkingMoves ==
  ASSUME LInv, NEW t \in Threads, Marking(t)
  PROVE  Moves(t)
<1> DEFINE f == frame[t]
<1>1. /\ f \in Frames /\ f.after \in IterateEnds /\ f.new = 0
      /\ f.n # 0 => f.list \in Lists /\ f.n \in Linked(f.list)
  BY ActorFrame DEF Marking, At, FrameInv, NewInv, NodeInv, ReturnInv, IsLinking
<1>2. CASE SetFrame(t, Idle)
  BY <1>2, IdleType, IdleFrame DEF Moves, SetFrame
<1>3. CASE f.n # 0 /\ SetFrame(t, MarkDeleted(f, f.n, FALSE, "idle"))
  <2>1. FALSE \in BOOLEAN /\ "idle" \in MarkReturns
    BY LabelType
  <2>2. MarkDeleted(f, f.n, FALSE, "idle") \in Frames /\ FrameInv(MarkDeleted(f, f.n, FALSE, "idle"))
    BY <1>1, <1>3, <2>1, MarkDeletedFrame
  <2> QED BY <1>3, <2>2 DEF Moves, SetFrame
<1> QED BY <1>2, <1>3 DEF Marking

LEMMA VisitMoves ==
  ASSUME LInv, NEW t \in Threads, Visit(t)
  PROVE  Moves(t)
<1> DEFINE f == frame[t]
<1>1. f \in Frames /\ FrameInv(f) /\ f.pc \in {"visit", "visited"}
  BY ActorFrame DEF Visit, At
<1>2. f.list \in Lists /\ f.n \in Linked(f.list) /\ f.new = 0 /\ f.after \in IterateEnds
  BY <1>1, NodeInHand DEF NodeLabels, MarkLabels, IterateLabels, VisitLabels
<1>3. CASE SetFrame(t, MarkDeleted(f, f.n, TRUE, "visited"))
  <2>1. TRUE \in BOOLEAN /\ "visited" \in MarkReturns
    BY DEF MarkReturns
  <2>2. MarkDeleted(f, f.n, TRUE, "visited") \in Frames /\ FrameInv(MarkDeleted(f, f.n, TRUE, "visited"))
    BY <1>1, <1>2, <2>1, MarkDeletedFrame
  <2> QED BY <1>3, <2>2 DEF Moves, SetFrame
<1>4. CASE SetFrame(t, IterateOn(f))
  BY <1>1, <1>2, <1>4, IterateOnFrame DEF Moves, SetFrame
<1> QED BY <1>3, <1>4 DEF Visit
-----------------------------------------------------------------------------
(***************************************************************************)
(* The steps that link.  LinkUpper makes the word of a node with a smaller *)
(* key lead to the new node, which is tall enough for the level.           *)
(***************************************************************************)
LEMMA LinkUpperMoves ==
  ASSUME LInv, NEW t \in Threads, LinkUpper(t)
  PROVE  Moves(t)
<1> DEFINE f == frame[t]
           g == [f EXCEPT !.up = @ + 1]
<1>1. At(t, "linkUp") /\ f.pc = "linkUp"
  BY DEF LinkUpper, At
<1>2. CASE SetFrame(t, Counting(f, f.new))
  BY <1>1, <1>2, LinkUpFrame, CountingFrame DEF Moves, SetFrame
<1>3. CASE f.up # f.top /\ SetFrame(t, g)
  <2>1. f \in Frames /\ FrameInv(f) /\ f.up \in 1 .. f.top /\ f.top \in Nat
    BY <1>1, LinkUpFrame DEF Levels
  <2>2. f.up + 1 \in 1 .. f.top /\ f.up + 1 \in Nat
    BY <1>3, <2>1
  <2>3. g \in Frames
    BY <2>1, <2>2 DEF Frames
  <2>4. /\ g.pc = "linkUp" /\ g.list = f.list /\ g.key = f.key /\ g.n = f.n /\ g.new = f.new /\ g.top = f.top
        /\ g.up = f.up + 1 /\ g.ret = f.ret /\ g.preds = f.preds /\ g.succs = f.succs /\ g.found = f.found
    BY <1>1, <2>1 DEF Frames
  <2> HIDE DEF g
  <2>5. FindInv(g)
    BY <1>1, <2>1, <2>4 DEF FrameInv, FindInv, Searched
  <2>6. NewInv(g)
    BY <1>1, <2>1, <2>2, <2>4 DEF FrameInv, NewInv, IsLinking
  <2>7. NodeInv(g) /\ ReturnInv(g)
    BY <1>1, <2>1, <2>4 DEF FrameInv, NodeInv, ReturnInv, NodeLabels, MarkLabels, IterateLabels, VisitLabels
  <2> QED BY <1>3, <2>3, <2>5, <2>6, <2>7 DEF Moves, SetFrame, FrameInv, g
<1> QED BY <1>2, <1>3 DEF LinkUpper

LEMMA LinkUpperStructure ==
  ASSUME LInv, NEW t \in Threads, LinkUpper(t)
  PROVE  /\ node' \in [AllNodes -> NodeRecords] /\ Grow /\ Structure'
         /\ \A l \in Lists : Linked(l)' = Linked(l)
         /\ \A n \in AllNodes : Word(n, 0)' = Word(n, 0)
<1> DEFINE f == frame[t]
           l == f.list
           p == f.preds[f.up]
           i == f.up
           new == f.new
           w == LinkWord(f.succs[i], new)
<1>1. /\ f \in Frames /\ l \in Lists /\ i \in Levels /\ i > 0 /\ i <= f.top /\ f.top \in Levels
      /\ new \in Linked(l) /\ new \in OnLevel(l, f.top) /\ node[new].key = f.key /\ Searched(f, i)
  BY LinkUpFrame DEF LinkUpper
<1>2. Structure /\ StateType
  BY DEF LInv
<1>3. /\ p \in OnLevel(l, i) \cup {HeadNode(l)} /\ node[p].key < f.key /\ p \in AllNodes /\ node[p].list = l
  BY <1>1, <1>2, Numbers DEF Searched, Before, OnLevel, Linked, Structure, Sentinels
<1>4. new \in OnLevel(l, i)
  BY <1>1, <1>2 DEF Structure, Towers, OnLevel, Levels
<1>5. w \in Words /\ w.to = new /\ new \in Refs /\ new # 0
  <2>1. f.succs[i] \in Words /\ f.succs[i].ver + 1 \in Nat
    BY <1>1, ListAssumption DEF Frames, Words
  <2>2. new \in Refs /\ new # 0
    BY <1>1, Numbers DEF Linked
  <2>3. FALSE \in BOOLEAN
    OBVIOUS
  <2> QED BY <2>1, <2>2, <2>3, PackType DEF LinkWord
<1>6. SetWord(p, i, w)
  BY DEF LinkUpper
<1> HIDE DEF w, p
<1>7. /\ node' \in [AllNodes -> NodeRecords]
      /\ \A m \in AllNodes : node'[m].list = node[m].list /\ node'[m].key = node[m].key
      /\ \A m \in AllNodes : \A j \in Levels : Word(m, j)' = IF m = p /\ j = i THEN w ELSE Word(m, j)
  BY <1>1, <1>2, <1>3, <1>5, <1>6, SetWordEffect
<1>8. \A n \in AllNodes : Word(n, 0)' = Word(n, 0)
  BY <1>1, <1>7, Numbers
<1>9. \A k \in Lists : Linked(k)' = Linked(k)
  BY <1>7, Numbers DEF Linked
<1>10. \A m \in AllNodes : \A j \in Levels : Word(m, j)'.to # 0 <=> (Word(m, j).to # 0 \/ (m = p /\ j = i))
  BY <1>5, <1>7
<1>11. p = HeadNode(l) \/ Word(p, i).to # 0
  BY <1>3 DEF OnLevel
<1>12. \A m \in AllNodes : \A j \in Levels : Word(m, j)'.to # 0 <=> Word(m, j).to # 0
  BY <1>1, <1>2, <1>10, <1>11 DEF Structure, Sentinels
<1>13. Grow
  BY <1>7, <1>12 DEF Grow
<1>14. \A k \in Lists : \A j \in Levels : OnLevel(k, j)' = OnLevel(k, j)
  <2>1. \A n \in Nodes : n \in AllNodes
    BY Numbers
  <2> QED BY <1>9, <1>12, <2>1 DEF OnLevel, Linked
<1>15. \A k \in Lists : \A n \in Linked(k) \cup {HeadNode(k), TailNode(k)} :
         n \in AllNodes /\ node'[n].key = node[n].key /\ node'[n].list = node[n].list
  BY <1>7, Numbers DEF Linked
<1>16. Sentinels'
  <2>1. \A k \in Lists : p # TailNode(k)
    BY <1>1, <1>3, Numbers DEF OnLevel, Linked
  <2> QED BY <1>1, <1>2, <1>7, <1>8, <1>12, <1>15, <2>1 DEF Structure, Sentinels, IsMarked
<1>17. Towers'
  <2> SUFFICES ASSUME NEW k \in Lists, NEW n \in Linked(k)
               PROVE  /\ node'[n].key \in 0 .. MaxKey - 1
                      /\ Word(n, 0)'.to # 0
                      /\ \A a, b \in Levels : b <= a /\ Word(n, a)'.to # 0 => Word(n, b)'.to # 0
    BY <1>9 DEF Towers
  <2> QED BY <1>2, <1>12, <1>15, Numbers DEF Structure, Towers
<1>18. LevelsOrdered'
  <2> SUFFICES ASSUME NEW k \in Lists, NEW j \in Levels, NEW n \in OnLevel(k, j) \cup {HeadNode(k)}
               PROVE  /\ Word(n, j)'.to \in OnLevel(k, j) \cup {TailNode(k)}
                      /\ node'[n].key < node'[Word(n, j)'.to].key
    BY <1>14 DEF LevelsOrdered
  <2>1. n \in Linked(k) \cup {HeadNode(k)} /\ n \in AllNodes /\ node'[n].key = node[n].key
    BY <1>15 DEF OnLevel
  <2>2. CASE n = p /\ j = i
    <3>1. k = l
      BY <1>1, <1>2, <1>3, <2>1, <2>2 DEF Linked, Structure, Sentinels
    <3>2. Word(n, j)'.to = new
      BY <1>1, <1>3, <1>5, <1>7, <2>2
    <3>3. node'[new].key = f.key
      BY <1>1, <1>15
    <3> QED BY <1>3, <1>4, <2>1, <2>2, <3>1, <3>2, <3>3
  <2>3. CASE ~(n = p /\ j = i)
    <3>1. Word(n, j)' = Word(n, j)
      BY <1>7, <2>1, <2>3
    <3>2. Word(n, j).to \in OnLevel(k, j) \cup {TailNode(k)} /\ node[n].key < node[Word(n, j).to].key
      BY <1>2 DEF Structure, LevelsOrdered
    <3>3. Word(n, j).to \in Linked(k) \cup {TailNode(k)}
      BY <3>2 DEF OnLevel
    <3> QED BY <1>15, <2>1, <3>1, <3>2, <3>3
  <2> QED BY <2>2, <2>3
<1>19. Gapless'
  <2> SUFFICES ASSUME NEW k \in Lists, NEW n \in Linked(k) \cup {HeadNode(k)}, NEW m \in Linked(k),
                      node'[n].key < node'[m].key
               PROVE  node'[Word(n, 0)'.to].key <= node'[m].key
    BY <1>9 DEF Gapless
  <2>1. Word(n, 0)' = Word(n, 0)
    BY <1>8, <1>15
  <2>2. Word(n, 0).to \in Linked(k) \cup {TailNode(k)}
    BY <1>2, BottomLink
  <2> QED BY <1>2, <1>15, <2>1, <2>2 DEF Structure, Gapless
<1>20. KeysUnique'
  BY <1>2, <1>9, <1>15 DEF Structure, KeysUnique
<1> QED BY <1>7, <1>8, <1>9, <1>13, <1>16, <1>17, <1>18, <1>19, <1>20 DEF Structure
-----------------------------------------------------------------------------
(***************************************************************************)
(* LinkBottom: new, which has been in no list, comes behind the last node  *)
(* Find passed, and in front of the node that was behind it.               *)
(***************************************************************************)
LinksBehind(f, new, top) ==
  /\ f.list \in Lists /\ f.key \in 0 .. MaxKey - 1 /\ ~f.found
  /\ \A i \in Levels : Searched(f, i)
  /\ Word(f.preds[0], 0) = f.succs[0]
  /\ node[new].list = 0
  /\ node'[new].list = f.list /\ node'[new].key = f.key
  /\ \A i \in Levels : Word(new, i)'.to = IF i > top THEN 0 ELSE f.succs[i].to
  /\ \A m \in AllNodes : m # new =>
       /\ node'[m].list = node[m].list /\ node'[m].key = node[m].key
       /\ \A j \in Levels : Word(m, j)' = IF m = f.preds[0] /\ j = 0 THEN LinkWord(f.succs[0], new)
                                          ELSE Word(m, j)

LEMMA LinkBottomEffect ==
  ASSUME LInv, NEW t \in Threads, LinkBottom(t)
  PROVE  \E f \in Frames, new \in Nodes, top \in Levels :
           /\ f = frame[t] /\ f.pc = "insert" /\ FrameInv(f) /\ LinksBehind(f, new, top)
           /\ frame' = [frame EXCEPT ![t] =
                IF top = 0 THEN Counting(f, new)
                ELSE [f EXCEPT !.new = new, !.top = top, !.up = 1, !.h = None, !.pc = "linkUp"]]
           /\ node' \in [AllNodes -> NodeRecords]
           /\ node'[new].handle = f.h
           /\ \A m \in AllNodes : m # new => /\ node'[m].handle = node[m].handle
                                             /\ m # f.preds[0] => node'[m] = node[m]
<1>1. PICK f \in Frames : f = frame[t]
  BY ActorFrame
<1>2. PICK new \in Nodes : new = Fresh /\ node[new].list = 0
  BY DEF LinkBottom, Fresh
<1>3. PICK top \in Levels :
        /\ node' = [node EXCEPT
             ![new] = NewNode(f.list, f.key, f.h,
                        [i \in Levels |-> IF i > top THEN NullWord ELSE PackPtr(f.succs[i].to, 0, FALSE)]),
             ![f.preds[0]].nexts[0] = LinkWord(f.succs[0], new)]
        /\ SetFrame(t, IF top = 0 THEN Counting(f, new)
                       ELSE [f EXCEPT !.new = new, !.top = top, !.up = 1, !.h = None, !.pc = "linkUp"])
  <2> DEFINE AtBottom(g, n, top) ==
        /\ node' = [node EXCEPT
             ![n] = NewNode(g.list, g.key, g.h,
                      [i \in Levels |-> IF i > top THEN NullWord ELSE PackPtr(g.succs[i].to, 0, FALSE)]),
             ![g.preds[0]].nexts[0] = LinkWord(g.succs[0], n)]
        /\ SetFrame(t, IF top = 0 THEN Counting(g, n)
                       ELSE [g EXCEPT !.new = n, !.top = top, !.up = 1, !.h = None, !.pc = "linkUp"])
  <2>1. \E top \in Levels : AtBottom(frame[t], Fresh, top)
    BY Zenon DEF LinkBottom, RandomLevel
  <2> HIDE DEF AtBottom
  <2>2. \E top \in Levels : AtBottom(f, new, top)
    BY <1>1, <1>2, <2>1, Zenon
  <2> QED BY <2>2, Zenon DEF AtBottom
<1>4. FrameInv(f) /\ f.pc = "insert" /\ ~f.found /\ SameWord(f.preds[0], 0, f.succs[0])
  BY <1>1, ActorFrame DEF LinkBottom, At
<1>5. f.list \in Lists /\ f.key \in 0 .. MaxKey - 1 /\ \A i \in Levels : Searched(f, i)
  BY <1>4 DEF FrameInv, FindInv, SearchLabels
<1> DEFINE p == f.preds[0]
           w == LinkWord(f.succs[0], new)
           nexts == [i \in Levels |-> IF i > top THEN NullWord ELSE PackPtr(f.succs[i].to, 0, FALSE)]
           x == NewNode(f.list, f.key, f.h, nexts)
<1>6. p \in AllNodes /\ node[p].list # 0 /\ p # new
  BY <1>2, <1>5, Numbers DEF Searched, Before, OnLevel, Linked, LInv, Structure, Sentinels
<1>7. new \in AllNodes /\ new \in Refs
  BY <1>2, Numbers
<1>8. \A i \in Levels : f.succs[i] \in Words /\ f.succs[i].to \in Refs
  BY <1>1 DEF Frames, Words
<1>9. FALSE \in BOOLEAN
  OBVIOUS
<1>10. w \in Words /\ w.to = new
  <2>1. f.succs[0].ver + 1 \in Nat
    BY <1>8, Numbers, ListAssumption DEF Words
  <2> QED BY <1>7, <1>9, <2>1, PackType DEF LinkWord
<1>11. /\ nexts \in [Levels -> Words]
       /\ \A i \in Levels : nexts[i].to = IF i > top THEN 0 ELSE f.succs[i].to
  <2>1. ASSUME NEW i \in Levels
        PROVE  PackPtr(f.succs[i].to, 0, FALSE) \in Words /\ PackPtr(f.succs[i].to, 0, FALSE).to = f.succs[i].to
    BY <1>8, <1>9, PackType
  <2>2. NullWord.to = 0
    BY DEF NullWord
  <2> QED BY <2>1, <2>2, NullType
<1> HIDE DEF w, nexts
<1>12. x \in NodeRecords /\ x.list = f.list /\ x.key = f.key /\ x.nexts = nexts /\ x.handle = f.h
  <2>1. f.h \in Handles \cup {None} /\ f.list \in 0 .. ListNum /\ f.key \in -1 .. MaxKey
    BY <1>1, <1>5, ListAssumption DEF Frames
  <2>2. x.handle = f.h
    BY DEF NewNode
  <2> QED BY <1>11, <2>1, <2>2, NewNodeType
<1> HIDE DEF x
<1>13. node' = [node EXCEPT ![new] = x, ![p].nexts[0] = w]
  BY <1>3 DEF x, nexts, w
<1>14. node \in [AllNodes -> NodeRecords] /\ node[p] \in NodeRecords /\ node[p].nexts \in [Levels -> Words]
  BY <1>6 DEF LInv, StateType, NodeRecords
<1> DEFINE r == [node[p] EXCEPT !.nexts = [node[p].nexts EXCEPT ![0] = w]]
<1>15. /\ r \in NodeRecords /\ r.list = node[p].list /\ r.key = node[p].key /\ r.handle = node[p].handle
       /\ r.nexts = [node[p].nexts EXCEPT ![0] = w]
  <2>1. [node[p].nexts EXCEPT ![0] = w] \in [Levels -> Words]
    BY <1>10, <1>14
  <2> QED BY <1>14, <2>1 DEF NodeRecords
<1>16. node' = [[node EXCEPT ![new] = x] EXCEPT ![p] = r]
  <2>1. [node EXCEPT ![new] = x][p] = node[p]
    BY <1>6, <1>14
  <2> QED BY <1>13, <2>1
<1> HIDE DEF r
<1>17. node' \in [AllNodes -> NodeRecords]
  BY <1>6, <1>7, <1>12, <1>14, <1>15, <1>16
<1>18. node'[new] = x /\ node'[p] = r /\ \A m \in AllNodes : m # new /\ m # p => node'[m] = node[m]
  BY <1>6, <1>7, <1>14, <1>16
<1>19. \A i \in Levels : Word(new, i)'.to = IF i > top THEN 0 ELSE f.succs[i].to
  BY <1>11, <1>12, <1>18 DEF Word
<1>20. ASSUME NEW m \in AllNodes, m # new
       PROVE  /\ node'[m].list = node[m].list /\ node'[m].key = node[m].key
              /\ \A j \in Levels : Word(m, j)' = IF m = p /\ j = 0 THEN w ELSE Word(m, j)
  BY <1>14, <1>15, <1>18, <1>20 DEF Word
<1>21. LinksBehind(f, new, top)
  BY <1>2, <1>4, <1>5, <1>12, <1>18, <1>19, <1>20 DEF LinksBehind, SameWord, w
<1>22. frame' = [frame EXCEPT ![t] =
                IF top = 0 THEN Counting(f, new)
                ELSE [f EXCEPT !.new = new, !.top = top, !.up = 1, !.h = None, !.pc = "linkUp"]]
  BY <1>3 DEF SetFrame
<1>23. /\ node'[new].handle = f.h
       /\ \A m \in AllNodes : m # new => /\ node'[m].handle = node[m].handle
                                         /\ m # f.preds[0] => node'[m] = node[m]
  BY <1>12, <1>15, <1>18
<1> QED BY <1>1, <1>4, <1>17, <1>21, <1>22, <1>23

\* The neighbours of the new node.
LEMMA Neighbours ==
  ASSUME LInv, NEW f \in Frames, NEW new \in Nodes, NEW top \in Levels, LinksBehind(f, new, top)
  PROVE  /\ f.preds[0] \in Linked(f.list) \cup {HeadNode(f.list)} /\ f.preds[0] # new /\ f.preds[0] \in AllNodes
         /\ Word(f.preds[0], 0).to = f.succs[0].to
         /\ f.succs[0].to \in Linked(f.list) \cup {TailNode(f.list)}
         /\ node[f.preds[0]].key < f.key /\ f.key < node[f.succs[0].to].key
         /\ \A i \in Levels : f.key < node[f.succs[i].to].key
         /\ \A k \in Lists : /\ new \notin Linked(k) \cup {HeadNode(k), TailNode(k)}
                             /\ \A m \in Linked(k) \cup {HeadNode(k), TailNode(k)} : m \in AllNodes /\ node[m].key \in Int
<1> DEFINE l == f.list
           p == f.preds[0]
<1>1. l \in Lists /\ f.key \in 0 .. MaxKey - 1 /\ ~f.found /\ \A i \in Levels : Searched(f, i)
  BY DEF LinksBehind
<1>2. \A k \in Lists : /\ new \notin Linked(k) \cup {HeadNode(k), TailNode(k)}
                       /\ \A m \in Linked(k) \cup {HeadNode(k), TailNode(k)} : m \in AllNodes /\ node[m].key \in Int
  <2>1. \A k \in Lists : \A m \in Linked(k) \cup {HeadNode(k), TailNode(k)} : m \in AllNodes /\ node[m].list = k
    BY Numbers DEF LInv, Structure, Sentinels, Linked
  <2>2. \A m \in AllNodes : node[m].key \in Int
    BY ListAssumption DEF LInv, StateType, NodeRecords
  <2>3. node[new].list = 0
    BY DEF LinksBehind
  <2> QED BY <2>1, <2>2, <2>3, Numbers
<1>3. p \in Linked(l) \cup {HeadNode(l)} /\ node[p].key < f.key
  BY <1>1, Numbers DEF Searched, Before, OnLevel
<1>4. ASSUME NEW i \in Levels
      PROVE  f.succs[i].to \in Linked(l) \cup {TailNode(l)} /\ f.key < node[f.succs[i].to].key
  <2>1. f.succs[i].to \in Linked(l) \cup {TailNode(l)} /\ node[f.succs[i].to].key >= f.key
        /\ node[f.succs[i].to].key # f.key
    BY <1>1 DEF Searched, Behind, OnLevel
  <2> QED BY <1>1, <1>2, <2>1
<1>5. Word(p, 0).to = f.succs[0].to
  BY DEF LinksBehind
<1> QED BY <1>1, <1>2, <1>3, <1>4, <1>5, Numbers

LEMMA LinkBottomSets ==
  ASSUME LInv, NEW f \in Frames, NEW new \in Nodes, NEW top \in Levels, LinksBehind(f, new, top)
  PROVE  /\ Grow
         /\ \A k \in Lists : Linked(k)' = IF k = f.list THEN Linked(k) \cup {new} ELSE Linked(k)
         /\ \A k \in Lists : \A j \in Levels :
              OnLevel(k, j)' = IF k = f.list /\ j <= top THEN OnLevel(k, j) \cup {new} ELSE OnLevel(k, j)
         /\ \A m \in AllNodes : m # new => \A j \in Levels :
              Word(m, j)'.to = IF m = f.preds[0] /\ j = 0 THEN new ELSE Word(m, j).to
         /\ \A k \in Lists : \A m \in Linked(k) \cup {HeadNode(k), TailNode(k)} :
              m # new /\ m \in AllNodes /\ node'[m].key = node[m].key /\ node'[m].list = node[m].list
<1> DEFINE l == f.list
           p == f.preds[0]
<1>1. new # 0 /\ l \in Lists /\ new \in AllNodes /\ LinkWord(f.succs[0], new).to = new /\ l # 0
  BY Numbers DEF LinksBehind, LinkWord, PackPtr
<1>2. \A m \in AllNodes : m # new => \A j \in Levels :
        Word(m, j)'.to = IF m = p /\ j = 0 THEN new ELSE Word(m, j).to
  BY <1>1 DEF LinksBehind
<1>3. Word(p, 0).to # 0
  BY Neighbours, Numbers DEF LinksBehind, Linked
<1>4. \A m \in AllNodes : m # new => \A j \in Levels : Word(m, j)'.to # 0 <=> Word(m, j).to # 0
  BY <1>1, <1>2, <1>3
<1>5. Grow
  BY <1>4 DEF LinksBehind, Grow
<1>6. \A k \in Lists : \A m \in Linked(k) \cup {HeadNode(k), TailNode(k)} :
        m # new /\ m \in AllNodes /\ node'[m].key = node[m].key /\ node'[m].list = node[m].list
  BY Neighbours DEF LinksBehind
<1>7. \A k \in Lists : Linked(k)' = IF k = l THEN Linked(k) \cup {new} ELSE Linked(k)
  <2>1. \A m \in Nodes : m # new => node'[m].list = node[m].list
    BY Numbers DEF LinksBehind
  <2>2. node[new].list = 0 /\ node'[new].list = l
    BY DEF LinksBehind
  <2> QED BY <1>1, <2>1, <2>2, Numbers DEF Linked
<1>8. \A j \in Levels : Word(new, j)'.to # 0 <=> j <= top
  <2>1. \A j \in Levels : f.succs[j].to # 0
    BY <1>1, Numbers DEF LinksBehind, Searched, Behind, OnLevel, Linked
  <2> QED BY <2>1 DEF LinksBehind, Levels
<1>9. ASSUME NEW k \in Lists, NEW j \in Levels
      PROVE  OnLevel(k, j)' = IF k = l /\ j <= top THEN OnLevel(k, j) \cup {new} ELSE OnLevel(k, j)
  <2>1. \A m \in Linked(k) : m # new /\ m \in AllNodes
    BY <1>6
  <2>2. \A m \in Linked(k) : Word(m, j)'.to # 0 <=> Word(m, j).to # 0
    BY <1>4, <2>1
  <2> QED BY <1>7, <1>8, <2>1, <2>2 DEF OnLevel
<1> QED BY <1>2, <1>5, <1>6, <1>7, <1>9

LEMMA LinkBottomStructure ==
  ASSUME LInv, NEW f \in Frames, NEW new \in Nodes, NEW top \in Levels, LinksBehind(f, new, top)
  PROVE  Structure'
<1> DEFINE l == f.list
           p == f.preds[0]
           s == f.succs[0].to
<1>1. l \in Lists /\ f.key \in 0 .. MaxKey - 1 /\ ~f.found /\ \A i \in Levels : Searched(f, i)
  BY DEF LinksBehind
<1>2. node'[new].key = f.key /\ \A i \in Levels : Word(new, i)'.to = IF i > top THEN 0 ELSE f.succs[i].to
  BY DEF LinksBehind
<1>3. /\ p \in Linked(l) \cup {HeadNode(l)} /\ p # new /\ p \in AllNodes
      /\ Word(p, 0).to = s /\ s \in Linked(l) \cup {TailNode(l)}
      /\ node[p].key < f.key /\ f.key < node[s].key
      /\ \A i \in Levels : f.key < node[f.succs[i].to].key
      /\ \A k \in Lists : /\ new \notin Linked(k) \cup {HeadNode(k), TailNode(k)}
                          /\ \A m \in Linked(k) \cup {HeadNode(k), TailNode(k)} : m \in AllNodes /\ node[m].key \in Int
  BY Neighbours
<1>4. /\ \A k \in Lists : Linked(k)' = IF k = l THEN Linked(k) \cup {new} ELSE Linked(k)
      /\ \A k \in Lists : \A j \in Levels :
           OnLevel(k, j)' = IF k = l /\ j <= top THEN OnLevel(k, j) \cup {new} ELSE OnLevel(k, j)
      /\ \A m \in AllNodes : m # new => \A j \in Levels :
           Word(m, j)'.to = IF m = p /\ j = 0 THEN new ELSE Word(m, j).to
      /\ \A k \in Lists : \A m \in Linked(k) \cup {HeadNode(k), TailNode(k)} :
           m # new /\ m \in AllNodes /\ node'[m].key = node[m].key /\ node'[m].list = node[m].list
  BY LinkBottomSets
<1>5. Structure /\ 0 \in Levels /\ 0 <= top /\ top \in Nat
  BY Numbers DEF LInv, Levels
<1>6. \A k \in Lists : p \in Linked(k) \cup {HeadNode(k)} => k = l
  BY <1>1, <1>3, <1>5 DEF Structure, Sentinels, Linked
<1>7. Sentinels'
  <2>1. \A k \in Lists : TailNode(k) # p /\ TailNode(k) \in AllNodes /\ HeadNode(k) \in AllNodes
    BY <1>1, <1>3, Numbers DEF Linked
  <2>2. \A k \in Lists : Word(TailNode(k), 0)' = Word(TailNode(k), 0)
    BY <1>4, <1>5, <2>1 DEF LinksBehind
  <2>3. \A k \in Lists : \A i \in Levels : Word(HeadNode(k), i)'.to # 0 /\ Word(TailNode(k), i)'.to = 0
    BY <1>4, <1>5, <2>1, Numbers DEF Structure, Sentinels
  <2> QED BY <1>4, <1>5, <2>2, <2>3 DEF Structure, Sentinels, IsMarked
<1>8. Towers'
  <2> SUFFICES ASSUME NEW k \in Lists, NEW n \in Linked(k)'
               PROVE  /\ node'[n].key \in 0 .. MaxKey - 1
                      /\ Word(n, 0)'.to # 0
                      /\ \A i, j \in Levels : j <= i /\ Word(n, i)'.to # 0 => Word(n, j)'.to # 0
    BY DEF Towers
  <2>1. CASE n = new
    <3>1. \A j \in Levels : f.succs[j].to # 0
      BY <1>1, Numbers DEF Searched, Behind, OnLevel, Linked
    <3>2. \A i, j \in Levels : j <= i /\ ~(i > top) => ~(j > top)
      BY <1>5 DEF Levels
    <3> QED BY <1>1, <1>2, <1>5, <2>1, <3>1, <3>2
  <2>2. CASE n # new
    <3>1. n \in Linked(k) /\ n \in AllNodes /\ node'[n].key = node[n].key
      BY <1>4, <2>2
    <3>2. \A j \in Levels : Word(n, j)'.to # 0 <=> Word(n, j).to # 0
      <4>1. new # 0 /\ Word(p, 0).to # 0
        BY <1>1, <1>3, Numbers DEF Linked
      <4> QED BY <1>4, <2>2, <3>1, <4>1
    <3> QED BY <1>5, <3>1, <3>2 DEF Structure, Towers
  <2> QED BY <2>1, <2>2
<1>9. LevelsOrdered'
  <2> SUFFICES ASSUME NEW k \in Lists, NEW j \in Levels, NEW n \in OnLevel(k, j)' \cup {HeadNode(k)}
               PROVE  /\ Word(n, j)'.to \in OnLevel(k, j)' \cup {TailNode(k)}
                      /\ node'[n].key < node'[Word(n, j)'.to].key
    BY DEF LevelsOrdered
  <2>1. CASE n = new
    <3>1. k = l /\ j <= top
      BY <1>3, <1>4, <2>1 DEF OnLevel
    <3>2. Word(n, j)'.to = f.succs[j].to
      BY <1>2, <1>5, <2>1, <3>1 DEF Levels
    <3>3. f.succs[j].to \in OnLevel(k, j) \cup {TailNode(k)} /\ f.succs[j].to \in Linked(k) \cup {TailNode(k)}
      BY <1>1, <3>1 DEF Searched, Behind, OnLevel
    <3>4. node'[f.succs[j].to].key = node[f.succs[j].to].key
      BY <1>4, <3>3
    <3> QED BY <1>2, <1>3, <1>4, <2>1, <3>1, <3>2, <3>3, <3>4
  <2>2. CASE n # new
    <3>1. n \in OnLevel(k, j) \cup {HeadNode(k)} /\ n \in Linked(k) \cup {HeadNode(k)}
      BY <1>4, <2>2 DEF OnLevel
    <3>2. n \in AllNodes /\ node'[n].key = node[n].key
      BY <1>4, <3>1
    <3>3. CASE n = p /\ j = 0
      <4>1. k = l /\ Word(n, j)'.to = new
        BY <1>4, <1>5, <1>6, <2>2, <3>1, <3>2, <3>3
      <4>2. new \in OnLevel(k, j)'
        BY <1>4, <1>5, <3>3, <4>1
      <4> QED BY <1>2, <1>3, <3>2, <3>3, <4>1, <4>2
    <3>4. CASE ~(n = p /\ j = 0)
      <4>1. Word(n, j)'.to = Word(n, j).to
        BY <1>4, <2>2, <3>2, <3>4
      <4>2. Word(n, j).to \in OnLevel(k, j) \cup {TailNode(k)} /\ node[n].key < node[Word(n, j).to].key
        BY <1>5, <3>1 DEF Structure, LevelsOrdered
      <4>3. Word(n, j).to \in Linked(k) \cup {TailNode(k)}
        BY <4>2 DEF OnLevel
      <4>4. node'[Word(n, j).to].key = node[Word(n, j).to].key
        BY <1>4, <4>3
      <4> QED BY <1>4, <3>2, <4>1, <4>2, <4>4
    <3> QED BY <3>3, <3>4
  <2> QED BY <2>1, <2>2
<1>10. \A k \in Lists : \A n \in Linked(k) : node[n].key \in 0 .. MaxKey - 1
  BY <1>5 DEF Structure, Towers
<1>11. ASSUME NEW k \in Lists, NEW n \in Linked(k) \cup {HeadNode(k)}, n # p
       PROVE  /\ Word(n, 0)'.to = Word(n, 0).to /\ node'[n].key = node[n].key
              /\ Word(n, 0).to \in Linked(k) \cup {TailNode(k)}
              /\ node'[Word(n, 0).to].key = node[Word(n, 0).to].key /\ node[Word(n, 0).to].key \in Int
  <2>1. Word(n, 0).to \in Linked(k) \cup {TailNode(k)}
    BY <1>5, BottomLink
  <2> QED BY <1>3, <1>4, <1>5, <1>11, <2>1
<1>12. ASSUME NEW m \in Linked(l), f.key <= node[m].key
       PROVE  node[s].key <= node[m].key
  <2>1. node[p].key < node[m].key
    BY <1>1, <1>3, <1>12
  <2> QED BY <1>1, <1>3, <1>5, <2>1 DEF Structure, Gapless
<1>13. Gapless'
  <2> SUFFICES ASSUME NEW k \in Lists, NEW n \in Linked(k)' \cup {HeadNode(k)}, NEW m \in Linked(k)',
                      node'[n].key < node'[m].key
               PROVE  node'[Word(n, 0)'.to].key <= node'[m].key
    BY DEF Gapless
  <2>1. n # new => n \in Linked(k) \cup {HeadNode(k)} /\ node'[n].key = node[n].key /\ node[n].key \in Int
    BY <1>3, <1>4
  <2>2. m # new => m \in Linked(k) /\ node'[m].key = node[m].key /\ node[m].key \in Int
    BY <1>3, <1>4
  <2>3. n = new \/ m = new => k = l
    BY <1>3, <1>4
  <2>4. node'[s].key = node[s].key /\ node[s].key \in Int
    BY <1>1, <1>3, <1>4
  <2>5. CASE n = new
    <3>1. m # new /\ m \in Linked(l) /\ node'[m].key = node[m].key /\ f.key < node[m].key
      BY <1>1, <1>2, <2>2, <2>3, <2>5
    <3>2. Word(n, 0)'.to = s
      BY <1>2, <1>5, <2>5
    <3> QED BY <1>1, <1>12, <2>2, <2>4, <3>1, <3>2
  <2>6. CASE n = p
    <3>1. k = l /\ Word(n, 0)'.to = new
      BY <1>3, <1>4, <1>5, <1>6, <2>1, <2>6
    <3>2. CASE m = new
      BY <1>1, <1>2, <3>1, <3>2
    <3>3. CASE m # new
      <4>1. node[s].key <= node[m].key
        BY <1>3, <1>5, <2>1, <2>2, <2>6, <3>1, <3>3 DEF Structure, Gapless
      <4> QED BY <1>1, <1>2, <1>3, <2>2, <2>4, <3>1, <3>3, <4>1
    <3> QED BY <3>2, <3>3
  <2>7. CASE n # new /\ n # p /\ m # new
    BY <1>5, <1>11, <2>1, <2>2, <2>7 DEF Structure, Gapless
  <2>8. CASE n # new /\ n # p /\ m = new
    <3>1. k = l /\ node[n].key < f.key /\ node'[m].key = f.key
      BY <1>2, <2>1, <2>3, <2>8
    <3>2. node[HeadNode(l)].key = -1 /\ node[p].key \in Int /\ node[n].key \in Int
      BY <1>1, <1>3, <1>5, <2>1, <2>8 DEF Structure, Sentinels
    <3>3. CASE node[p].key < node[n].key
      <4>1. n \in Linked(l)
        BY <1>1, <1>3, <1>10, <2>1, <2>8, <3>1, <3>2, <3>3
      <4>2. node[s].key <= node[n].key
        BY <1>1, <1>3, <1>5, <3>3, <4>1 DEF Structure, Gapless
      <4> QED BY <1>1, <1>3, <2>4, <3>1, <3>2, <4>2
    <3>4. CASE node[n].key < node[p].key
      <4>1. p \in Linked(l)
        BY <1>1, <1>3, <1>10, <2>1, <2>8, <3>1, <3>2, <3>4
      <4>2. node[Word(n, 0).to].key <= node[p].key
        BY <1>1, <1>5, <2>1, <2>8, <3>1, <3>4, <4>1 DEF Structure, Gapless
      <4> QED BY <1>1, <1>3, <1>11, <2>1, <2>8, <3>1, <3>2, <4>2
    <3>5. CASE node[n].key = node[p].key
      BY <1>1, <1>3, <1>5, <1>10, <2>1, <2>8, <3>1, <3>2, <3>5 DEF Structure, KeysUnique
    <3> QED BY <3>2, <3>3, <3>4, <3>5
  <2> QED BY <2>5, <2>6, <2>7, <2>8
<1>14. KeysUnique'
  <2>1. ASSUME NEW m \in Linked(l) PROVE node[m].key # f.key
    BY <1>1, <1>3, <1>12
  <2> SUFFICES ASSUME NEW k \in Lists, NEW n \in Linked(k)', NEW m \in Linked(k)',
                      node'[n].key = node'[m].key
               PROVE  n = m
    BY DEF KeysUnique
  <2>2. ASSUME NEW u \in Linked(k)', u # new PROVE u \in Linked(k) /\ node'[u].key = node[u].key
    BY <1>4, <2>2
  <2>3. new \in Linked(k)' => k = l
    BY <1>3, <1>4
  <2> QED BY <1>2, <1>5, <2>1, <2>2, <2>3 DEF Structure, KeysUnique
<1> QED BY <1>7, <1>8, <1>9, <1>13, <1>14 DEF Structure

LEMMA LinkBottomFrame ==
  ASSUME LInv, NEW f \in Frames, NEW new \in Nodes, NEW top \in Levels, LinksBehind(f, new, top),
         FrameInv(f), f.pc = "insert",
         NEW g, g = IF top = 0 THEN Counting(f, new)
                    ELSE [f EXCEPT !.new = new, !.top = top, !.up = 1, !.h = None, !.pc = "linkUp"]
  PROVE  g \in Frames /\ FrameInv(g)'
<1>1. f.list \in Lists /\ f.ret \in FindReturns /\ f.n = 0 /\ new # 0
  BY DEF LinksBehind, FrameInv, FindInv, ReturnInv, SearchLabels, Nodes
<1>2. new \in Linked(f.list)' /\ new \in OnLevel(f.list, top)' /\ node'[new].key = f.key
  BY <1>1, LinkBottomSets DEF LinksBehind, Levels
<1>3. CASE top = 0
  <2>1. g \in Frames /\ g.pc = "count" /\ g.ret = f.ret /\ g.list = f.list /\ g.new = new /\ g.n = 0
    BY <1>3, CountingType
  <2> QED
    BY <1>1, <1>2, <2>1
    DEF FrameInv, FindInv, NewInv, NodeInv, ReturnInv, SearchLabels, MarkLabels, IterateLabels, VisitLabels,
        NodeLabels, IsLinking
<1>4. CASE top # 0
  <2>1. "linkUp" \in Labels
    BY LabelType DEF SearchLabels
  <2>2. g \in Frames
    BY <1>4, <2>1 DEF Frames
  <2>3. /\ g.pc = "linkUp" /\ g.list = f.list /\ g.key = f.key /\ g.n = f.n /\ g.new = new /\ g.top = top
        /\ g.up = 1 /\ g.ret = f.ret /\ g.preds = f.preds /\ g.succs = f.succs /\ g.found = f.found
    BY <1>4 DEF Frames
  <2>4. FrameInv(f)'
    BY LinkBottomSets, FrameGrow DEF LInv, Structure
  <2>5. FindInv(g)'
    BY <2>3, <2>4 DEF FrameInv, FindInv, Searched, SearchLabels
  <2>6. NewInv(g)'
    <3>1. 1 \in 1 .. top
      BY <1>4 DEF Levels
    <3> QED BY <1>1, <1>2, <2>3, <3>1 DEF NewInv, IsLinking
  <2>7. NodeInv(g)' /\ ReturnInv(g)'
    BY <1>1, <2>3 DEF NodeInv, ReturnInv, NodeLabels, SearchLabels, MarkLabels, IterateLabels, VisitLabels
  <2> QED BY <2>2, <2>5, <2>6, <2>7 DEF FrameInv
<1> QED BY <1>3, <1>4
-----------------------------------------------------------------------------
(***************************************************************************)
(* The invariant is kept by every step.                                    *)
(***************************************************************************)
LEMMA FramesKept ==
  ASSUME LInv, NEW t \in Threads, Grow, NEW g \in Frames, FrameInv(g)',
         frame' = [frame EXCEPT ![t] = g]
  PROVE  frame' \in [Threads -> Frames] /\ FramesInv'
<1>1. frame \in [Threads -> Frames]
  BY DEF LInv, StateType
<1>2. frame' \in [Threads -> Frames]
  BY <1>1
<1>3. ASSUME NEW u \in Threads PROVE FrameInv(frame[u])'
  <2>1. CASE u = t
    <3>1. frame'[u] = g
      BY <1>1, <2>1
    <3> QED BY <3>1
  <2>2. CASE u # t
    <3>1. PICK f \in Frames : f = frame[u]
      BY <1>1
    <3>2. FrameInv(f)
      BY <3>1 DEF LInv, FramesInv
    <3>3. FrameInv(f)'
      BY <3>2, FrameGrow DEF LInv, Structure
    <3>4. frame'[u] = f
      BY <1>1, <2>2, <3>1
    <3> QED BY <3>3, <3>4
  <2> QED BY <2>1, <2>2
<1> QED BY <1>2, <1>3 DEF FramesInv

LEMMA QuietLInv ==
  ASSUME LInv, NEW t \in Threads, Moves(t), Quiet, node' \in [AllNodes -> NodeRecords],
         counts' \in [Lists -> [nodes : Nat, marked : Nat]], todo' \in [Threads -> Seq(Calls)]
  PROVE  LInv'
<1>1. PICK g \in Frames : frame' = [frame EXCEPT ![t] = g] /\ FrameInv(g)
  BY DEF Moves
<1>2. Grow
  BY QuietGrows
<1>3. FrameInv(g)'
  BY <1>1, <1>2, FrameGrow DEF LInv, Structure
<1>4. frame' \in [Threads -> Frames] /\ FramesInv'
  BY <1>1, <1>2, <1>3, FramesKept
<1>5. Structure'
  BY QuietStructure DEF LInv
<1> QED BY <1>4, <1>5 DEF LInv, StateType

\* The steps that neither link nor count, and leave the nodes alone.
LocalStep(t) ==
  \/ FindStep(t) \/ GetNode(t) \/ GetHandle(t) \/ LinkBottomFails(t) \/ LinkUpperFails(t)
  \/ MarkRead(t) \/ IterateRead(t) \/ IterateMarked(t) \/ Marking(t) \/ Visit(t)

NodeStep(t) == GetHit(t) \/ UpdateHandle(t) \/ MarkCas(t) \/ MarkHandle(t)

LEMMA StepKinds ==
  ASSUME NEW t \in Threads, Begin(t) \/ Step(t)
  PROVE  \/ Begin(t) \/ LocalStep(t) \/ NodeStep(t) \/ InsertCount(t) \/ MarkCount(t)
         \/ LinkUpper(t) \/ LinkBottom(t)
BY DEF Step, ListStep, LocalStep, NodeStep

LEMMA LocalMoves ==
  ASSUME LInv, NEW t \in Threads, LocalStep(t)
  PROVE  Moves(t) /\ UNCHANGED <<node, counts, todo>>
<1>1. Moves(t)
  BY FindStepMoves, GetNodeMoves, GetHandleMoves, LinkBottomFailsMoves, LinkUpperFailsMoves,
     MarkReadMoves, IterateReadMoves, IterateMarkedMoves, MarkingMoves, VisitMoves DEF LocalStep
<1>2. UNCHANGED <<node, counts, todo>>
  BY DEF LocalStep, FindStep, GetNode, GetHandle, LinkBottomFails, LinkUpperFails, MarkRead,
         IterateRead, IterateMarked, Marking, Visit
<1> QED BY <1>1, <1>2

LEMMA NodeMoves ==
  ASSUME LInv, NEW t \in Threads, NodeStep(t)
  PROVE  Moves(t) /\ Quiet /\ node' \in [AllNodes -> NodeRecords] /\ UNCHANGED <<counts, todo>>
<1>1. Moves(t) /\ Quiet /\ node' \in [AllNodes -> NodeRecords]
  BY GetHitMoves, UpdateHandleMoves, MarkCasMoves, MarkHandleMoves DEF NodeStep
<1>2. UNCHANGED <<counts, todo>>
  BY DEF NodeStep, GetHit, UpdateHandle, MarkCas, MarkHandle
<1> QED BY <1>1, <1>2

LEMMA StepGrows ==
  ASSUME LInv, [ListNext]_listVars
  PROVE  Grow
<1>1. CASE UNCHANGED listVars
  BY <1>1, UnchangedQuiet, QuietGrows DEF listVars
<1>2. ASSUME NEW t \in Threads, Begin(t) \/ Step(t) PROVE Grow
  <2>1. CASE Begin(t) \/ LocalStep(t) \/ MarkCount(t) \/ InsertCount(t)
    <3>1. node' = node
      BY <2>1, LocalMoves DEF Begin, MarkCount, InsertCount
    <3> QED BY <3>1, UnchangedQuiet, QuietGrows
  <2>2. CASE NodeStep(t)
    BY <2>2, NodeMoves, QuietGrows
  <2>3. CASE LinkUpper(t)
    BY <2>3, LinkUpperStructure
  <2>4. CASE LinkBottom(t)
    <3>1. PICK f \in Frames, new \in Nodes, top \in Levels : LinksBehind(f, new, top)
      BY <2>4, LinkBottomEffect
    <3> QED BY <3>1, LinkBottomSets
  <2> QED BY <1>2, <2>1, <2>2, <2>3, <2>4, StepKinds
<1> QED BY <1>1, <1>2 DEF ListNext

LEMMA NextLInv == LInv /\ [ListNext]_listVars => LInv'
<1> SUFFICES ASSUME LInv, [ListNext]_listVars PROVE LInv'
  OBVIOUS
<1>1. /\ node \in [AllNodes -> NodeRecords] /\ counts \in [Lists -> [nodes : Nat, marked : Nat]]
      /\ todo \in [Threads -> Seq(Calls)]
  BY DEF LInv, StateType
<1>2. CASE UNCHANGED listVars
  <2>1. StateType'
    BY <1>2 DEF LInv, StateType, listVars
  <2>2. Structure'
    BY <1>2, UnchangedQuiet, QuietStructure DEF LInv, listVars
  <2>3. Grow
    BY <1>2, UnchangedQuiet, QuietGrows DEF listVars
  <2>4. FramesInv'
    <3> SUFFICES ASSUME NEW u \in Threads PROVE FrameInv(frame[u])'
      BY DEF FramesInv
    <3>1. PICK f \in Frames : f = frame[u] /\ FrameInv(f)
      BY ActorFrame
    <3>2. FrameInv(f)'
      BY <2>3, <3>1, FrameGrow DEF LInv, Structure
    <3>3. frame'[u] = f
      BY <1>2, <3>1 DEF listVars
    <3> QED BY <3>2, <3>3
  <2> QED BY <2>1, <2>2, <2>4 DEF LInv
<1>3. ASSUME NEW t \in Threads, Begin(t) \/ Step(t) PROVE LInv'
  <2>1. CASE Begin(t)
    <3>1. UNCHANGED <<node, counts>>
      BY <2>1 DEF Begin
    <3> QED BY <1>1, <2>1, <3>1, BeginMoves, UnchangedQuiet, QuietLInv
  <2>2. CASE LocalStep(t)
    BY <1>1, <2>2, LocalMoves, UnchangedQuiet, QuietLInv
  <2>3. CASE NodeStep(t)
    BY <1>1, <2>3, NodeMoves, QuietLInv
  <2>4. CASE InsertCount(t)
    <3>1. UNCHANGED <<node, todo>>
      BY <2>4 DEF InsertCount
    <3> QED BY <1>1, <2>4, <3>1, InsertCountMoves, UnchangedQuiet, QuietLInv
  <2>5. CASE MarkCount(t)
    <3>1. UNCHANGED <<node, todo>>
      BY <2>5 DEF MarkCount
    <3> QED BY <1>1, <2>5, <3>1, MarkCountMoves, UnchangedQuiet, QuietLInv
  <2>6. CASE LinkUpper(t)
    <3>1. PICK g \in Frames : frame' = [frame EXCEPT ![t] = g] /\ FrameInv(g)
      BY <2>6, LinkUpperMoves DEF Moves
    <3>2. node' \in [AllNodes -> NodeRecords] /\ Grow /\ Structure'
      BY <2>6, LinkUpperStructure
    <3>3. FrameInv(g)'
      BY <3>1, <3>2, FrameGrow DEF LInv, Structure
    <3>4. frame' \in [Threads -> Frames] /\ FramesInv'
      BY <3>1, <3>2, <3>3, FramesKept
    <3>5. UNCHANGED <<counts, todo>>
      BY <2>6 DEF LinkUpper
    <3> QED BY <1>1, <3>2, <3>4, <3>5 DEF LInv, StateType
  <2>7. CASE LinkBottom(t)
    <3>1. PICK f \in Frames, new \in Nodes, top \in Levels :
           /\ f = frame[t] /\ f.pc = "insert" /\ FrameInv(f) /\ LinksBehind(f, new, top)
           /\ frame' = [frame EXCEPT ![t] =
                IF top = 0 THEN Counting(f, new)
                ELSE [f EXCEPT !.new = new, !.top = top, !.up = 1, !.h = None, !.pc = "linkUp"]]
           /\ node' \in [AllNodes -> NodeRecords]
      BY <2>7, LinkBottomEffect
    <3>2. Grow /\ Structure'
      BY <3>1, LinkBottomSets, LinkBottomStructure
    <3> DEFINE g == IF top = 0 THEN Counting(f, new)
                    ELSE [f EXCEPT !.new = new, !.top = top, !.up = 1, !.h = None, !.pc = "linkUp"]
    <3>3. g \in Frames /\ FrameInv(g)'
      BY <3>1, LinkBottomFrame
    <3> HIDE DEF g
    <3>4. frame' \in [Threads -> Frames] /\ FramesInv'
      BY <3>1, <3>2, <3>3, FramesKept DEF g
    <3>5. UNCHANGED <<counts, todo>>
      BY <2>7 DEF LinkBottom
    <3> QED BY <1>1, <3>1, <3>2, <3>4, <3>5 DEF LInv, StateType
  <2> QED BY <1>3, <2>1, <2>2, <2>3, <2>4, <2>5, <2>6, <2>7, StepKinds
<1> QED BY <1>2, <1>3 DEF ListNext

(***************************************************************************)
(* The inductive invariant: the shape of every list, and what every        *)
(* operation has read of it is still good when it is used.                 *)
(***************************************************************************)
THEOREM ListInvariance == ListSpec => []LInv
<1>1. LInv /\ [ListNext]_listVars => LInv'
  BY NextLInv
<1> QED BY <1>1, InitLInv, PTL DEF ListSpec

LEMMA LInvOrdered == LInv => Ordered
<1> SUFFICES ASSUME LInv, NEW l \in Lists, NEW n \in Linked(l) \cup {HeadNode(l)}, NEW i \in Levels,
                    Word(n, i).to # 0
             PROVE  Word(n, i).to \in Linked(l) \cup {TailNode(l)} /\ node[n].key < node[Word(n, i).to].key
  BY DEF Ordered
<1>1. n \in OnLevel(l, i) \cup {HeadNode(l)}
  BY DEF OnLevel
<1> QED BY <1>1 DEF LInv, Structure, LevelsOrdered, OnLevel

(***************************************************************************)
(* At every level of every list the words lead to larger keys of the same  *)
(* list and end at tail_, for any number of threads, keys and levels.      *)
(***************************************************************************)
THEOREM ListsOrdered == ListSpec => []Ordered
BY ListInvariance, LInvOrdered, PTL

LEMMA LInvUnique == LInv => KeysUnique
BY DEF LInv, Structure

(***************************************************************************)
(* Racing inserts of one key link one node: the others find it, and update *)
(* its handle.                                                             *)
(***************************************************************************)
THEOREM KeysLinkedOnce == ListSpec => []KeysUnique
BY ListInvariance, LInvUnique, PTL

LEMMA LInvType == LInv => ListTypeOK
<1> SUFFICES ASSUME LInv PROVE ListTypeOK
  OBVIOUS
<1>1. StateType
  BY DEF LInv
<1>2. ASSUME NEW n \in AllNodes
      PROVE  /\ node[n].list \in 0 .. ListNum /\ node[n].hit \in 0 .. MaxHitCount
             /\ \A i \in Levels : Word(n, i).to \in 0 .. MaxNodes + 2 * ListNum
                                 /\ Word(n, i).ver \in 0 .. VersionMod - 1
  BY <1>1 DEF StateType, NodeRecords, Words, Refs, Word
<1>3. \A l \in Lists : counts[l].nodes \in Nat /\ counts[l].marked \in Nat
  BY <1>1 DEF StateType
<1>4. \A t \in Threads : frame[t].n \in 0 .. MaxNodes + 2 * ListNum /\ frame[t].charge \in Nat
  BY <1>1 DEF StateType, Frames, Refs
<1> QED BY <1>2, <1>3, <1>4 DEF ListTypeOK

(***************************************************************************)
(* Every word leads to a node or nowhere, and versions and hit counts stay *)
(* in their ranges.                                                        *)
(***************************************************************************)
THEOREM TypeCorrect == ListSpec => []ListTypeOK
BY ListInvariance, LInvType, PTL
=============================================================================
