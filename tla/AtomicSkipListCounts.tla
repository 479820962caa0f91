------------------------ MODULE AtomicSkipListCounts ------------------------
(***************************************************************************)
(* More about AtomicSkipList, from the invariant of AtomicSkipListProofs:  *)
(* node_num_ counts the nodes, and level 0 is one chain.  Both change only *)
(* when LinkBottom puts a node into a list, and when its insert counts it. *)
(* An iteration misses no node: what is due lies behind where it stands.   *)
(***************************************************************************)
EXTENDS AtomicSkipListProofs, ListHistory

\* The acting thread is linking its node, or not, as before.
SameLinking(t) ==
  /\ \E g \in Frames : frame' = [frame EXCEPT ![t] = g]
  /\ frame'[t].new = frame[t].new
  /\ frame[t].new # 0 => frame'[t].list = frame[t].list

LEMMA LocalSameLinking ==
  ASSUME LInv, NEW t \in Threads, LocalStep(t)
  PROVE  SameLinking(t)
<1> DEFINE f == frame[t]
<1>1. f \in Frames /\ frame \in [Threads -> Frames]
  BY ActorFrame
<1>2. \E g \in Frames : frame' = [frame EXCEPT ![t] = g]
  BY LocalMoves DEF Moves
<1>3. CASE FindStep(t)
  <2> DEFINE w == Word(f.pred, f.level)
             k == node[w.to].key
             g == [f EXCEPT !.preds[f.level] = f.pred, !.succs[f.level] = w, !.found = @ \/ k = f.key]
  <2>1. \/ frame' = [frame EXCEPT ![t] = [f EXCEPT !.pred = w.to]]
        \/ frame' = [frame EXCEPT ![t] = [g EXCEPT !.level = @ - 1]]
        \/ frame' = [frame EXCEPT ![t] = [g EXCEPT !.pc = f.after, !.pred = 0]]
    BY <1>3 DEF FindStep, SetFrame
  <2>2. g.new = f.new /\ g.list = f.list /\ DOMAIN g = DOMAIN f
    BY <1>1 DEF Frames
  <2> HIDE DEF w, g
  <2>3. /\ [f EXCEPT !.pred = w.to].new = f.new /\ [f EXCEPT !.pred = w.to].list = f.list
        /\ [g EXCEPT !.level = @ - 1].new = f.new /\ [g EXCEPT !.level = @ - 1].list = f.list
        /\ [g EXCEPT !.pc = f.after, !.pred = 0].new = f.new
        /\ [g EXCEPT !.pc = f.after, !.pred = 0].list = f.list
    BY <1>1, <2>2 DEF Frames
  <2>4. frame'[t].new = f.new /\ frame'[t].list = f.list
    BY <2>1, <2>3, FrameMoves
  <2> QED BY <1>2, <2>4 DEF SameLinking
<1>4. CASE LinkUpperFails(t)
  BY <1>1, <1>2, <1>4 DEF LinkUpperFails, Find, SetFrame, SameLinking, Frames
<1>5. CASE LinkBottomFails(t)
  BY <1>1, <1>2, <1>5 DEF LinkBottomFails, Find, SetFrame, SameLinking, Frames
<1>7. Idle.new = 0
  BY DEF Idle
<1>8. CASE GetNode(t)
  <2>1. \A n : Done(f, n, None).new = 0
    BY DEF Done, Idle
  <2>2. \A n : [Idle EXCEPT !.pc = "getHandle", !.ret = f.ret, !.list = f.list, !.n = n].new = 0
    BY DEF Idle
  <2>3. \/ \E n : frame' = [frame EXCEPT ![t] = Done(f, n, None)]
        \/ \E n : frame' = [frame EXCEPT ![t] =
             [Idle EXCEPT !.pc = "getHandle", !.ret = f.ret, !.list = f.list, !.n = n]]
    BY <1>8 DEF GetNode, SetFrame
  <2>5. frame'[t].new = 0
    BY <2>1, <2>2, <2>3, FrameMoves
  <2>4. f.new = 0
    BY <1>8, NotLinking DEF GetNode, At
  <2> QED BY <1>2, <2>4, <2>5 DEF SameLinking
<1>9. CASE GetHandle(t)
  <2>1. f.new = 0
    BY <1>9, NotLinking DEF GetHandle, At
  <2> QED BY <1>1, <1>2, <1>9, <2>1 DEF GetHandle, SetFrame, SameLinking, Frames
<1>10. CASE MarkRead(t)
  <2>1. f.new = 0
    BY <1>10, NotLinking DEF MarkRead, At
  <2> QED BY <1>1, <1>2, <1>10, <2>1 DEF MarkRead, SetFrame, SameLinking, Frames
<1>11. CASE IterateRead(t)
  <2>1. f.new = 0
    BY <1>11, NotLinking DEF IterateRead, At
  <2> QED BY <1>1, <1>2, <1>11, <2>1 DEF IterateRead, SetFrame, SameLinking, Frames
<1>12. IterateOn(f).new = f.new /\ \A n, c, l : MarkDeleted(f, n, c, l).new = f.new
  BY <1>1 DEF IterateOn, MarkDeleted, Frames
<1>13. CASE IterateMarked(t)
  <2>1. f.new = 0
    BY <1>13, NotLinking DEF IterateMarked, At
  <2>2. [f EXCEPT !.pc = "visit"].new = 0 /\ [Idle EXCEPT !.pc = f.after, !.list = f.list].new = 0
    BY <1>1, <2>1 DEF Frames, Idle
  <2>3. frame'[t].new = 0
    <3>1. \/ frame' = [frame EXCEPT ![t] = IterateOn(f)] \/ frame' = [frame EXCEPT ![t] = Idle]
          \/ frame' = [frame EXCEPT ![t] = [Idle EXCEPT !.pc = f.after, !.list = f.list]]
          \/ frame' = [frame EXCEPT ![t] = [f EXCEPT !.pc = "visit"]]
      BY <1>13 DEF IterateMarked, SetFrame
    <3> QED BY <1>7, <1>12, <2>1, <2>2, <3>1, FrameMoves
  <2> QED BY <1>2, <2>1, <2>3 DEF SameLinking
<1>14. CASE Marking(t) \/ Visit(t)
  <2>1. f.new = 0
    BY <1>14, NotLinking DEF Marking, Visit, At
  <2>2. frame'[t].new = 0
    <3>1. \/ frame' = [frame EXCEPT ![t] = Idle] \/ frame' = [frame EXCEPT ![t] = IterateOn(f)]
          \/ \E n, c, l : frame' = [frame EXCEPT ![t] = MarkDeleted(f, n, c, l)]
      BY <1>14 DEF Marking, Visit, SetFrame
    <3> QED BY <1>7, <1>12, <2>1, <3>1, FrameMoves
  <2> QED BY <1>2, <2>1, <2>2 DEF SameLinking
<1> QED BY <1>3, <1>4, <1>5, <1>8, <1>9, <1>10, <1>11, <1>13, <1>14 DEF LocalStep

\* The frame a call begins with.
LEMMA BeginFrame ==
  ASSUME NEW t, Begin(t), NEW e, e = [Idle EXCEPT !.list = 1]
  PROVE  \/ frame' = [frame EXCEPT ![t] = Find(e, Call(t).key, "getFor")]
         \/ frame' = [frame EXCEPT ![t] = Find([e EXCEPT !.h = Call(t).h], Call(t).key, "insert")]
         \/ frame' = [frame EXCEPT ![t] = Idle]
         \/ frame' = [frame EXCEPT ![t] = Find([e EXCEPT !.ret = "marking"], Call(t).key, "getNode")]
         \/ frame' = [frame EXCEPT ![t] = IterateLevel(e, "idle")]
<1> DEFINE g == [e EXCEPT !.h = Call(t).h]
<1>1. g.ret = "idle"
  BY DEF Idle
<1>2. \/ frame' = [frame EXCEPT ![t] = Find(e, Call(t).key, "getFor")]
      \/ frame' = [frame EXCEPT ![t] = StartInsert(g, Call(t).key)]
      \/ frame' = [frame EXCEPT ![t] = Find([e EXCEPT !.ret = "marking"], Call(t).key, "getNode")]
      \/ frame' = [frame EXCEPT ![t] = IterateLevel(e, "idle")]
  BY DEF Begin, SetFrame
<1> HIDE DEF g
<1>3. StartInsert(g, Call(t).key) \in {Idle, Find(g, Call(t).key, "insert")}
  BY <1>1, StartInsertFrame DEF Done
<1> QED BY <1>2, <1>3 DEF g

LEMMA OtherSameLinking ==
  ASSUME LInv, NEW t \in Threads, Begin(t) \/ NodeStep(t) \/ MarkCount(t) \/ LinkUpper(t)
  PROVE  SameLinking(t)
<1> DEFINE f == frame[t]
<1>1. f \in Frames /\ frame \in [Threads -> Frames]
  BY ActorFrame
<1>2. \E g \in Frames : frame' = [frame EXCEPT ![t] = g]
  BY BeginMoves, NodeMoves, MarkCountMoves, LinkUpperMoves DEF Moves
<1>3. CASE LinkUpper(t)
  <2>1. /\ Counting(f, f.new).new = f.new /\ Counting(f, f.new).list = f.list
        /\ [f EXCEPT !.up = @ + 1].new = f.new /\ [f EXCEPT !.up = @ + 1].list = f.list
    BY <1>1 DEF Counting, Idle, Frames
  <2>2. \/ frame' = [frame EXCEPT ![t] = Counting(f, f.new)]
        \/ frame' = [frame EXCEPT ![t] = [f EXCEPT !.up = @ + 1]]
    BY <1>3 DEF LinkUpper, SetFrame
  <2> QED BY <1>2, <2>1, <2>2, FrameMoves DEF SameLinking
<1>4. CASE Begin(t)
  <2>1. f.new = 0
    BY <1>4, NotLinking DEF Begin, Take, At
  <2> DEFINE e == [Idle EXCEPT !.list = 1]
  <2>2. /\ \A k : Find(e, k, "getFor").new = 0
        /\ \A k : Find([e EXCEPT !.h = Call(t).h], k, "insert").new = 0
        /\ \A k : Find([e EXCEPT !.ret = "marking"], k, "getNode").new = 0
        /\ IterateLevel(e, "idle").new = 0 /\ Idle.new = 0
    BY DEF Find, IterateLevel, Idle
  <2>3. \/ frame' = [frame EXCEPT ![t] = Find(e, Call(t).key, "getFor")]
        \/ frame' = [frame EXCEPT ![t] = Find([e EXCEPT !.h = Call(t).h], Call(t).key, "insert")]
        \/ frame' = [frame EXCEPT ![t] = Idle]
        \/ frame' = [frame EXCEPT ![t] = Find([e EXCEPT !.ret = "marking"], Call(t).key, "getNode")]
        \/ frame' = [frame EXCEPT ![t] = IterateLevel(e, "idle")]
    BY <1>4, BeginFrame
  <2>4. frame'[t].new = 0
    BY <2>2, <2>3, FrameMoves
  <2> QED BY <1>2, <2>1, <2>4 DEF SameLinking
<1>5. \A n, h : Done(f, n, h).new = 0
  BY DEF Done, Idle
<1>6. CASE GetHit(t) \/ UpdateHandle(t)
  <2>1. f.new = 0
    BY <1>6, NotLinking DEF GetHit, UpdateHandle, At
  <2>2. \E n, h : frame' = [frame EXCEPT ![t] = Done(f, n, h)]
    BY <1>6 DEF GetHit, UpdateHandle, SetFrame
  <2>3. frame'[t].new = 0
    BY <1>5, <2>2, FrameMoves
  <2> QED BY <1>2, <2>1, <2>3 DEF SameLinking
<1>7. CASE MarkCas(t) \/ MarkHandle(t) \/ MarkCount(t)
  <2>1. f.new = 0
    BY <1>7, NotLinking DEF MarkCas, MarkHandle, MarkCount, At
  <2>2. \A c : Marked(f, c).new = 0
    BY <1>1, <2>1 DEF Marked, Idle, Frames
  <2>3. /\ \A w : [f EXCEPT !.word = w].new = 0
        /\ [f EXCEPT !.pc = "markHandle"].new = 0
        /\ \A c : [f EXCEPT !.charge = c, !.pc = "markCount"].new = 0
    BY <1>1, <2>1 DEF Frames
  <2>4. \/ \E c : frame' = [frame EXCEPT ![t] = Marked(f, c)]
        \/ \E w : frame' = [frame EXCEPT ![t] = [f EXCEPT !.word = w]]
        \/ frame' = [frame EXCEPT ![t] = [f EXCEPT !.pc = "markHandle"]]
        \/ \E c : frame' = [frame EXCEPT ![t] = [f EXCEPT !.charge = c, !.pc = "markCount"]]
    BY <1>7 DEF MarkCas, MarkHandle, MarkCount, SetFrame, Goto
  <2>5. frame'[t].new = 0
    BY <2>2, <2>3, <2>4, FrameMoves
  <2> QED BY <1>2, <2>1, <2>5 DEF SameLinking
<1> QED BY <1>3, <1>4, <1>6, <1>7 DEF NodeStep

LEMMA SameLinkingSets ==
  ASSUME LInv, NEW t \in Threads, SameLinking(t), NEW l \in Lists
  PROVE  Linking(l)' = Linking(l)
<1>1. \A u \in Threads : u # t => frame'[u] = frame[u]
  BY DEF SameLinking, LInv, StateType
<1> QED BY <1>1 DEF SameLinking, Linking

(***************************************************************************)
(* Finite sets: the threads, and the nodes of a list.                      *)
(***************************************************************************)
LEMMA FiniteLists ==
  \A l : /\ IsFiniteSet(Linking(l)) /\ Cardinality(Linking(l)) \in Nat
         /\ IsFiniteSet(Linked(l)) /\ Cardinality(Linked(l)) \in Nat
<1> TAKE l
<1>1. IsFiniteSet(Linking(l))
  <2>1. Linking(l) \subseteq Threads
    BY DEF Linking
  <2> QED BY <2>1, ClientAssumption, FS_Subset
<1>2. IsFiniteSet(Linked(l))
  <2>1. Linked(l) \subseteq 1 .. MaxNodes
    BY DEF Linked, Nodes
  <2>2. IsFiniteSet(1 .. MaxNodes)
    BY ListAssumption, FS_Interval
  <2> QED BY <2>1, <2>2, FS_Subset
<1> QED BY <1>1, <1>2, FS_CardinalityType

LEMMA InitCount == ListInit => CountExact
<1> SUFFICES ASSUME ListInit, NEW l \in Lists
             PROVE  counts[l].nodes = Cardinality(Linked(l)) - Cardinality(Linking(l))
  BY DEF CountExact
<1>1. Linked(l) = {}
  BY InitStructure
<1>2. Linking(l) = {}
  BY DEF ListInit, Linking, Idle
<1>3. counts[l].nodes = 0
  BY DEF ListInit
<1> QED BY <1>1, <1>2, <1>3, FS_EmptySet

LEMMA NextCount == LInv /\ CountExact /\ [ListNext]_listVars => CountExact'
<1> SUFFICES ASSUME LInv, CountExact, [ListNext]_listVars, NEW l \in Lists
             PROVE  counts'[l].nodes = Cardinality(Linked(l)') - Cardinality(Linking(l)')
  BY DEF CountExact
<1>1. counts[l].nodes = Cardinality(Linked(l)) - Cardinality(Linking(l))
  BY DEF CountExact
<1>2. CASE UNCHANGED listVars
  <2>1. Linked(l)' = Linked(l) /\ Linking(l)' = Linking(l) /\ counts' = counts
    BY <1>2 DEF listVars, Linked, Linking
  <2> QED BY <1>1, <2>1
<1>3. ASSUME NEW t \in Threads, Begin(t) \/ Step(t)
      PROVE  counts'[l].nodes = Cardinality(Linked(l)') - Cardinality(Linking(l)')
  <2>1. CASE Begin(t) \/ LocalStep(t) \/ NodeStep(t) \/ MarkCount(t) \/ LinkUpper(t)
    <3>1. Linking(l)' = Linking(l)
      BY <2>1, LocalSameLinking, OtherSameLinking, SameLinkingSets
    <3>2. Linked(l)' = Linked(l)
      <4>1. CASE Begin(t) \/ LocalStep(t) \/ MarkCount(t)
        <5>1. node' = node
          BY <4>1, LocalMoves DEF Begin, MarkCount
        <5> QED BY <5>1 DEF Linked
      <4>2. CASE NodeStep(t)
        BY <4>2, NodeMoves, QuietSets
      <4>3. CASE LinkUpper(t)
        BY <4>3, LinkUpperStructure
      <4> QED BY <2>1, <4>1, <4>2, <4>3
    <3>3. counts'[l].nodes = counts[l].nodes
      <4>1. CASE MarkCount(t)
        BY <4>1 DEF MarkCount, LInv, StateType
      <4>2. CASE Begin(t) \/ LocalStep(t) \/ NodeStep(t) \/ LinkUpper(t)
        BY <4>2, LocalMoves, NodeMoves DEF Begin, LinkUpper
      <4> QED BY <2>1, <4>1, <4>2
    <3> QED BY <1>1, <3>1, <3>2, <3>3
  <2>2. CASE InsertCount(t)
    <3> DEFINE f == frame[t]
    <3>1. f.pc = "count" /\ f.list \in Lists /\ f.new # 0 /\ f \in Frames
      BY <2>2, ActorFrame DEF InsertCount, At, FrameInv, NewInv, IsLinking
    <3>2. Linked(l)' = Linked(l)
      BY <2>2 DEF InsertCount, Linked
    <3>3. frame'[t].new = 0 /\ \A u \in Threads : u # t => frame'[u] = frame[u]
      <4>1. Done(f, 0, None).new = 0
        BY DEF Done, Idle
      <4>2. frame' = [frame EXCEPT ![t] = Done(f, 0, None)]
        BY <2>2 DEF InsertCount, SetFrame
      <4> QED BY <4>1, <4>2 DEF LInv, StateType
    <3>4. counts' = [counts EXCEPT ![f.list] = [counts[f.list] EXCEPT !.nodes = counts[f.list].nodes + 1]]
      BY <2>2 DEF InsertCount
    <3>5. counts \in [Lists -> [nodes : Nat, marked : Nat]]
      BY DEF LInv, StateType
    <3>6. CASE f.list = l
      <4>1. Linking(l)' = Linking(l) \ {t} /\ t \in Linking(l)
        BY <3>1, <3>3, <3>6 DEF Linking
      <4>2. Cardinality(Linking(l)') = Cardinality(Linking(l)) - 1
        BY <4>1, FiniteLists, FS_RemoveElement
      <4>3. counts'[l].nodes = counts[l].nodes + 1
        BY <3>4, <3>5, <3>6
      <4> QED BY <1>1, <3>2, <4>2, <4>3, FiniteLists
    <3>7. CASE f.list # l
      <4>1. Linking(l)' = Linking(l)
        BY <3>3, <3>7 DEF Linking
      <4>2. counts'[l] = counts[l]
        BY <3>4, <3>5, <3>7
      <4> QED BY <1>1, <3>2, <4>1, <4>2
    <3> QED BY <3>6, <3>7
  <2>3. CASE LinkBottom(t)
    <3>1. PICK f \in Frames, new \in Nodes, top \in Levels :
           /\ f = frame[t] /\ f.pc = "insert" /\ FrameInv(f) /\ LinksBehind(f, new, top)
           /\ frame' = [frame EXCEPT ![t] =
                IF top = 0 THEN Counting(f, new)
                ELSE [f EXCEPT !.new = new, !.top = top, !.up = 1, !.h = None, !.pc = "linkUp"]]
           /\ node' \in [AllNodes -> NodeRecords]
      BY <2>3, LinkBottomEffect
    <3>2. frame'[t].new = new /\ frame'[t].list = f.list
      <4>1. /\ Counting(f, new).new = new /\ Counting(f, new).list = f.list
            /\ [f EXCEPT !.new = new, !.top = top, !.up = 1, !.h = None, !.pc = "linkUp"].new = new
            /\ [f EXCEPT !.new = new, !.top = top, !.up = 1, !.h = None, !.pc = "linkUp"].list = f.list
        BY CountingType DEF Frames
      <4> QED BY <3>1, <4>1, FrameMoves
    <3>3. f.new = 0 /\ new # 0 /\ f.list \in Lists
      BY <3>1 DEF FrameInv, NewInv, IsLinking, Nodes, LinksBehind
    <3>4. \A u \in Threads : u # t => frame'[u] = frame[u]
      BY <3>1 DEF LInv, StateType
    <3>5. counts' = counts
      BY <2>3 DEF LinkBottom
    <3>6. CASE f.list = l
      <4>1. Linked(l)' = Linked(l) \cup {new} /\ new \notin Linked(l)
        BY <3>1, <3>6, LinkBottomSets, Neighbours
      <4>2. Linking(l)' = Linking(l) \cup {t} /\ t \notin Linking(l)
        BY <3>1, <3>2, <3>3, <3>4, <3>6 DEF Linking
      <4>3. Cardinality(Linked(l)') = Cardinality(Linked(l)) + 1
        BY <4>1, FiniteLists, FS_AddElement
      <4>4. Cardinality(Linking(l)') = Cardinality(Linking(l)) + 1
        BY <4>2, FiniteLists, FS_AddElement
      <4> QED BY <1>1, <3>5, <4>3, <4>4, FiniteLists
    <3>7. CASE f.list # l
      <4>1. Linked(l)' = Linked(l)
        BY <3>1, <3>7, LinkBottomSets
      <4>2. Linking(l)' = Linking(l)
        BY <3>1, <3>2, <3>3, <3>4, <3>7 DEF Linking
      <4> QED BY <1>1, <3>5, <4>1, <4>2
    <3> QED BY <3>6, <3>7
  <2> QED BY <1>3, <2>1, <2>2, <2>3, StepKinds
<1> QED BY <1>2, <1>3 DEF ListNext

(***************************************************************************)
(* node_num_ is the number of nodes in the list less the inserts that have *)
(* linked their node and not counted it, for any number of threads.        *)
(***************************************************************************)
THEOREM NodesCounted == ListSpec => []CountExact
<1>1. LInv /\ CountExact /\ [ListNext]_listVars => CountExact'
  BY NextCount
<1> QED BY <1>1, InitCount, ListInvariance, PTL DEF ListSpec
-----------------------------------------------------------------------------
(***************************************************************************)
(* Level 0 as a chain: Into(l, n) are the nodes whose word leads to n.     *)
(***************************************************************************)
Into(l, n) == {m \in Chain(l) : Word(m, 0).to = n}

SingleChain == \A l \in Lists : \A n \in Linked(l) \cup {TailNode(l)} : \E m : Into(l, n) = {m}

LEMMA InitChain == ListInit => SingleChain
<1> SUFFICES ASSUME ListInit, NEW l \in Lists PROVE \E m : Into(l, TailNode(l)) = {m}
  BY InitStructure DEF SingleChain
<1>1. Structure /\ Linked(l) = {}
  BY InitStructure
<1>2. Word(HeadNode(l), 0).to = TailNode(l) /\ Word(TailNode(l), 0).to = 0
  BY <1>1, BottomLink, Numbers DEF Structure, Sentinels
<1>3. Into(l, TailNode(l)) = {HeadNode(l)}
  BY <1>1, <1>2, Numbers DEF Into, Chain
<1> QED BY <1>3

\* A step that changes no link of level 0 leaves the chain as it is.
LEMMA SameChain ==
  ASSUME SingleChain,
         \A l \in Lists : Linked(l)' = Linked(l),
         \A n \in AllNodes : Word(n, 0)'.to = Word(n, 0).to
  PROVE  SingleChain'
<1>1. \A l \in Lists : Chain(l)' = Chain(l) /\ Chain(l) \subseteq AllNodes
  BY Numbers DEF Chain, Linked
<1>2. \A l \in Lists : \A n : Into(l, n)' = Into(l, n)
  BY <1>1 DEF Into
<1> SUFFICES ASSUME NEW l \in Lists, NEW n \in Linked(l) \cup {TailNode(l)} PROVE \E m : Into(l, n)' = {m}
  BY DEF SingleChain
<1>3. PICK m : Into(l, n) = {m}
  BY DEF SingleChain
<1> QED BY <1>2, <1>3

LEMMA LinkBottomChain ==
  ASSUME LInv, SingleChain, NEW f \in Frames, NEW new \in Nodes, NEW top \in Levels, LinksBehind(f, new, top)
  PROVE  SingleChain'
<1> DEFINE l == f.list
           p == f.preds[0]
           s == f.succs[0].to
<1>1. /\ p \in Linked(l) \cup {HeadNode(l)} /\ p # new /\ p \in AllNodes
      /\ Word(p, 0).to = s /\ s \in Linked(l) \cup {TailNode(l)} /\ l \in Lists
      /\ \A k \in Lists : new \notin Linked(k) \cup {HeadNode(k), TailNode(k)}
  BY Neighbours DEF LinksBehind
<1>2. /\ \A k \in Lists : Linked(k)' = IF k = l THEN Linked(k) \cup {new} ELSE Linked(k)
      /\ \A m \in AllNodes : m # new => Word(m, 0)'.to = IF m = p THEN new ELSE Word(m, 0).to
  BY LinkBottomSets, Numbers
<1>3. Word(new, 0)'.to = s
  BY Numbers DEF LinksBehind, Levels
<1>4. \A k \in Lists : /\ Chain(k) \subseteq AllNodes /\ new \notin Chain(k)
                       /\ Chain(k)' = IF k = l THEN Chain(k) \cup {new} ELSE Chain(k)
  BY <1>1, <1>2, Numbers DEF Chain, Linked
<1>5. \A k \in Lists : p \in Chain(k) => k = l
  <2>1. \A k \in Lists : \A m \in Chain(k) : node[m].list = k
    BY DEF Chain, Linked, LInv, Structure, Sentinels
  <2> QED BY <1>1, <2>1 DEF Chain
<1>6. new # s
  BY <1>1
<1>7. \A m \in Chain(l) : Word(m, 0).to # new
  <2>1. ASSUME NEW m \in Linked(l) \cup {HeadNode(l)} PROVE Word(m, 0).to # new
    BY <1>1, BottomLink DEF LInv
  <2>2. Word(TailNode(l), 0).to # new
    BY <1>1, Numbers DEF LInv, Structure, Sentinels
  <2> QED BY <2>1, <2>2 DEF Chain
<1> SUFFICES ASSUME NEW k \in Lists, NEW n \in Linked(k)' \cup {TailNode(k)} PROVE \E m : Into(k, n)' = {m}
  BY DEF SingleChain
<1>8. CASE k # l
  <2>1. n \in Linked(k) \cup {TailNode(k)}
    BY <1>2, <1>8
  <2>2. Into(k, n)' = Into(k, n)
    BY <1>2, <1>4, <1>5, <1>8 DEF Into
  <2> QED BY <2>1, <2>2 DEF SingleChain
<1>9. CASE k = l /\ n = new
  <2>1. p \in Chain(l)
    BY <1>1 DEF Chain
  <2>2. Into(k, n)' = {p}
    BY <1>1, <1>2, <1>3, <1>4, <1>6, <1>7, <1>9, <2>1 DEF Into
  <2> QED BY <2>2
<1>10. CASE k = l /\ n = s
  <2>1. PICK m : Into(l, s) = {m}
    BY <1>1 DEF SingleChain
  <2>2. Into(l, s) = {p}
    BY <1>1, <2>1 DEF Into, Chain
  <2>3. Into(k, n)' = {new}
    BY <1>1, <1>2, <1>3, <1>4, <1>6, <1>10, <2>2 DEF Into
  <2> QED BY <2>3
<1>11. CASE k = l /\ n # s /\ n # new
  <2>1. n \in Linked(l) \cup {TailNode(l)}
    BY <1>2, <1>11
  <2>2. Into(k, n)' = Into(k, n)
    BY <1>1, <1>2, <1>3, <1>4, <1>11 DEF Into
  <2>3. PICK m : Into(l, n) = {m}
    BY <1>1, <2>1 DEF SingleChain
  <2> QED BY <1>11, <2>2, <2>3
<1> QED BY <1>8, <1>9, <1>10, <1>11

LEMMA NextChain == LInv /\ SingleChain /\ [ListNext]_listVars => SingleChain'
<1> SUFFICES ASSUME LInv, SingleChain, [ListNext]_listVars PROVE SingleChain'
  OBVIOUS
<1>1. ASSUME node' = node PROVE SingleChain'
  BY <1>1, SameChain DEF Linked, Word
<1>2. CASE UNCHANGED listVars
  BY <1>1, <1>2 DEF listVars
<1>3. ASSUME NEW t \in Threads, Begin(t) \/ Step(t) PROVE SingleChain'
  <2>1. CASE Begin(t) \/ LocalStep(t) \/ MarkCount(t) \/ InsertCount(t)
    BY <1>1, <2>1, LocalMoves DEF Begin, MarkCount, InsertCount
  <2>2. CASE NodeStep(t)
    <3>1. Quiet
      BY <2>2, NodeMoves
    <3>2. \A l \in Lists : Linked(l)' = Linked(l)
      BY <3>1, QuietSets
    <3>3. \A n \in AllNodes : Word(n, 0)'.to = Word(n, 0).to
      BY <3>1, Numbers DEF Quiet
    <3> QED BY <3>2, <3>3, SameChain
  <2>3. CASE LinkUpper(t)
    BY <2>3, LinkUpperStructure, SameChain
  <2>4. CASE LinkBottom(t)
    <3>1. PICK f \in Frames, new \in Nodes, top \in Levels :
           /\ f = frame[t] /\ f.pc = "insert" /\ FrameInv(f) /\ LinksBehind(f, new, top)
           /\ frame' = [frame EXCEPT ![t] =
                IF top = 0 THEN Counting(f, new)
                ELSE [f EXCEPT !.new = new, !.top = top, !.up = 1, !.h = None, !.pc = "linkUp"]]
           /\ node' \in [AllNodes -> NodeRecords]
      BY <2>4, LinkBottomEffect
    <3> QED BY <3>1, LinkBottomChain
  <2> QED BY <1>3, <2>1, <2>2, <2>3, <2>4, StepKinds
<1> QED BY <1>2, <1>3 DEF ListNext

LEMMA ChainIsChained == SingleChain => Chained
<1> SUFFICES ASSUME SingleChain, NEW l \in Lists, NEW n \in Linked(l) \cup {TailNode(l)}
             PROVE  Cardinality(Into(l, n)) = 1
  BY DEF Chained, Into
<1>1. PICK m : Into(l, n) = {m}
  BY DEF SingleChain
<1> QED BY <1>1, FS_Singleton

(***************************************************************************)
(* Exactly one word of level 0 leads to every node of a list and to tail_, *)
(* whatever inserts and marks race: no node is dropped out of level 0.     *)
(***************************************************************************)
THEOREM NoNodeLost == ListSpec => []Chained
<1>1. LInv /\ SingleChain /\ [ListNext]_listVars => SingleChain'
  BY NextChain
<1>2. ListSpec => []SingleChain
  BY <1>1, InitChain, ListInvariance, PTL DEF ListSpec
<1> QED BY <1>2, ChainIsChained, PTL
-----------------------------------------------------------------------------
(***************************************************************************)
(* Where the nodes that are due to an iteration with frame f lie: behind   *)
(* the node it has passed last, and not in front of the node it is at.     *)
(* KeysUnique and Gapless make them stay there when the iteration goes on  *)
(* by a word that may have changed since it began.                         *)
(***************************************************************************)
Iterating(f) == f.pc \in IterateLabels \/ (f.pc \in MarkLabels /\ f.ret = "visited")

DueAhead(f, d) ==
  /\ Iterating(f) /\ f.list = 1 /\ f.pred \in Linked(1) \cup {HeadNode(1)}
  /\ d \in Linked(1) /\ ~IsMarked(d) /\ node[f.pred].key < node[d].key
  /\ f.pc \in {"iterateMarked", "visit"} => node[f.n].key <= node[d].key
  /\ f.pc \in {"visited"} \cup MarkLabels => node[f.n].key < node[d].key

DueInv == \A t \in Threads : \A d \in due[t] : DueAhead(frame[t], d)

LEMMA FirstList == 1 \in Lists
BY ListAssumption DEF Lists

\* What is due to a thread stays ahead of it while other threads move.
LEMMA AheadGrow ==
  ASSUME LInv, Grow, NEW f \in Frames, FrameInv(f), NEW d, DueAhead(f, d), ~IsMarked(d)'
  PROVE  DueAhead(f, d)'
<1>1. /\ Linked(1) \subseteq Linked(1)'
      /\ \A n \in Linked(1) \cup {HeadNode(1), TailNode(1)} : node'[n].key = node[n].key
  BY FirstList, GrowSets DEF LInv, Structure
<1>2. f.pc \in {"iterateMarked", "visit", "visited"} \cup MarkLabels =>
        f.n \in Linked(1) \cup {TailNode(1)}
  BY DEF DueAhead, FrameInv, NodeInv, NodeLabels, VisitLabels
<1> QED BY <1>1, <1>2 DEF DueAhead

\* IterateOn goes on behind the node it is at.
LEMMA OnAhead ==
  ASSUME NEW f \in Frames, NEW d, DueAhead(f, d), f.n \in Linked(1), node[f.n].key < node[d].key
  PROVE  DueAhead(IterateOn(f), d)
<1>1. IterateOn(f).pc = "iterate" /\ IterateOn(f).list = f.list /\ IterateOn(f).pred = f.n
  BY DEF IterateOn, Frames
<1> QED BY <1>1 DEF DueAhead, Iterating, IterateLabels, VisitLabels, MarkLabels

\* The node an iteration is at has another key than a node that is still due.
LEMMA OtherKey ==
  ASSUME LInv, NEW f \in Frames, NEW d, DueAhead(f, d), f.n \in Linked(1), d # f.n,
         f.pc \in {"iterateMarked", "visit"}
  PROVE  node[f.n].key < node[d].key
<1>1. node[f.n].key <= node[d].key /\ d \in Linked(1)
  BY DEF DueAhead
<1>2. node[f.n].key # node[d].key
  BY <1>1, FirstList DEF LInv, Structure, KeysUnique
<1> QED BY <1>1, <1>2, FirstList, ListKeys

LEMMA IterateReadAhead ==
  ASSUME LInv, NEW t \in Threads, IterateRead(t), NEW d, DueAhead(frame[t], d),
         NEW g, frame' = [frame EXCEPT ![t] = g]
  PROVE  DueAhead(g, d)
<1> DEFINE f == frame[t]
           n == Word(f.pred, 0).to
<1>1. f \in Frames /\ f.pc = "iterate" /\ g = frame'[t]
  BY ActorFrame, FrameMoves DEF IterateRead, At
<1>2. g = [f EXCEPT !.n = n, !.pc = "iterateMarked"]
  BY <1>1, ActorFrame DEF IterateRead, SetFrame
<1>3. g.n = n /\ g.pc = "iterateMarked" /\ g.list = f.list /\ g.pred = f.pred
  BY <1>1, <1>2 DEF Frames
<1>4. node[n].key <= node[d].key
  BY FirstList DEF DueAhead, LInv, Structure, Gapless
<1> QED BY <1>3, <1>4 DEF DueAhead, Iterating, IterateLabels, VisitLabels, MarkLabels

LEMMA IterateMarkedAhead ==
  ASSUME LInv, NEW t \in Threads, IterateMarked(t), NEW d, DueAhead(frame[t], d),
         NEW g, frame' = [frame EXCEPT ![t] = g]
  PROVE  DueAhead(g, d)
<1> DEFINE f == frame[t]
<1>1. f \in Frames /\ FrameInv(f) /\ f.pc = "iterateMarked" /\ f.list = 1
  BY ActorFrame DEF IterateMarked, At, DueAhead
<1>2. g = IF IsMarked(f.n) THEN IterateOn(f)
          ELSE IF f.n = TailNode(f.list)
          THEN IF f.after = "idle" THEN Idle ELSE [Idle EXCEPT !.pc = f.after, !.list = f.list]
          ELSE [f EXCEPT !.pc = "visit"]
  BY ActorFrame DEF IterateMarked, SetFrame
<1>3. f.n \in Linked(1) \cup {TailNode(1)}
  BY <1>1 DEF FrameInv, NodeInv, NodeLabels, VisitLabels
<1>4. f.n # TailNode(1)
  BY <1>1, FirstList, ListKeys, ListAssumption DEF DueAhead
<1>5. CASE IsMarked(f.n)
  <2>1. d # f.n
    BY <1>5 DEF DueAhead
  <2> QED BY <1>1, <1>2, <1>3, <1>4, <1>5, <2>1, OtherKey, OnAhead
<1>6. CASE ~IsMarked(f.n)
  <2>1. g = [f EXCEPT !.pc = "visit"]
    BY <1>1, <1>2, <1>4, <1>6
  <2>2. g.n = f.n /\ g.pc = "visit" /\ g.list = f.list /\ g.pred = f.pred
    BY <1>1, <2>1 DEF Frames
  <2> QED BY <1>1, <2>2 DEF DueAhead, Iterating, IterateLabels, VisitLabels, MarkLabels
<1> QED BY <1>5, <1>6

LEMMA VisitAhead ==
  ASSUME LInv, NEW t \in Threads, Visit(t), NEW d, DueAhead(frame[t], d),
         ~(At(t, "visit") /\ frame[t].n = d),
         NEW g, frame' = [frame EXCEPT ![t] = g]
  PROVE  DueAhead(g, d)
<1> DEFINE f == frame[t]
<1>1. f \in Frames /\ FrameInv(f) /\ f.pc \in {"visit", "visited"} /\ f.list = 1
  BY ActorFrame DEF Visit, At, DueAhead
<1>2. g = IterateOn(f) \/ g = MarkDeleted(f, f.n, TRUE, "visited")
  BY ActorFrame DEF Visit, SetFrame
<1>3. f.n \in Linked(1)
  BY <1>1, NodeInHand DEF NodeLabels, VisitLabels
<1>4. node[f.n].key < node[d].key
  BY <1>1, <1>3, OtherKey DEF At, DueAhead
<1>5. CASE g = MarkDeleted(f, f.n, TRUE, "visited")
  <2>1. g.n = f.n /\ g.pc = "mark" /\ g.list = f.list /\ g.pred = f.pred /\ g.ret = "visited"
    BY <1>1, <1>5 DEF Frames, MarkDeleted
  <2> QED BY <1>1, <1>4, <2>1 DEF DueAhead, Iterating, IterateLabels, VisitLabels, MarkLabels
<1> QED BY <1>1, <1>2, <1>3, <1>4, <1>5, OnAhead

LEMMA MarkAhead ==
  ASSUME LInv, NEW t \in Threads, MarkRead(t) \/ MarkCas(t) \/ MarkHandle(t) \/ MarkCount(t),
         NEW d, DueAhead(frame[t], d), NEW g, frame' = [frame EXCEPT ![t] = g]
  PROVE  DueAhead(g, d)
<1> DEFINE f == frame[t]
<1>1. f \in Frames /\ f.pc \in MarkLabels /\ frame'[t] = g
  BY ActorFrame, FrameMoves DEF MarkRead, MarkCas, MarkHandle, MarkCount, At, MarkLabels
<1>2. f.ret = "visited"
  BY <1>1 DEF DueAhead, Iterating, IterateLabels, VisitLabels, MarkLabels
<1>3. \/ \E c : g = Marked(f, c)
      \/ \E w, p : p \in MarkLabels /\ g = [f EXCEPT !.word = w, !.pc = p]
      \/ \E w : g = [f EXCEPT !.word = w]
      \/ \E p : p \in MarkLabels /\ g = [f EXCEPT !.pc = p]
      \/ \E c, p : p \in MarkLabels /\ g = [f EXCEPT !.charge = c, !.pc = p]
  <2>1. CASE MarkRead(t)
    <3>1. frame' = [frame EXCEPT ![t] = [f EXCEPT !.word = Word(f.n, 0), !.pc = "markCas"]]
      BY <2>1 DEF MarkRead, SetFrame
    <3>2. g = [f EXCEPT !.word = Word(f.n, 0), !.pc = "markCas"]
      BY <1>1, <3>1, FrameMoves
    <3>3. "markCas" \in MarkLabels
      BY DEF MarkLabels
    <3> QED BY <3>2, <3>3
  <2>2. CASE MarkCas(t)
    BY <2>2, ActorFrame DEF MarkCas, SetFrame, Goto, MarkLabels
  <2>3. CASE MarkHandle(t)
    <3> DEFINE c == Charge(node[f.n].handle)
    <3>1. \/ frame' = [frame EXCEPT ![t] = [f EXCEPT !.charge = c, !.pc = "markCount"]]
          \/ frame' = [frame EXCEPT ![t] = Marked(f, c)]
      BY <2>3 DEF MarkHandle, SetFrame
    <3>2. g = [f EXCEPT !.charge = c, !.pc = "markCount"] \/ g = Marked(f, c)
      BY <1>1, <3>1, FrameMoves
    <3>3. "markCount" \in MarkLabels
      BY DEF MarkLabels
    <3> HIDE DEF c
    <3> QED BY <3>2, <3>3
  <2>4. CASE MarkCount(t)
    BY <2>4, ActorFrame DEF MarkCount, SetFrame
  <2> QED BY <2>1, <2>2, <2>3, <2>4
<1>4. /\ g.n = f.n /\ g.list = f.list /\ g.pred = f.pred /\ g.ret = f.ret
      /\ g.pc = "visited" \/ g.pc \in MarkLabels
  <2>1. \A c : Marked(f, c) = [f EXCEPT !.pc = f.ret, !.word = NullWord, !.counted = FALSE, !.charge = c]
    BY <1>2 DEF Marked
  <2>2. CASE \E c : g = Marked(f, c)
    <3>1. PICK c : g = [f EXCEPT !.pc = f.ret, !.word = NullWord, !.counted = FALSE, !.charge = c]
      BY <2>1, <2>2
    <3> QED BY <1>1, <1>2, <3>1 DEF Frames
  <2>3. CASE \E w, p : p \in MarkLabels /\ g = [f EXCEPT !.word = w, !.pc = p]
    BY <1>1, <2>3 DEF Frames
  <2>4. CASE \E w : g = [f EXCEPT !.word = w]
    BY <1>1, <2>4 DEF Frames
  <2>5. CASE \E p : p \in MarkLabels /\ g = [f EXCEPT !.pc = p]
    BY <1>1, <2>5 DEF Frames
  <2>6. CASE \E c, p : p \in MarkLabels /\ g = [f EXCEPT !.charge = c, !.pc = p]
    BY <1>1, <2>6 DEF Frames
  <2> QED BY <1>3, <2>2, <2>3, <2>4, <2>5, <2>6
<1> QED BY <1>1, <1>4 DEF DueAhead, Iterating, IterateLabels, VisitLabels, MarkLabels

\* The steps a thread takes inside an iteration.
LEMMA IterationStep ==
  ASSUME LInv, NEW t \in Threads, Begin(t) \/ Step(t), Iterating(frame[t])
  PROVE  \/ IterateRead(t) \/ IterateMarked(t) \/ Visit(t)
         \/ MarkRead(t) \/ MarkCas(t) \/ MarkHandle(t) \/ MarkCount(t)
<1>1. frame[t].pc \in IterateLabels \cup MarkLabels
  BY DEF Iterating
<1>2. frame[t].pc \notin {"idle", "find", "getNode", "getFor", "getHandle", "getHit", "insert", "linkUp", "count", "marking"}
  BY <1>1 DEF IterateLabels, VisitLabels, MarkLabels
<1> QED BY <1>2 DEF Step, ListStep, Begin, Take, At, FindStep, GetNode, GetHandle, GetHit, UpdateHandle,
                    LinkBottom, LinkBottomFails, LinkUpper, LinkUpperFails, InsertCount, Marking

LEMMA ActorAhead ==
  ASSUME LInv, NEW t \in Threads, Begin(t) \/ Step(t), NEW d, DueAhead(frame[t], d),
         ~(At(t, "visit") /\ frame[t].n = d), ~IsMarked(d)'
  PROVE  DueAhead(frame[t], d)'
<1>1. \/ IterateRead(t) \/ IterateMarked(t) \/ Visit(t)
      \/ MarkRead(t) \/ MarkCas(t) \/ MarkHandle(t) \/ MarkCount(t)
  BY IterationStep DEF DueAhead
<1>2. PICK g \in Frames : frame' = [frame EXCEPT ![t] = g] /\ FrameInv(g)
  BY <1>1, IterateReadMoves, IterateMarkedMoves, VisitMoves, MarkReadMoves, MarkCasMoves, MarkHandleMoves,
     MarkCountMoves DEF Moves
<1>3. DueAhead(g, d)
  BY <1>1, <1>2, IterateReadAhead, IterateMarkedAhead, VisitAhead, MarkAhead
<1>4. Grow
  BY StepGrows DEF ListNext
<1>5. DueAhead(g, d)'
  BY <1>2, <1>3, <1>4, AheadGrow
<1>6. frame'[t] = g
  BY <1>2, FrameMoves
<1> QED BY <1>5, <1>6 DEF DueAhead, Iterating

\* All unmarked nodes are ahead of an iteration that begins.
LEMMA BeginAhead ==
  ASSUME LInv, NEW t \in Threads, Begin(t), frame'[t].pc = "iterate", NEW d \in Linked(1), ~IsMarked(d)
  PROVE  DueAhead(frame[t], d)'
<1> DEFINE e == [Idle EXCEPT !.list = 1]
<1>1. \/ frame' = [frame EXCEPT ![t] = Find(e, Call(t).key, "getFor")]
      \/ frame' = [frame EXCEPT ![t] = Find([e EXCEPT !.h = Call(t).h], Call(t).key, "insert")]
      \/ frame' = [frame EXCEPT ![t] = Idle]
      \/ frame' = [frame EXCEPT ![t] = Find([e EXCEPT !.ret = "marking"], Call(t).key, "getNode")]
      \/ frame' = [frame EXCEPT ![t] = IterateLevel(e, "idle")]
  BY BeginFrame
<1>2. /\ \A k : Find(e, k, "getFor").pc = "find"
      /\ \A k : Find([e EXCEPT !.h = Call(t).h], k, "insert").pc = "find"
      /\ \A k : Find([e EXCEPT !.ret = "marking"], k, "getNode").pc = "find"
      /\ Idle.pc = "idle"
  BY DEF Find, Idle
<1>3. frame'[t] = IterateLevel(e, "idle")
  BY <1>1, <1>2, FrameMoves
<1>4. frame'[t].list = 1 /\ frame'[t].pred = HeadNode(1)
  BY <1>3 DEF IterateLevel, Idle
<1>5. node' = node
  BY DEF Begin
<1>6. node[HeadNode(1)].key < node[d].key
  BY FirstList, ListKeys
<1> QED BY <1>4, <1>5, <1>6 DEF DueAhead, Iterating, IterateLabels, VisitLabels, MarkLabels, IsMarked, Word,
                                Linked

LEMMA InitDue == DueInit => DueInv
BY DEF DueInit, DueInv

LEMMA NextDue == LInv /\ DueInv /\ [DueNext]_<<listVars, due>> => DueInv'
<1> SUFFICES ASSUME LInv, DueInv, [DueNext]_<<listVars, due>> PROVE DueInv'
  OBVIOUS
<1>1. CASE UNCHANGED <<listVars, due>>
  BY <1>1 DEF DueInv, listVars, DueAhead, Iterating, Linked, IsMarked, Word
<1>2. CASE DueNext
  <2>1. PICK t \in Threads : Begin(t) \/ Step(t)
    BY <1>2 DEF DueNext, ListNext
  <2>2. Grow
    BY <1>2, StepGrows DEF DueNext
  <2> SUFFICES ASSUME NEW u \in Threads, NEW d \in due'[u] PROVE DueAhead(frame[u], d)'
    BY DEF DueInv
  <2>3. \E g : frame' = [frame EXCEPT ![t] = g]
    BY <2>1 DEF Begin, Step, ListStep, FindStep, GetNode, GetHandle, GetHit, UpdateHandle, LinkBottom,
                LinkBottomFails, LinkUpper, LinkUpperFails, InsertCount, MarkRead, MarkCas, MarkHandle,
                MarkCount, IterateRead, IterateMarked, Marking, Visit, SetFrame, Goto
  <2>4. u # t => frame'[u] = frame[u]
    BY <2>3, ActorFrame
  <2>5. CASE At(u, "idle") /\ frame'[u].pc = "iterate"
    <3>1. u = t
      BY <2>4, <2>5 DEF At
    <3>2. Begin(t)
      BY <2>1, <2>5, <3>1 DEF Step, ListStep, At, FindStep, GetNode, GetHandle, GetHit, UpdateHandle,
                              LinkBottom,
             LinkBottomFails, LinkUpper, LinkUpperFails, InsertCount, MarkRead, MarkCas, MarkHandle,
             MarkCount, IterateRead, IterateMarked, Marking, Visit
    <3>3. d \in Linked(1) /\ ~IsMarked(d)
      BY <1>2, <2>5 DEF DueNext
    <3> QED BY <2>5, <3>1, <3>2, <3>3, BeginAhead
  <2>6. CASE ~(At(u, "idle") /\ frame'[u].pc = "iterate")
    <3>1. d \in due[u] /\ ~IsMarked(d)' /\ ~(At(u, "visit") /\ frame[u].n = d)
      BY <1>2, <2>6 DEF DueNext
    <3>2. DueAhead(frame[u], d)
      BY <3>1 DEF DueInv
    <3>3. CASE u = t
      BY <2>1, <3>1, <3>2, <3>3, ActorAhead
    <3>4. CASE u # t
      <4>1. PICK f \in Frames : f = frame[u] /\ FrameInv(f)
        BY ActorFrame
      <4>2. DueAhead(f, d)'
        BY <2>2, <3>1, <3>2, <4>1, AheadGrow
      <4> QED BY <2>4, <3>4, <4>1, <4>2
    <3> QED BY <3>3, <3>4
  <2> QED BY <2>5, <2>6
<1> QED BY <1>1, <1>2

LEMMA DueComplete == DueInv => IterationComplete
<1> SUFFICES ASSUME DueInv, NEW t \in Threads, NEW n \in due[t]
             PROVE  /\ ~At(t, "idle")
                    /\ frame[t].pc \in {"iterate", "visited"} => node[n].key > node[frame[t].pred].key
  BY DEF IterationComplete
<1>1. DueAhead(frame[t], n)
  BY DEF DueInv
<1>2. ~At(t, "idle")
  BY <1>1 DEF DueAhead, Iterating, At, IterateLabels, VisitLabels, MarkLabels
<1>3. node[frame[t].pred].key < node[n].key
  BY <1>1 DEF DueAhead
<1> QED BY <1>2, <1>3

(***************************************************************************)
(* IterateLevel passes over no node that was in the list, unmarked, when   *)
(* it began and that nobody marks before it gets there, however many       *)
(* inserts and marks change the words it follows; so neither does the copy *)
(* of a compaction.                                                        *)
(***************************************************************************)
THEOREM NothingPassedOver == DueSpec => []IterationComplete
<1>1. DueSpec => []LInv
  <2>1. DueInit => LInv
    BY InitLInv DEF DueInit
  <2>2. LInv /\ [DueNext]_<<listVars, due>> => LInv'
    <3>1. [DueNext]_<<listVars, due>> => [ListNext]_listVars
      BY DEF DueNext
    <3> QED BY <3>1, NextLInv
  <2> QED BY <2>1, <2>2, PTL DEF DueSpec
<1>2. LInv /\ DueInv /\ [DueNext]_<<listVars, due>> => DueInv'
  BY NextDue
<1>3. DueSpec => []DueInv
  BY <1>1, <1>2, InitDue, PTL DEF DueSpec
<1> QED BY <1>3, DueComplete, PTL
=============================================================================
