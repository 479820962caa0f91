-------------------------- MODULE MCAtomicSkipList --------------------------
(***************************************************************************)
(* Instances of AtomicSkipList, with its history variable, for TLC.        *)
(***************************************************************************)
EXTENDS ListHistory, TLC

CONSTANTS t1, t2, t3, v1, v2

Put(k, v) == [op |-> "insert", key |-> k, h |-> [key |-> k, val |-> v, charge |-> 1]]
MCHandles == [key : {1, 2}, val : {v1, v2}, charge : {1}]
PutNull(k) == [op |-> "insert", key |-> k, h |-> None]
Get(k) == [op |-> "get", key |-> k, h |-> None]
Mark(k) == [op |-> "mark", key |-> k, h |-> None]
Sweep == [op |-> "sweep", key |-> 0, h |-> None]

Each(a, b, c) == t1 :> a @@ t2 :> b @@ t3 :> c

\* Inserts of neighbours and of one key beside an iteration, a reader and an
\* evictor beside inserts, one of them without a handle, an iteration and an
\* evictor that mark one node.
Neighbours == {
  Each(<<Put(1, v1), Put(2, v1)>>, <<Put(2, v2)>>, <<Sweep>>),
  Each(<<Put(1, v1)>>, <<Put(2, v2)>>, <<Put(2, v1), Sweep>>),
  Each(<<Put(1, v1), Put(2, v1)>>, <<Mark(1), Get(1)>>, <<PutNull(1)>>),
  Each(<<Put(1, v1), Put(2, v1)>>, <<Mark(1)>>, <<Sweep>>)}

\* Two inserts of different keys, and nobody who marks.
TwoInserts == {Each(<<Put(1, v1)>>, <<Put(2, v1)>>, <<>>)}
=============================================================================
