-------------------------- MODULE MCHashSkipCache --------------------------
(***************************************************************************)
(* Instances of HashSkipCache, with its history variable, for TLC.         *)
(***************************************************************************)
EXTENDS CacheHistory

CONSTANTS c1, v1, v2

Put(k, v) == [op |-> "insert", key |-> k, h |-> [key |-> k, val |-> v, charge |-> 1]]
MCHandles == [key : {1, 2}, val : {v1, v2}, charge : {1}]
PutNull(k) == [op |-> "insert", key |-> k, h |-> None]
Look(k) == [op |-> "get", key |-> k, h |-> None]

\* The calls of a client beside the two threads of the cache: an update, two
\* keys of one bucket, a hit, and an Insert without a handle.
OneClient == {[t \in Threads |-> IF t = c1 THEN s ELSE <<>>] :
                s \in {<<Put(1, v1), Put(1, v2)>>, <<Put(1, v1), Put(2, v1)>>,
                       <<Put(1, v1), Look(1)>>, <<Put(1, v1), PutNull(1)>>}}
=============================================================================
