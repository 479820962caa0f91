----------------------------- MODULE LRUHistory -----------------------------
(***************************************************************************)
(* LRUCache with a history variable: all keys ever inserted, by their last *)
(* use, whether they are still in the cache or not.                        *)
(***************************************************************************)
EXTENDS LRUCache

VARIABLE order  \* order[s]: the keys of shard s, the last used first

Use(seq, k) == <<k>> \o RemoveFirst(seq, k)

HistoryInit == Init /\ order = [s \in Shards |-> <<>>]

\* A hit and an insert are uses, a miss is not.
HistoryNext ==
  /\ Defined
  /\ \E k \in Keys :
       LET s == ShardOf(k)
       IN \/ Get(k) /\ order' = IF k \in map[s] THEN [order EXCEPT ![s] = Use(@, k)] ELSE order
          \/ /\ \E h \in Handles[k] : InsertNew(k, h) \/ InsertUpdate(k, h)
             /\ order' = [order EXCEPT ![s] = Use(@, k)]

HistorySpec == HistoryInit /\ [][HistoryNext]_<<vars, order>>

(***************************************************************************)
(* "the classic Least Recently Used algorithm": the entries are the most   *)
(* recently used keys, in that order, so what Insert evicted was used less *)
(* recently than anything it kept.                                         *)
(***************************************************************************)
LeastRecentlyUsed ==
  Defined => \A s \in Shards :
    [i \in DOMAIN entries[s] |-> entries[s][i].key] = SubSeq(order[s], 1, Len(entries[s]))
=============================================================================
