---------------------------- MODULE CacheHistory ----------------------------
(***************************************************************************)
(* HashSkipCache with a history variable: the keys whose value has changed *)
(* in the list a compaction is copying, since the copying began.           *)
(***************************************************************************)
EXTENDS HashSkipCache

VARIABLE changed

Keys == 0 .. MaxKey - 1

\* The handle of a node of list l with key k, and what Get returns for it.
WithKey(l, k) == {n \in Linked(l) : node[n].key = k}
Stored(l, k) == IF WithKey(l, k) = {} THEN None ELSE node[CHOOSE n \in WithKey(l, k) : TRUE].handle
Visible(l, k) == IF \A n \in WithKey(l, k) : IsMarked(n) THEN None ELSE Stored(l, k)

HistoryInit == CacheInit /\ changed = {}

\* An Insert that updates a deleted node stores a handle that is not visible.
HistoryNext ==
  /\ CacheNext
  /\ changed' = LET l == frame[Compactor].list
                IN  IF call[Compactor].new = 0 THEN {}
                    ELSE changed \cup {k \in Keys : \/ Visible(l, k)' # Visible(l, k)
                                                    \/ Stored(l, k)' # Stored(l, k)}

HistorySpec == HistoryInit /\ [][HistoryNext]_<<cacheVars, changed>>

FairHistorySpec == HistorySpec /\ CacheFairness

(***************************************************************************)
(* "copying live entries to a new one, atomically swapping the pointers":  *)
(* when the copy takes the place of the bucket it has what the bucket has, *)
(* for every key whose value has not changed since the copying began.      *)
(***************************************************************************)
SwapComplete ==
  At(Compactor, "compactSwap") =>
    \A k \in Keys \ changed :
      Visible(call[Compactor].new, k) = Visible(frame[Compactor].list, k)
=============================================================================
