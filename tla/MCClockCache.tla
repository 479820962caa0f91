--------------------------- MODULE MCClockCache ---------------------------
(* Instances of ClockCache for TLC. *)
EXTENDS ClockCache, TLC

CONSTANTS t1, t2, t3, k1, k2, k3, k4, v1, v2

\* k1 and k2 collide at slot 0 and then part; k3 and k4 start where k1 goes on.
MCBase == k1 :> 0 @@ k2 :> 0 @@ k3 :> 1 @@ k4 :> 1
MCIncrement == k1 :> 1 @@ k2 :> 3 @@ k3 :> 1 @@ k4 :> 3

Put(k, v, c) == [op |-> "insert", h |-> [key |-> k, val |-> v, charge |-> c]]
Get(k) == [op |-> "lookup", h |-> [key |-> k, val |-> None, charge |-> 0]]
Del(k) == [op |-> "erase", h |-> [key |-> k, val |-> None, charge |-> 0]]

\* One thread inserts, updates, erases and evicts under two that look up.
OneWriter == t1 :> {Put(k1, v1, 1), Put(k1, v2, 2), Put(k2, v1, 1), Del(k1)}
             @@ t2 :> {Get(k1)} @@ t3 :> {Get(k1)}

\* Inserts of different keys that evict one another, and a lookup of one of them.
Inserters == t1 :> {Put(k1, v1, 1), Put(k3, v1, 1), Get(k2)}
             @@ t2 :> {Put(k2, v1, 2), Put(k4, v1, 4)}

\* A table of two slots: inserts that chase one another around it, and lookups
\* whose handles may be kept for ever.
Crowded == t1 :> {Put(k1, v1, 1), Put(k3, v1, 1), Get(k1)}
           @@ t2 :> {Put(k2, v1, 1), Get(k2)}

\* An insert and an erase of one key, one of each, at the same time.
EraseRace == t1 :> {Put(k1, v1, 1)} @@ t2 :> {Del(k1)}

\* One writer that updates k1 after what made k1 go past its base is gone, and
\* a reader of k1.
Updater == t1 :> {Put(k2, v1, 1), Put(k1, v1, 1), Del(k2), Put(k1, v2, 1), Put(k3, v1, 1), Get(k1)}
           @@ t2 :> {Get(k1)}
=============================================================================
