----------------------------- MODULE MCLRUCache -----------------------------
(***************************************************************************)
(* Instances of LRUHistory for TLC.                                        *)
(***************************************************************************)
EXTENDS LRUHistory, TLC

CONSTANTS v1, v2

\* A key always comes with the same charge; its value may change.  Key 6 takes
\* the whole of a capacity of 4.
FixedCharge(k) == IF k = 6 THEN 4 ELSE 1 + (k \div 4)
FixedHandles == [k \in Keys |-> {[val |-> v, charge |-> FixedCharge(k)] : v \in {v1, v2}}]
=============================================================================
