--------------------------- MODULE LRUCacheProofs ---------------------------
(***************************************************************************)
(* Proofs about LRUCache and LRUHistory, for every set of keys, every      *)
(* number of shards and every option.                                      *)
(***************************************************************************)
EXTENDS LRUHistory, SequenceTheorems, WellFoundedInduction, TLAPS

-----------------------------------------------------------------------------
(***************************************************************************)
(* Least elements.                                                         *)
(***************************************************************************)
\* A set of natural numbers that is not empty has a least element.
LEMMA LeastNat ==
  ASSUME NEW T \in SUBSET Nat, T # {}
  PROVE  \E m \in T : \A n \in T : m <= n
<1>1. PICK m \in T : \A n \in T : ~(<<n, m>> \in OpToRel(<, Nat))
  BY NatLessThanWellFounded, WFMin
<1>2. \A n \in T : <<n, m>> \notin OpToRel(<, Nat) => m <= n
  BY DEF OpToRel
<1> QED BY <1>1, <1>2

\* Min is that element.
LEMMA MinNat ==
  ASSUME NEW T \in SUBSET Nat, T # {}
  PROVE  Min(T) \in T /\ \A n \in T : Min(T) <= n
BY LeastNat DEF Min

\* Max of two numbers.
LEMMA MaxOfTwo ==
  ASSUME NEW m \in Int, NEW n \in Int
  PROVE  Max({m, n}) \in {m, n} /\ Max({m, n}) >= m /\ Max({m, n}) >= n
<1>1. \E x \in {m, n} : \A y \in {m, n} : x >= y
  <2>1. CASE m >= n BY <2>1
  <2>2. CASE m < n BY <2>2
  <2> QED BY <2>1, <2>2
<1> QED BY <1>1 DEF Max
-----------------------------------------------------------------------------
(***************************************************************************)
(* The charge of a list is the last of its partial sums.                   *)
(***************************************************************************)
Charges(list) == list \in Seq(Entries) /\ \A i \in 1 .. Len(list) : list[i].charge \in Nat

Sums(list, n, f) == /\ f \in [0 .. n -> Nat]
                    /\ f[0] = 0
                    /\ \A i \in 1 .. n : f[i] = f[i - 1] + list[i].charge

\* Every entry has a charge.
LEMMA EntriesCharged ==
  ASSUME NEW list \in Seq(Entries)
  PROVE  Charges(list) /\ \A i \in 1 .. Len(list) : list[i] \in Entries
<1>1. \A e \in Entries : e.charge \in Nat
  BY OptionsAssumption DEF Entries, Entry
<1>2. \A i \in 1 .. Len(list) : list[i] \in Entries
  BY ElementOfSeq
<1> QED BY <1>1, <1>2 DEF Charges

\* The partial sums exist.
LEMMA SumsExist ==
  ASSUME NEW list, Charges(list)
  PROVE  \E f : Sums(list, Len(list), f)
<1> DEFINE Bad == {n \in 0 .. Len(list) : ~\E f : Sums(list, n, f)}
<1>0. Len(list) \in Nat BY LenProperties DEF Charges
<1>1. SUFFICES ASSUME Bad # {} PROVE FALSE BY <1>0
<1>2. PICK n \in Bad : \A m \in Bad : n <= m
  <2>1. Bad \in SUBSET Nat BY <1>0
  <2> HIDE DEF Bad
  <2> QED BY <1>1, <2>1, LeastNat
<1>3. n # 0
  <2>1. Sums(list, 0, [i \in 0 .. 0 |-> 0]) BY DEF Sums
  <2> QED BY <2>1
<1>4. n - 1 \notin Bad /\ n - 1 \in 0 .. Len(list) /\ n \in 1 .. Len(list) BY <1>0, <1>2, <1>3
<1>5. PICK f : Sums(list, n - 1, f) BY <1>4
<1>6. list[n].charge \in Nat BY <1>4 DEF Charges
<1> DEFINE g == [i \in 0 .. n |-> IF i = n THEN f[n - 1] + list[n].charge ELSE f[i]]
<1>7. f \in [0 .. n - 1 -> Nat] /\ f[0] = 0
  BY <1>5 DEF Sums
<1>8. \A i \in 1 .. n - 1 : f[i] = f[i - 1] + list[i].charge
  BY <1>5 DEF Sums
<1>9. n \in Nat /\ n - 1 \in Nat /\ f[n - 1] + list[n].charge \in Nat
  BY <1>3, <1>4, <1>6, <1>7
<1>10. g \in [0 .. n -> Nat] /\ g[0] = 0 BY <1>3, <1>7, <1>9
<1>11. \A i \in 1 .. n : g[i] = g[i - 1] + list[i].charge
  <2> TAKE i \in 1 .. n
  <2>1. CASE i = n
    <3>1. g[i] = f[n - 1] + list[n].charge /\ g[i - 1] = f[n - 1] BY <1>9, <2>1
    <3> QED BY <2>1, <3>1
  <2>2. CASE i # n
    <3>1. i \in 1 .. n - 1 /\ i - 1 # n BY <1>9, <2>2
    <3>2. g[i] = f[i] /\ g[i - 1] = f[i - 1] BY <1>9, <3>1, <2>2
    <3> QED BY <1>8, <3>1, <3>2
  <2> QED BY <2>1, <2>2
<1>12. Sums(list, n, g) BY <1>10, <1>11 DEF Sums
<1> QED BY <1>12

\* ChargeOf is where any partial sums end.
LEMMA ChargeIsSum ==
  ASSUME NEW list, Charges(list), NEW f, Sums(list, Len(list), f)
  PROVE  ChargeOf(list) = f[Len(list)] /\ ChargeOf(list) \in Nat
<1> DEFINE N == Len(list)
           Rec(g) == g = [i \in 0 .. N |-> IF i = 0 THEN 0 ELSE g[i - 1] + list[i].charge]
           s == CHOOSE g : Rec(g)
           Bad == {n \in 0 .. N : s[n] # f[n]}
<1>0. N \in Nat BY LenProperties DEF Charges
<1>1. Rec(f)
  <2>1. f = [i \in 0 .. N |-> f[i]] BY DEF Sums
  <2>2. \A i \in 0 .. N : f[i] = IF i = 0 THEN 0 ELSE f[i - 1] + list[i].charge
    BY <1>0 DEF Sums
  <2> QED BY <2>1, <2>2, Zenon
<1>2. Rec(s) BY <1>1
<1>3. ChargeOf(list) = s[N] BY DEF ChargeOf
<1>4. ASSUME Bad # {} PROVE FALSE
  <2>1. PICK n \in Bad : \A m \in Bad : n <= m
    <3>1. Bad \in SUBSET Nat BY <1>0
    <3> HIDE DEF Bad
    <3> QED BY <1>4, <3>1, LeastNat
  <2>2. n \in 0 .. N /\ s[n] # f[n] BY <2>1
  <2>3. s[n] = IF n = 0 THEN 0 ELSE s[n - 1] + list[n].charge
    <3> HIDE DEF s
    <3> QED BY <2>2, <1>2
  <2>4. n # 0 BY <2>2, <2>3 DEF Sums
  <2>5. s[n - 1] = f[n - 1]
    <3>1. n - 1 \in 0 .. N /\ ~(n <= n - 1) BY <2>2, <2>4
    <3> QED BY <2>1, <3>1
  <2>6. f[n] = f[n - 1] + list[n].charge BY <1>0, <2>2, <2>4 DEF Sums
  <2> QED BY <2>2, <2>3, <2>4, <2>5, <2>6
<1>5. s[N] = f[N]
  <2> HIDE DEF s
  <2> QED BY <1>0, <1>4
<1> QED BY <1>0, <1>3, <1>5 DEF Sums
-----------------------------------------------------------------------------
(***************************************************************************)
(* What the operations on a list do to its entries.                        *)
(***************************************************************************)
\* A new head.
LEMMA ConsList ==
  ASSUME NEW S, NEW list \in Seq(S), NEW e \in S
  PROVE  /\ <<e>> \o list \in Seq(S)
         /\ Len(<<e>> \o list) = Len(list) + 1
         /\ (<<e>> \o list)[1] = e
         /\ \A i \in 1 .. Len(list) : (<<e>> \o list)[i + 1] = list[i]
         /\ \A i \in 2 .. Len(list) + 1 : (<<e>> \o list)[i] = list[i - 1]
<1>1. <<e>> \in Seq(S) /\ Len(<<e>>) = 1 /\ <<e>>[1] = e
  OBVIOUS
<1>2. Len(list) \in Nat BY LenProperties
<1>3. /\ <<e>> \o list \in Seq(S)
      /\ Len(<<e>> \o list) = 1 + Len(list)
      /\ \A i \in 1 .. 1 + Len(list) :
           (<<e>> \o list)[i] = IF i <= 1 THEN <<e>>[i] ELSE list[i - 1]
  <2> DEFINE d == <<e>>
  <2>1. d \in Seq(S) /\ Len(d) = 1 BY <1>1
  <2> HIDE DEF d
  <2>2. /\ d \o list \in Seq(S)
        /\ Len(d \o list) = Len(d) + Len(list)
        /\ \A i \in 1 .. Len(d) + Len(list) :
             (d \o list)[i] = IF i <= Len(d) THEN d[i] ELSE list[i - Len(d)]
    BY <2>1, ConcatProperties, Zenon
  <2>3. /\ d \o list \in Seq(S)
        /\ Len(d \o list) = 1 + Len(list)
        /\ \A i \in 1 .. 1 + Len(list) : (d \o list)[i] = IF i <= 1 THEN d[i] ELSE list[i - 1]
    BY <2>1, <2>2
  <2> QED BY <2>3 DEF d
<1> DEFINE c == <<e>> \o list
<1> HIDE DEF c
<1>4. /\ c \in Seq(S) /\ Len(c) = 1 + Len(list)
      /\ \A i \in 1 .. 1 + Len(list) : c[i] = IF i <= 1 THEN <<e>>[i] ELSE list[i - 1]
  BY <1>3 DEF c
<1>5. c[1] = e BY <1>1, <1>2, <1>4
<1>6. \A i \in 1 .. Len(list) : c[i + 1] = list[i]
  <2> TAKE i \in 1 .. Len(list)
  <2>1. i + 1 \in 1 .. 1 + Len(list) /\ ~(i + 1 <= 1) /\ (i + 1) - 1 = i BY <1>2
  <2> QED BY <1>4, <2>1
<1>7. \A i \in 2 .. Len(list) + 1 : c[i] = list[i - 1] BY <1>2, <1>4
<1> QED BY <1>2, <1>4, <1>5, <1>6, <1>7 DEF c

\* The entries that the evict loops leave and the ones they take.
LEMMA KeptList ==
  ASSUME NEW S, NEW list \in Seq(S), NEW n \in 0 .. Len(list)
  PROVE  /\ Kept(list, n) \in Seq(S)
         /\ Len(Kept(list, n)) = Len(list) - n
         /\ \A i \in 1 .. Len(list) - n : Kept(list, n)[i] = list[i]
         /\ Evicted(list, n) \in Seq(S)
         /\ Len(Evicted(list, n)) = n
         /\ \A i \in 1 .. n : Evicted(list, n)[i] = list[Len(list) - n + i]
<1>1. Len(list) \in Nat /\ \A i \in 1 .. Len(list) : list[i] \in S
  BY LenProperties, ElementOfSeq
<1>2. PICK m : m = Len(list) - n OBVIOUS
<1>3. m \in Int /\ m >= 0 /\ m <= Len(list) BY <1>1, <1>2
<1>4. /\ SubSeq(list, 1, m) \in Seq(S)
      /\ Len(SubSeq(list, 1, m)) = IF 1 <= m THEN m - 1 + 1 ELSE 0
      /\ \A i \in 1 .. m - 1 + 1 : SubSeq(list, 1, m)[i] = list[1 + i - 1]
  <2>1. \A i \in 1 .. m : list[i] \in S BY <1>1, <1>3
  <2> QED BY <1>3, <2>1, SubSeqProperties
<1>5. /\ SubSeq(list, m + 1, Len(list)) \in Seq(S)
      /\ Len(SubSeq(list, m + 1, Len(list))) =
           IF m + 1 <= Len(list) THEN Len(list) - (m + 1) + 1 ELSE 0
      /\ \A i \in 1 .. Len(list) - (m + 1) + 1 :
           SubSeq(list, m + 1, Len(list))[i] = list[m + 1 + i - 1]
  <2>1. \A i \in m + 1 .. Len(list) : list[i] \in S BY <1>1, <1>3
  <2>2. m + 1 \in Int /\ Len(list) \in Int BY <1>1, <1>3
  <2> QED BY <2>1, <2>2, SubSeqProperties
<1>6. Kept(list, n) = SubSeq(list, 1, m) /\ Evicted(list, n) = SubSeq(list, m + 1, Len(list))
  BY <1>2 DEF Kept, Evicted
<1>7. /\ Len(SubSeq(list, 1, m)) = m
      /\ \A i \in 1 .. m : SubSeq(list, 1, m)[i] = list[i]
  BY <1>3, <1>4
<1>8. /\ Len(SubSeq(list, m + 1, Len(list))) = n
      /\ \A i \in 1 .. n : SubSeq(list, m + 1, Len(list))[i] = list[m + i]
  BY <1>1, <1>2, <1>3, <1>5
<1> QED BY <1>2, <1>4, <1>5, <1>6, <1>7, <1>8

\* A list without one of its entries.
LEMMA RemoveList ==
  ASSUME NEW S, NEW list \in Seq(S), NEW p \in 1 .. Len(list)
  PROVE  /\ RemoveAt(list, p) \in Seq(S)
         /\ Len(RemoveAt(list, p)) = Len(list) - 1
         /\ \A i \in 1 .. p - 1 : RemoveAt(list, p)[i] = list[i]
         /\ \A i \in p .. Len(list) - 1 : RemoveAt(list, p)[i] = list[i + 1]
<1>1. Len(list) \in Nat /\ \A i \in 1 .. Len(list) : list[i] \in S
  BY LenProperties, ElementOfSeq
<1> DEFINE a == SubSeq(list, 1, p - 1)
           b == SubSeq(list, p + 1, Len(list))
<1>2. /\ a \in Seq(S)
      /\ Len(a) = IF 1 <= p - 1 THEN (p - 1) - 1 + 1 ELSE 0
      /\ \A i \in 1 .. (p - 1) - 1 + 1 : a[i] = list[1 + i - 1]
  <2>1. \A i \in 1 .. p - 1 : list[i] \in S BY <1>1
  <2>2. p - 1 \in Int BY <1>1
  <2> QED BY <2>1, <2>2, SubSeqProperties
<1>3. /\ b \in Seq(S)
      /\ Len(b) = IF p + 1 <= Len(list) THEN Len(list) - (p + 1) + 1 ELSE 0
      /\ \A i \in 1 .. Len(list) - (p + 1) + 1 : b[i] = list[p + 1 + i - 1]
  <2>1. \A i \in p + 1 .. Len(list) : list[i] \in S BY <1>1
  <2>2. p + 1 \in Int /\ Len(list) \in Int BY <1>1
  <2> QED BY <2>1, <2>2, SubSeqProperties
<1>4. RemoveAt(list, p) = a \o b BY DEF RemoveAt
<1> HIDE DEF a, b
<1>5. /\ a \o b \in Seq(S)
      /\ Len(a \o b) = Len(a) + Len(b)
      /\ \A i \in 1 .. Len(a) + Len(b) : (a \o b)[i] = IF i <= Len(a) THEN a[i] ELSE b[i - Len(a)]
  BY <1>2, <1>3, ConcatProperties
<1>6. Len(a) = p - 1 /\ Len(b) = Len(list) - p BY <1>1, <1>2, <1>3
<1>7. \A i \in 1 .. p - 1 : a[i] = list[i] BY <1>1, <1>2
<1>8. \A i \in 1 .. Len(list) - p : b[i] = list[p + i] BY <1>1, <1>3
<1>9. \A i \in 1 .. p - 1 : (a \o b)[i] = list[i] BY <1>1, <1>5, <1>6, <1>7
<1>10. \A i \in p .. Len(list) - 1 : (a \o b)[i] = list[i + 1]
  <2> TAKE i \in p .. Len(list) - 1
  <2>1. /\ i \in 1 .. Len(a) + Len(b) /\ ~(i <= Len(a))
        /\ i - Len(a) = i - p + 1 /\ i - p + 1 \in 1 .. Len(list) - p
        /\ p + (i - p + 1) = i + 1
    BY <1>1, <1>6
  <2> QED BY <1>5, <1>8, <2>1
<1> QED BY <1>1, <1>4, <1>5, <1>6, <1>9, <1>10
-----------------------------------------------------------------------------
(***************************************************************************)
(* What they do to its charge.                                             *)
(***************************************************************************)
\* An empty list has no charge.
LEMMA ChargeEmpty == ChargeOf(<<>>) = 0
<1>1. <<>> \in Seq(Entries) /\ Len(<<>>) = 0 BY EmptySeq
<1>2. Charges(<<>>) BY <1>1, EntriesCharged
<1>3. PICK f : Sums(<<>>, Len(<<>>), f) BY <1>2, SumsExist
<1>4. ChargeOf(<<>>) = f[Len(<<>>)] BY <1>2, <1>3, ChargeIsSum
<1> QED BY <1>1, <1>3, <1>4 DEF Sums

\* A charge is a natural number.
LEMMA ChargeNat ==
  ASSUME NEW list \in Seq(Entries)
  PROVE  ChargeOf(list) \in Nat
BY EntriesCharged, SumsExist, ChargeIsSum

\* A new head adds its charge.
LEMMA ChargeCons ==
  ASSUME NEW list \in Seq(Entries), NEW e \in Entries
  PROVE  ChargeOf(<<e>> \o list) = e.charge + ChargeOf(list)
<1> DEFINE c == <<e>> \o list
<1>1. /\ c \in Seq(Entries) /\ Len(c) = Len(list) + 1 /\ c[1] = e
      /\ \A i \in 2 .. Len(list) + 1 : c[i] = list[i - 1]
  BY ConsList
<1> HIDE DEF c
<1>2. Len(list) \in Nat BY LenProperties
<1>3. Charges(list) /\ Charges(c) BY <1>1, EntriesCharged
<1>4. e.charge \in Nat
  <2>1. 1 \in 1 .. Len(c) BY <1>1, <1>2
  <2> QED BY <1>1, <1>3, <2>1 DEF Charges
<1>5. PICK f : Sums(list, Len(list), f) BY <1>3, SumsExist
<1> DEFINE g == [i \in 0 .. Len(c) |-> IF i = 0 THEN 0 ELSE e.charge + f[i - 1]]
<1>6. f \in [0 .. Len(list) -> Nat] /\ f[0] = 0 BY <1>5 DEF Sums
<1>7. g \in [0 .. Len(c) -> Nat] /\ g[0] = 0
  <2>1. \A i \in 0 .. Len(c) : i # 0 => i - 1 \in 0 .. Len(list) BY <1>1, <1>2
  <2>2. \A i \in 0 .. Len(c) : (IF i = 0 THEN 0 ELSE e.charge + f[i - 1]) \in Nat
    BY <1>4, <1>6, <2>1
  <2> QED BY <1>1, <1>2, <2>2
<1>8. \A i \in 1 .. Len(c) : g[i] = g[i - 1] + c[i].charge
  <2> TAKE i \in 1 .. Len(c)
  <2>1. i \in 0 .. Len(c) /\ i - 1 \in 0 .. Len(c) /\ i - 1 \in 0 .. Len(list) BY <1>1, <1>2
  <2>2. g[i] = e.charge + f[i - 1] BY <2>1
  <2>3. CASE i = 1
    <3>1. g[i - 1] = 0 BY <2>3, <1>7
    <3> QED BY <1>1, <1>4, <1>6, <2>2, <2>3, <3>1
  <2>4. CASE i # 1
    <3>1. g[i - 1] = e.charge + f[i - 1 - 1] BY <2>1, <2>4
    <3>2. i - 1 \in 1 .. Len(list) /\ i \in 2 .. Len(list) + 1 BY <1>1, <1>2, <2>4
    <3>3. f[i - 1] = f[i - 1 - 1] + list[i - 1].charge BY <1>5, <3>2 DEF Sums
    <3>4. c[i] = list[i - 1] BY <1>1, <3>2
    <3>5. list[i - 1].charge \in Nat BY <1>3, <3>2 DEF Charges
    <3>6. i - 1 - 1 \in 0 .. Len(list) BY <1>2, <3>2
    <3>7. f[i - 1 - 1] \in Nat BY <1>6, <3>6
    <3> QED BY <1>4, <2>2, <3>1, <3>3, <3>4, <3>5, <3>7
  <2> QED BY <2>3, <2>4
<1>9. Sums(c, Len(c), g) BY <1>7, <1>8 DEF Sums
<1>10. ChargeOf(c) = g[Len(c)] /\ ChargeOf(list) = f[Len(list)]
  <2> HIDE DEF g
  <2> QED BY <1>3, <1>5, <1>9, ChargeIsSum
<1>11. g[Len(c)] = e.charge + f[Len(list)] BY <1>1, <1>2
<1> QED BY <1>10, <1>11 DEF c

\* What is kept and what is evicted add up.
LEMMA ChargeKept ==
  ASSUME NEW list \in Seq(Entries), NEW n \in 0 .. Len(list)
  PROVE  ChargeOf(list) = ChargeOf(Kept(list, n)) + ChargeOf(Evicted(list, n))
<1> DEFINE a == Kept(list, n)
           b == Evicted(list, n)
<1>1. /\ a \in Seq(Entries) /\ Len(a) = Len(list) - n
      /\ \A i \in 1 .. Len(list) - n : a[i] = list[i]
      /\ b \in Seq(Entries) /\ Len(b) = n
      /\ \A i \in 1 .. n : b[i] = list[Len(list) - n + i]
  BY KeptList
<1> HIDE DEF a, b
<1>2. Len(list) \in Nat BY LenProperties
<1>3. Charges(list) /\ Charges(a) /\ Charges(b) BY <1>1, EntriesCharged
<1>4. PICK f : Sums(list, Len(list), f) BY <1>3, SumsExist
<1>5. f \in [0 .. Len(list) -> Nat] /\ f[0] = 0 BY <1>4 DEF Sums
<1>6. \A i \in 1 .. Len(list) : f[i] = f[i - 1] + list[i].charge /\ list[i].charge \in Nat
  BY <1>3, <1>4 DEF Sums, Charges
<1>7. PICK m \in 0 .. Len(list) : m = Len(list) - n
  <2>1. Len(list) - n \in 0 .. Len(list) BY <1>2
  <2> QED BY <2>1
<1>8. ChargeOf(a) = f[m]
  <2> DEFINE g == [i \in 0 .. m |-> f[i]]
  <2>1. g \in [0 .. m -> Nat] /\ g[0] = 0 BY <1>2, <1>5, <1>7
  <2>2. \A i \in 1 .. m : g[i] = g[i - 1] + a[i].charge
    <3> TAKE i \in 1 .. m
    <3>1. i \in 1 .. Len(list) /\ i \in 0 .. m /\ i - 1 \in 0 .. m BY <1>2, <1>7
    <3>2. g[i] = f[i] /\ g[i - 1] = f[i - 1] BY <3>1
    <3>3. a[i] = list[i] BY <1>1, <1>7
    <3> QED BY <1>6, <3>1, <3>2, <3>3
  <2>3. Sums(a, Len(a), g) BY <1>1, <1>7, <2>1, <2>2 DEF Sums
  <2>4. g[Len(a)] = f[m] BY <1>1, <1>2, <1>7
  <2> HIDE DEF g
  <2> QED BY <1>3, <2>3, <2>4, ChargeIsSum
<1>9. PICK g : Sums(b, Len(b), g) BY <1>3, SumsExist
<1>10. g \in [0 .. n -> Nat] /\ g[0] = 0 /\ \A i \in 1 .. n : g[i] = g[i - 1] + b[i].charge
  BY <1>1, <1>9 DEF Sums
<1>11. ChargeOf(list) = f[m] + g[n]
  <2> DEFINE k == [i \in 0 .. Len(list) |-> IF i <= m THEN f[i] ELSE f[m] + g[i - m]]
  <2>1. k \in [0 .. Len(list) -> Nat] /\ k[0] = 0
    <3>1. \A i \in 0 .. Len(list) : ~(i <= m) => i - m \in 0 .. n BY <1>2, <1>7
    <3>2. \A i \in 0 .. Len(list) : (IF i <= m THEN f[i] ELSE f[m] + g[i - m]) \in Nat
      <4> TAKE i \in 0 .. Len(list)
      <4>1. i <= m => f[i] \in Nat BY <1>5
      <4>2. f[m] \in Nat BY <1>5, <1>7
      <4>3. ~(i <= m) => g[i - m] \in Nat BY <1>10, <3>1
      <4> QED BY <4>1, <4>2, <4>3
    <3>3. 0 <= m /\ 0 \in 0 .. Len(list) BY <1>2, <1>7
    <3> QED BY <1>5, <3>2, <3>3
  <2>2. \A i \in 1 .. Len(list) : k[i] = k[i - 1] + list[i].charge
    <3> TAKE i \in 1 .. Len(list)
    <3>1. i \in 0 .. Len(list) /\ i - 1 \in 0 .. Len(list) BY <1>2
    <3>2. CASE i <= m
      <4>1. k[i] = f[i] /\ k[i - 1] = f[i - 1] BY <1>2, <1>7, <3>1, <3>2
      <4> QED BY <1>6, <4>1
    <3>3. CASE ~(i <= m)
      <4>1. i - m \in 1 .. n /\ m + (i - m) = i /\ (i - 1) - m = (i - m) - 1
        BY <1>2, <1>7, <3>3
      <4>2. b[i - m] = list[i] BY <1>1, <1>7, <4>1
      <4>3. g[i - m] = g[(i - m) - 1] + list[i].charge BY <1>10, <4>1, <4>2
      <4>4. k[i] = f[m] + g[i - m] BY <3>1, <3>3
      <4>5. k[i - 1] = f[m] + g[(i - m) - 1]
        <5>1. CASE i - 1 <= m
          <6>1. i - 1 = m /\ (i - m) - 1 = 0 BY <1>2, <1>7, <3>3, <5>1
          <6>2. k[i - 1] = f[m] /\ f[m] \in Nat BY <1>5, <1>7, <3>1, <5>1, <6>1
          <6> QED BY <1>10, <6>1, <6>2
        <5>2. CASE ~(i - 1 <= m) BY <3>1, <4>1, <5>2
        <5> QED BY <5>1, <5>2
      <4>6. f[m] \in Nat /\ g[(i - m) - 1] \in Nat /\ list[i].charge \in Nat
        <5>1. (i - m) - 1 \in 0 .. n BY <1>2, <1>7, <4>1
        <5> QED BY <1>5, <1>6, <1>7, <1>10, <5>1
      <4> QED BY <4>3, <4>4, <4>5, <4>6
    <3> QED BY <3>2, <3>3
  <2>3. Sums(list, Len(list), k) BY <2>1, <2>2 DEF Sums
  <2>4. k[Len(list)] = f[m] + g[n]
    <3>1. CASE n = 0
      <4>1. m = Len(list) /\ m <= m /\ f[m] \in Nat BY <1>2, <1>5, <1>7, <3>1
      <4> QED BY <1>2, <1>10, <3>1, <4>1
    <3>2. CASE n # 0
      <4>1. ~(Len(list) <= m) /\ Len(list) - m = n BY <1>2, <1>7, <3>2
      <4> QED BY <1>2, <4>1
    <3> QED BY <3>1, <3>2
  <2> HIDE DEF k
  <2> QED BY <1>3, <2>3, <2>4, ChargeIsSum
<1>12. ChargeOf(b) = g[n] BY <1>1, <1>3, <1>9, ChargeIsSum
<1> QED BY <1>8, <1>11, <1>12 DEF a, b

\* A list without an entry has the charge of the others.
LEMMA ChargeRemove ==
  ASSUME NEW list \in Seq(Entries), NEW p \in 1 .. Len(list)
  PROVE  ChargeOf(list) = list[p].charge + ChargeOf(RemoveAt(list, p))
<1> DEFINE r == RemoveAt(list, p)
<1>1. /\ r \in Seq(Entries) /\ Len(r) = Len(list) - 1
      /\ \A i \in 1 .. p - 1 : r[i] = list[i]
      /\ \A i \in p .. Len(list) - 1 : r[i] = list[i + 1]
  BY RemoveList
<1> HIDE DEF r
<1>2. Len(list) \in Nat BY LenProperties
<1>3. Charges(list) /\ Charges(r) BY <1>1, EntriesCharged
<1>4. PICK g : Sums(r, Len(r), g) BY <1>3, SumsExist
<1>5. PICK c \in Nat : c = list[p].charge BY <1>3 DEF Charges
<1>6. PICK n \in Nat : n = Len(list) - 1 BY <1>2
<1>7. g \in [0 .. n -> Nat] /\ g[0] = 0 /\ \A i \in 1 .. n : g[i] = g[i - 1] + r[i].charge
  BY <1>1, <1>4, <1>6 DEF Sums
<1>8. p \in 1 .. n + 1 /\ Len(list) = n + 1 BY <1>2, <1>6
<1> DEFINE k == [i \in 0 .. n + 1 |-> IF i < p THEN g[i] ELSE c + g[i - 1]]
<1>9. k \in [0 .. n + 1 -> Nat] /\ k[0] = 0
  <2>1. \A i \in 0 .. n + 1 : /\ i < p => i \in 0 .. n
                              /\ ~(i < p) => i - 1 \in 0 .. n
    BY <1>8
  <2>2. \A i \in 0 .. n + 1 : (IF i < p THEN g[i] ELSE c + g[i - 1]) \in Nat
    <3> TAKE i \in 0 .. n + 1
    <3>1. i < p => g[i] \in Nat BY <1>7, <2>1
    <3>2. ~(i < p) => g[i - 1] \in Nat BY <1>7, <2>1
    <3> QED BY <3>1, <3>2
  <2>3. 0 < p /\ 0 \in 0 .. n + 1 BY <1>8
  <2> QED BY <1>7, <2>2, <2>3
<1>10. \A i \in 1 .. n + 1 : k[i] = k[i - 1] + list[i].charge
  <2> TAKE i \in 1 .. n + 1
  <2>1. i \in 0 .. n + 1 /\ i - 1 \in 0 .. n + 1 OBVIOUS
  <2>2. CASE i < p
    <3>1. i \in 1 .. n /\ i \in 1 .. p - 1 /\ i - 1 < p BY <1>8, <2>2
    <3>2. k[i] = g[i] /\ k[i - 1] = g[i - 1] BY <2>1, <2>2, <3>1
    <3>3. r[i] = list[i] BY <1>1, <3>1
    <3> QED BY <1>7, <3>1, <3>2, <3>3
  <2>3. CASE i = p
    <3>1. k[i] = c + g[i - 1] BY <2>1, <2>3
    <3>2. k[i - 1] = g[i - 1] BY <2>1, <2>3
    <3>3. g[i - 1] \in Nat BY <1>7
    <3> QED BY <1>5, <2>3, <3>1, <3>2, <3>3
  <2>4. CASE i > p
    <3>1. ~(i < p) /\ ~(i - 1 < p) /\ i - 1 \in 1 .. n /\ i - 1 \in p .. n /\ (i - 1) + 1 = i
      BY <1>8, <2>4
    <3>2. k[i] = c + g[i - 1] /\ k[i - 1] = c + g[(i - 1) - 1] BY <2>1, <3>1
    <3>3. r[i - 1] = list[i] BY <1>1, <1>6, <3>1
    <3>4. g[i - 1] = g[(i - 1) - 1] + list[i].charge BY <1>7, <3>1, <3>3
    <3>5. list[i].charge \in Nat BY <1>3, <1>8 DEF Charges
    <3>6. (i - 1) - 1 \in 0 .. n BY <3>1
    <3>7. g[(i - 1) - 1] \in Nat BY <1>7, <3>6
    <3> QED BY <3>2, <3>4, <3>5, <3>7
  <2> QED BY <1>8, <2>2, <2>3, <2>4
<1>11. Sums(list, Len(list), k) BY <1>8, <1>9, <1>10 DEF Sums
<1>12. k[Len(list)] = c + g[n]
  <2>1. ~(n + 1 < p) /\ (n + 1) - 1 = n BY <1>8
  <2> QED BY <1>8, <2>1
<1>13. ChargeOf(list) = k[Len(list)] /\ ChargeOf(r) = g[n]
  <2> HIDE DEF k
  <2> QED BY <1>1, <1>3, <1>4, <1>6, <1>11, ChargeIsSum
<1> QED BY <1>5, <1>12, <1>13 DEF r
-----------------------------------------------------------------------------
(***************************************************************************)
(* Arithmetic of size_t.                                                   *)
(***************************************************************************)
\* Division with remainder.
LEMMA SizeDivMod ==
  ASSUME NEW x \in Int
  PROVE  /\ x = SizeMod * (x \div SizeMod) + (x % SizeMod)
         /\ x \div SizeMod \in Int /\ x % SizeMod \in 0 .. SizeMod - 1
<1>1. SizeMod \in Nat /\ SizeMod > 0 BY OptionsAssumption
<1> QED BY <1>1

\* The remainder is the only one.
LEMMA SizeModUnique ==
  ASSUME NEW q \in Int, NEW r \in 0 .. SizeMod - 1
  PROVE  (SizeMod * q + r) % SizeMod = r
<1>1. SizeMod \in Nat /\ SizeMod > 0 BY OptionsAssumption
<1>2. PICK M \in Nat : M = SizeMod BY <1>1
<1>3. \A c \in Int : c = M * q + r => c % M = r BY <1>1, <1>2
<1>4. M * q + r \in Int BY <1>1, <1>2
<1> QED BY <1>2, <1>3, <1>4

\* A number that a size_t can hold is not changed.
LEMMA SizeSmall ==
  ASSUME NEW r \in 0 .. SizeMod - 1
  PROVE  r % SizeMod = r
<1>1. SizeMod \in Nat /\ SizeMod > 0 BY OptionsAssumption
<1>2. (SizeMod * 0 + r) % SizeMod = r BY SizeModUnique
<1>3. SizeMod * 0 + r = r BY <1>1
<1> QED BY <1>2, <1>3

\* Wrapping around twice is wrapping around once.
LEMMA SizeWrap ==
  ASSUME NEW x \in Int, NEW y \in Int
  PROVE  ((x % SizeMod) + y) % SizeMod = (x + y) % SizeMod
<1>1. SizeMod \in Nat /\ SizeMod > 0 BY OptionsAssumption
<1>2. PICK a \in Int, r \in 0 .. SizeMod - 1 : x = SizeMod * a + r /\ r = x % SizeMod
  BY SizeDivMod
<1>3. r + y \in Int BY <1>1
<1>4. PICK b \in Int, d \in 0 .. SizeMod - 1 :
        r + y = SizeMod * b + d /\ d = (r + y) % SizeMod
  BY <1>3, SizeDivMod
<1>5. SizeMod * (a + b) = SizeMod * a + SizeMod * b BY <1>1
<1>6. SizeMod * a \in Int /\ SizeMod * b \in Int BY <1>1
<1>7. x + y = SizeMod * (a + b) + d BY <1>1, <1>2, <1>4, <1>5, <1>6
<1>8. (SizeMod * (a + b) + d) % SizeMod = d BY SizeModUnique
<1> QED BY <1>2, <1>4, <1>7, <1>8
-----------------------------------------------------------------------------
(***************************************************************************)
(* The map has the keys of the list, and no key is in the list twice.      *)
(***************************************************************************)
Distinct(list) == \A i, j \in 1 .. Len(list) : list[i].key = list[j].key => i = j

ListInv == \A s \in Shards : Distinct(entries[s]) /\ map[s] = KeysOf(entries[s])

\* A new head with a new key.
LEMMA KeysCons ==
  ASSUME NEW list \in Seq(Entries), NEW e \in Entries,
         Distinct(list), e.key \notin KeysOf(list)
  PROVE  Distinct(<<e>> \o list) /\ KeysOf(<<e>> \o list) = KeysOf(list) \cup {e.key}
<1> DEFINE c == <<e>> \o list
<1>1. /\ c \in Seq(Entries) /\ Len(c) = Len(list) + 1 /\ c[1] = e
      /\ \A i \in 1 .. Len(list) : c[i + 1] = list[i]
      /\ \A i \in 2 .. Len(list) + 1 : c[i] = list[i - 1]
  BY ConsList
<1> HIDE DEF c
<1>2. Len(list) \in Nat /\ DOMAIN list = 1 .. Len(list) /\ DOMAIN c = 1 .. Len(c)
  BY <1>1, LenProperties
<1>3. \A i \in 1 .. Len(list) : list[i].key # e.key BY <1>2 DEF KeysOf
<1>4. Distinct(c)
  <2> SUFFICES ASSUME NEW i \in 1 .. Len(c), NEW j \in 1 .. Len(c), c[i].key = c[j].key
               PROVE  i = j
    BY DEF Distinct
  <2>1. \A m \in 1 .. Len(c) : m # 1 => /\ m \in 2 .. Len(list) + 1
                                        /\ m - 1 \in 1 .. Len(list)
    BY <1>1, <1>2
  <2>2. CASE i = 1 \/ j = 1 BY <1>1, <1>3, <2>1, <2>2
  <2>3. CASE i # 1 /\ j # 1
    <3>1. list[i - 1].key = list[j - 1].key BY <1>1, <2>1, <2>3
    <3>2. i - 1 = j - 1 BY <2>1, <2>3, <3>1 DEF Distinct
    <3> QED BY <3>2, <1>1, <1>2
  <2> QED BY <2>2, <2>3
<1>5. KeysOf(c) = KeysOf(list) \cup {e.key}
  <2>1. ASSUME NEW x \in KeysOf(c) PROVE x \in KeysOf(list) \cup {e.key}
    <3>1. PICK i \in 1 .. Len(c) : x = c[i].key BY <1>2 DEF KeysOf
    <3>2. CASE i = 1 BY <1>1, <3>1, <3>2
    <3>3. CASE i # 1
      <4>1. i - 1 \in 1 .. Len(list) /\ i \in 2 .. Len(list) + 1 BY <1>1, <1>2, <3>3
      <4>2. x = list[i - 1].key BY <1>1, <3>1, <4>1
      <4> QED BY <1>2, <4>1, <4>2 DEF KeysOf
    <3> QED BY <3>2, <3>3
  <2>2. ASSUME NEW x \in KeysOf(list) PROVE x \in KeysOf(c)
    <3>1. PICK i \in 1 .. Len(list) : x = list[i].key BY <1>2 DEF KeysOf
    <3>2. i + 1 \in 1 .. Len(c) /\ c[i + 1] = list[i] BY <1>1, <1>2
    <3> QED BY <1>2, <3>1, <3>2 DEF KeysOf
  <2>3. e.key \in KeysOf(c)
    <3>1. 1 \in 1 .. Len(c) BY <1>1, <1>2
    <3> QED BY <1>1, <1>2, <3>1 DEF KeysOf
  <2> QED BY <2>1, <2>2, <2>3
<1> QED BY <1>4, <1>5 DEF c

\* The keys that are kept.
LEMMA KeysKept ==
  ASSUME NEW list \in Seq(Entries), NEW n \in 0 .. Len(list), Distinct(list)
  PROVE  /\ Distinct(Kept(list, n))
         /\ KeysOf(Kept(list, n)) = KeysOf(list) \ KeysOf(Evicted(list, n))
<1> DEFINE a == Kept(list, n)
           b == Evicted(list, n)
<1>1. /\ a \in Seq(Entries) /\ Len(a) = Len(list) - n
      /\ \A i \in 1 .. Len(list) - n : a[i] = list[i]
      /\ b \in Seq(Entries) /\ Len(b) = n
      /\ \A i \in 1 .. n : b[i] = list[Len(list) - n + i]
  BY KeptList
<1> HIDE DEF a, b
<1>2. /\ Len(list) \in Nat /\ DOMAIN list = 1 .. Len(list)
      /\ DOMAIN a = 1 .. Len(a) /\ DOMAIN b = 1 .. Len(b)
  BY <1>1, LenProperties
<1>3. \A i \in 1 .. Len(a) : i \in 1 .. Len(list) /\ a[i] = list[i] BY <1>1, <1>2
<1>4. Distinct(a) BY <1>3 DEF Distinct
<1>5. \A i \in 1 .. n : /\ Len(list) - n + i \in 1 .. Len(list)
                        /\ Len(list) - n + i \notin 1 .. Len(a)
  BY <1>1, <1>2
<1>6. ASSUME NEW x \in KeysOf(a) PROVE x \in KeysOf(list) \ KeysOf(b)
  <2>1. PICK i \in 1 .. Len(a) : x = a[i].key BY <1>2 DEF KeysOf
  <2>2. x \in KeysOf(list) BY <1>2, <1>3, <2>1 DEF KeysOf
  <2>3. ASSUME x \in KeysOf(b) PROVE FALSE
    <3>1. PICK j \in 1 .. n : x = b[j].key BY <1>1, <1>2, <2>3 DEF KeysOf
    <3>2. list[Len(list) - n + j].key = list[i].key BY <1>1, <1>3, <2>1, <3>1
    <3>3. Len(list) - n + j = i BY <1>3, <1>5, <3>2 DEF Distinct
    <3> QED BY <1>5, <3>3
  <2> QED BY <2>2, <2>3
<1>7. ASSUME NEW x \in KeysOf(list) \ KeysOf(b) PROVE x \in KeysOf(a)
  <2>1. PICK i \in 1 .. Len(list) : x = list[i].key BY <1>2 DEF KeysOf
  <2>2. CASE i <= Len(list) - n
    <3>1. i \in 1 .. Len(a) /\ a[i] = list[i] BY <1>1, <1>2, <2>2
    <3> QED BY <1>2, <2>1, <3>1 DEF KeysOf
  <2>3. CASE ~(i <= Len(list) - n)
    <3>1. PICK j \in 1 .. n : i = Len(list) - n + j
      <4>1. i - (Len(list) - n) \in 1 .. n /\ i = Len(list) - n + (i - (Len(list) - n))
        BY <1>2, <2>3
      <4> QED BY <4>1
    <3>2. b[j] = list[i] /\ j \in DOMAIN b BY <1>1, <1>2, <3>1
    <3>3. x \in KeysOf(b) BY <2>1, <3>2 DEF KeysOf
    <3> QED BY <3>3
  <2> QED BY <2>2, <2>3
<1> QED BY <1>4, <1>6, <1>7 DEF a, b

\* The keys of the others.
LEMMA KeysRemove ==
  ASSUME NEW list \in Seq(Entries), NEW p \in 1 .. Len(list), Distinct(list)
  PROVE  /\ Distinct(RemoveAt(list, p))
         /\ KeysOf(RemoveAt(list, p)) = KeysOf(list) \ {list[p].key}
<1> DEFINE r == RemoveAt(list, p)
<1>1. /\ r \in Seq(Entries) /\ Len(r) = Len(list) - 1
      /\ \A i \in 1 .. p - 1 : r[i] = list[i]
      /\ \A i \in p .. Len(list) - 1 : r[i] = list[i + 1]
  BY RemoveList
<1> HIDE DEF r
<1>2. Len(list) \in Nat /\ DOMAIN list = 1 .. Len(list) /\ DOMAIN r = 1 .. Len(r)
  BY <1>1, LenProperties
<1> DEFINE At(i) == IF i < p THEN i ELSE i + 1
<1>3. \A i \in 1 .. Len(r) : At(i) \in 1 .. Len(list) /\ At(i) # p /\ r[i] = list[At(i)]
  <2> TAKE i \in 1 .. Len(r)
  <2>1. CASE i < p
    <3>1. i \in 1 .. p - 1 /\ i \in 1 .. Len(list) BY <1>1, <1>2, <2>1
    <3> QED BY <1>1, <2>1, <3>1
  <2>2. CASE ~(i < p)
    <3>1. i \in p .. Len(list) - 1 /\ i + 1 \in 1 .. Len(list) /\ i + 1 # p BY <1>1, <1>2, <2>2
    <3> QED BY <1>1, <2>2, <3>1
  <2> QED BY <2>1, <2>2
<1>4. \A i, j \in 1 .. Len(r) : At(i) = At(j) => i = j BY <1>1, <1>2
<1>5. Distinct(r)
  <2> HIDE DEF At
  <2> QED BY <1>3, <1>4 DEF Distinct
<1>6. ASSUME NEW x \in KeysOf(r) PROVE x \in KeysOf(list) \ {list[p].key}
  <2> HIDE DEF At
  <2>1. PICK i \in 1 .. Len(r) : x = r[i].key BY <1>2 DEF KeysOf
  <2>2. PICK m \in 1 .. Len(list) : m # p /\ x = list[m].key BY <1>3, <2>1
  <2>3. x # list[p].key BY <2>2 DEF Distinct
  <2> QED BY <1>2, <2>2, <2>3 DEF KeysOf
<1>7. ASSUME NEW x \in KeysOf(list), x # list[p].key PROVE x \in KeysOf(r)
  <2>1. PICK i \in 1 .. Len(list) : x = list[i].key BY <1>2 DEF KeysOf
  <2>2. i # p BY <1>7, <2>1
  <2>3. CASE i < p
    <3>1. i \in 1 .. Len(r) /\ r[i] = list[i] BY <1>1, <1>2, <2>3
    <3> QED BY <1>2, <2>1, <3>1 DEF KeysOf
  <2>4. CASE i > p
    <3>1. i - 1 \in 1 .. Len(r) /\ i - 1 \in p .. Len(list) - 1 /\ (i - 1) + 1 = i
      BY <1>1, <1>2, <2>4
    <3>2. r[i - 1] = list[i] BY <1>1, <3>1
    <3> QED BY <1>2, <2>1, <3>1, <3>2 DEF KeysOf
  <2> QED BY <1>2, <2>2, <2>3, <2>4
<1> QED BY <1>5, <1>6, <1>7 DEF r
-----------------------------------------------------------------------------
(***************************************************************************)
(* What the calls do.                                                      *)
(***************************************************************************)
LRUInv == TypeOK /\ ListInv

\* The entry that a handle is kept in.
LEMMA EntryFacts ==
  ASSUME NEW k \in Keys, NEW h \in Handles[k]
  PROVE  /\ Entry(k, h) \in Entries
         /\ Entry(k, h).key = k /\ Entry(k, h).charge = h.charge
         /\ h.charge \in Nat /\ h.charge \in 0 .. SizeMod - 1
BY OptionsAssumption DEF Entries, Entry

\* Every key has a shard.
LEMMA ShardFacts ==
  ASSUME NEW k \in Keys
  PROVE  ShardOf(k) \in Shards
<1>1. ShardNum \in Nat /\ ShardNum > 0 /\ k \in Nat BY OptionsAssumption
<1> QED BY <1>1 DEF ShardOf, Shards

\* The options give a number of entries, 0 for no limit.
LEMMA OptionFacts ==
  /\ MaxEntryNum \in Nat /\ ShardCapacity \in Nat
  /\ SizeMod \in Nat /\ SizeMod > 0
<1>1. /\ Capacity \in Nat /\ EntryNum \in Nat /\ ValueSize \in Nat
      /\ SizeMod \in Nat /\ SizeMod > 0
  BY OptionsAssumption
<1>2. ASSUME ValueSize > 0 PROVE Capacity \div ValueSize \in Nat
  BY <1>1, <1>2
<1> QED BY <1>1, <1>2 DEF MaxEntryNum, ShardCapacity

\* The shape of a shard.
LEMMA ShardShape ==
  ASSUME TypeOK, NEW s \in Shards
  PROVE  /\ entries[s] \in Seq(Entries) /\ Len(entries[s]) \in Nat
         /\ DOMAIN entries[s] = 1 .. Len(entries[s])
         /\ \A i \in 1 .. Len(entries[s]) : entries[s][i] \in Entries
         /\ usage[s] \in 0 .. SizeMod - 1
<1>1. entries[s] \in Seq(Entries) /\ usage[s] \in 0 .. SizeMod - 1 BY DEF TypeOK
<1> QED BY <1>1, LenProperties, ElementOfSeq

\* Get misses, or moves the entry of the key to the front.
LEMMA GetOutcome ==
  ASSUME LRUInv, NEW k \in Keys, Get(k)
  PROVE  \/ /\ k \notin map[ShardOf(k)]
            /\ got' = None
            /\ UNCHANGED <<entries, map, usage, undefined>>
         \/ /\ k \in map[ShardOf(k)]
            /\ \E i \in 1 .. Len(entries[ShardOf(k)]) :
                 /\ entries[ShardOf(k)][i].key = k
                 /\ entries' = [entries EXCEPT ![ShardOf(k)] = ToFront(entries[ShardOf(k)], i)]
                 /\ got' = entries[ShardOf(k)][i].val
            /\ UNCHANGED <<map, usage, undefined>>
<1>1. PICK s \in Shards : s = ShardOf(k) BY ShardFacts
<1>2. DOMAIN entries[s] = 1 .. Len(entries[s]) BY ShardShape DEF LRUInv
<1>3. map[s] = KeysOf(entries[s]) BY DEF LRUInv, ListInv
<1> QED BY <1>1, <1>2, <1>3 DEF Get

\* Insert of a new key has undefined behaviour when no number of evictions is
\* enough or a deleter runs, or puts the entry before the ones that are kept.
LEMMA InsertNewOutcome ==
  ASSUME LRUInv, NEW k \in Keys, NEW h \in Handles[k], InsertNew(k, h), NEW s, s = ShardOf(k)
  PROVE  /\ k \notin map[s]
         /\ \/ Undefined /\ (ChargeEvictions(s, h.charge) = {} \/ DelCb)
            \/ \E n \in 0 .. Len(entries[s]) :
                 /\ \E m \in 0 .. n : Fits(s, h.charge, m)
                 /\ MaxEntryNum # 0 => n >= Len(entries[s]) + 1 - MaxEntryNum
                 /\ entries' = [entries EXCEPT ![s] = <<Entry(k, h)>> \o Kept(entries[s], n)]
                 /\ map' = [map EXCEPT ![s] = MapAfter(s, n) \cup {k}]
                 /\ usage' = [usage EXCEPT ![s] = Charged(UsageAfter(s, n), h.charge)]
                 /\ ReadsPopped(n)
                 /\ UNCHANGED got
<1> DEFINE E == ChargeEvictions(s, h.charge)
           n == OccupancyEvictions(s, Min(E))
<1>1. /\ k \notin map[s]
      /\ IF E = {} \/ DeletesFreed(n)
         THEN Undefined
         ELSE /\ entries' = [entries EXCEPT ![s] = <<Entry(k, h)>> \o Kept(entries[s], n)]
              /\ map' = [map EXCEPT ![s] = MapAfter(s, n) \cup {k}]
              /\ usage' = [usage EXCEPT ![s] = Charged(UsageAfter(s, n), h.charge)]
              /\ ReadsPopped(n)
              /\ UNCHANGED got
  BY DEF InsertNew
<1>2. DeletesFreed(n) => DelCb BY DEF DeletesFreed
<1>3. Len(entries[s]) \in Nat BY ShardFacts, ShardShape DEF LRUInv
<1>4. ASSUME E # {}
      PROVE  /\ n \in 0 .. Len(entries[s]) /\ Min(E) \in 0 .. n /\ Fits(s, h.charge, Min(E))
             /\ MaxEntryNum # 0 => n >= Len(entries[s]) + 1 - MaxEntryNum
  <2>1. E \in SUBSET Nat /\ \A m \in E : m \in 0 .. Len(entries[s]) /\ Fits(s, h.charge, m)
    BY <1>3 DEF ChargeEvictions
  <2>2. Min(E) \in E
    <3> HIDE DEF E
    <3> QED BY <1>4, <2>1, MinNat
  <2>3. PICK m \in 0 .. Len(entries[s]) : m = Min(E) BY <2>1, <2>2
  <2>4. CASE MaxEntryNum = 0
    <3>1. n = m BY <2>3, <2>4 DEF OccupancyEvictions
    <3> QED BY <1>3, <2>1, <2>2, <2>3, <2>4, <3>1
  <2>5. CASE MaxEntryNum # 0
    <3>1. n = Max({m, Len(entries[s]) + 1 - MaxEntryNum})
      <4> HIDE DEF E
      <4> QED BY <2>3, <2>5 DEF OccupancyEvictions
    <3>2. Len(entries[s]) + 1 - MaxEntryNum \in Int
      BY <1>3, OptionFacts
    <3>3. /\ n \in {m, Len(entries[s]) + 1 - MaxEntryNum}
          /\ n >= m /\ n >= Len(entries[s]) + 1 - MaxEntryNum
      <4>1. PICK x \in Int : x = Len(entries[s]) + 1 - MaxEntryNum BY <3>2
      <4>2. m \in Int OBVIOUS
      <4>3. Max({m, x}) \in {m, x} /\ Max({m, x}) >= m /\ Max({m, x}) >= x
        BY <4>2, MaxOfTwo
      <4> HIDE DEF n
      <4> QED BY <3>1, <4>1, <4>3
    <3>4. n \in 0 .. Len(entries[s]) /\ m \in 0 .. n
      <4> HIDE DEF n
      <4> QED BY <1>3, <2>5, <3>2, <3>3, OptionFacts
    <3> QED BY <2>1, <2>2, <2>3, <3>3, <3>4
  <2> QED BY <2>4, <2>5
<1> HIDE DEF n
<1> QED BY <1>1, <1>2, <1>4

\* The entry of k at p is replaced, after n evictions.
Updated(k, h, s, p, n) ==
  /\ p <= Len(entries[s]) - n
  /\ (h.charge - entries[s][p].charge) % SizeMod = 0 => n = 0
  /\ entries' = [entries EXCEPT ![s] = <<Entry(k, h)>> \o RemoveAt(Kept(entries[s], n), p)]
  /\ map' = [map EXCEPT ![s] = MapAfter(s, n)]
  /\ usage' = [usage EXCEPT ![s] = UsageAfter(s, n)]
  /\ ReadsPopped(n)
  /\ UNCHANGED got

\* Insert of a key that is there has undefined behaviour only when it needs
\* more charge; it puts the new entry in front of the others that are kept.
LEMMA InsertUpdateOutcome ==
  ASSUME LRUInv, NEW k \in Keys, NEW h \in Handles[k], InsertUpdate(k, h), NEW s, s = ShardOf(k)
  PROVE  /\ k \in map[s]
         /\ \E p \in 1 .. Len(entries[s]) :
              /\ entries[s][p].key = k
              /\ \/ Undefined /\ (h.charge - entries[s][p].charge) % SizeMod # 0
                 \/ \E n \in 0 .. Len(entries[s]) : Updated(k, h, s, p, n)
<1> DEFINE list == entries[s]
           Old == {i \in DOMAIN list : list[i].key = k}
           need == (h.charge - list[Max(Old)].charge) % SizeMod
           E == IF need > 0 THEN ChargeEvictions(s, need) ELSE {0}
           n == Min(E)
<1>1. /\ k \in map[s]
      /\ IF Old = {} \/ E = {} \/ Max(Old) > Len(list) - n \/ DeletesFreed(n)
         THEN Undefined
         ELSE /\ entries' = [entries EXCEPT ![s] = <<Entry(k, h)>> \o RemoveAt(Kept(list, n), Max(Old))]
              /\ map' = [map EXCEPT ![s] = MapAfter(s, n)]
              /\ usage' = [usage EXCEPT ![s] = UsageAfter(s, n)]
              /\ ReadsPopped(n)
              /\ UNCHANGED got
  BY DEF InsertUpdate
<1>2. /\ s \in Shards /\ Len(list) \in Nat /\ DOMAIN list = 1 .. Len(list)
      /\ \A i \in 1 .. Len(list) : list[i] \in Entries
  BY ShardFacts, ShardShape DEF LRUInv
<1>3. map[s] = KeysOf(list) /\ Distinct(list) BY <1>2 DEF LRUInv, ListInv
<1>4. PICK p \in 1 .. Len(list) : list[p].key = k BY <1>1, <1>2, <1>3 DEF KeysOf
<1>5. Old = {p} BY <1>2, <1>3, <1>4 DEF Distinct
<1>6. Max(Old) = p
  <2>1. Max({p}) = p BY <1>2 DEF Max
  <2> QED BY <1>5, <2>1
<1>7. need = (h.charge - list[p].charge) % SizeMod /\ need \in 0 .. SizeMod - 1
  <2>1. h.charge - list[p].charge \in Int
    <3>1. list[p].charge \in Nat BY <1>2, EntriesCharged, ShardShape DEF LRUInv, Charges
    <3> QED BY <3>1, EntryFacts
  <2> QED BY <1>6, <2>1, SizeDivMod
<1> HIDE DEF need
<1>8. ASSUME E # {} PROVE n \in 0 .. Len(list) /\ (need = 0 => n = 0)
  <2>1. E \in SUBSET Nat /\ E \in SUBSET (0 .. Len(list)) BY <1>2 DEF ChargeEvictions
  <2>2. n \in E
    <3> HIDE DEF E
    <3> QED BY <1>8, <2>1, MinNat
  <2>3. need = 0 => E = {0} BY OptionFacts
  <2> QED BY <2>1, <2>2, <2>3
<1>9. ASSUME need = 0 PROVE E # {} /\ n = 0 /\ ~DeletesFreed(n) /\ ~(p > Len(list) - n)
  <2>1. E = {0} BY <1>9, OptionFacts
  <2>2. n = 0
    <3>1. E # {} BY <2>1
    <3> HIDE DEF E, n
    <3> QED BY <1>8, <1>9, <3>1
  <2> HIDE DEF n, E
  <2> QED BY <1>2, <2>1, <2>2 DEF DeletesFreed
<1> HIDE DEF E, n
<1> DEFINE Bad == E = {} \/ p > Len(list) - n \/ DeletesFreed(n)
<1>10. CASE Bad
  <2>1. Undefined BY <1>1, <1>6, <1>10
  <2>2. need # 0 BY <1>9, <1>10
  <2> QED BY <1>1, <1>4, <1>7, <2>1, <2>2
<1>11. CASE ~Bad
  <2>1. E # {} /\ ~(p > Len(list) - n) BY <1>11
  <2>2. n \in 0 .. Len(list) /\ (need = 0 => n = 0) BY <1>8, <2>1
  <2>3. p <= Len(list) - n BY <1>2, <2>1, <2>2
  <2>4. /\ entries' = [entries EXCEPT ![s] = <<Entry(k, h)>> \o RemoveAt(Kept(list, n), p)]
        /\ map' = [map EXCEPT ![s] = MapAfter(s, n)]
        /\ usage' = [usage EXCEPT ![s] = UsageAfter(s, n)]
        /\ ReadsPopped(n)
        /\ UNCHANGED got
    BY <1>1, <1>5, <1>6, <1>11
  <2>5. Updated(k, h, s, p, n) BY <1>7, <2>2, <2>3, <2>4 DEF Updated
  <2> QED BY <1>1, <1>4, <2>2, <2>5
<1> QED BY <1>10, <1>11

\* The charge in use after n evictions is a size_t.
LEMMA UsageAfterType ==
  ASSUME TypeOK, NEW s \in Shards, NEW n \in 0 .. Len(entries[s])
  PROVE  UsageAfter(s, n) \in 0 .. SizeMod - 1
<1>1. Evicted(entries[s], n) \in Seq(Entries) BY ShardShape, KeptList
<1>2. ChargeOf(Evicted(entries[s], n)) \in Nat BY <1>1, ChargeNat
<1>3. usage[s] \in Int BY ShardShape, OptionFacts
<1>4. usage[s] - ChargeOf(Evicted(entries[s], n)) \in Int BY <1>2, <1>3
<1> QED BY <1>4, SizeDivMod DEF UsageAfter

\* A hit: the list that Get leaves.
LEMMA ToFrontList ==
  ASSUME NEW list \in Seq(Entries), NEW i \in 1 .. Len(list), Distinct(list)
  PROVE  /\ ToFront(list, i) \in Seq(Entries) /\ Len(ToFront(list, i)) = Len(list)
         /\ Distinct(ToFront(list, i)) /\ KeysOf(ToFront(list, i)) = KeysOf(list)
         /\ ChargeOf(ToFront(list, i)) = ChargeOf(list)
<1> DEFINE r == RemoveAt(list, i)
<1>1. list[i] \in Entries /\ Len(list) \in Nat /\ DOMAIN list = 1 .. Len(list)
  BY ElementOfSeq, LenProperties
<1>2. r \in Seq(Entries) /\ Len(r) = Len(list) - 1 BY RemoveList
<1>3. Distinct(r) /\ KeysOf(r) = KeysOf(list) \ {list[i].key} BY KeysRemove
<1>4. list[i].key \in KeysOf(list) BY <1>1 DEF KeysOf
<1>5. ChargeOf(list) = list[i].charge + ChargeOf(r) BY ChargeRemove
<1> HIDE DEF r
<1>6. Distinct(<<list[i]>> \o r) /\ KeysOf(<<list[i]>> \o r) = KeysOf(r) \cup {list[i].key}
  BY <1>1, <1>2, <1>3, KeysCons
<1>7. <<list[i]>> \o r \in Seq(Entries) /\ Len(<<list[i]>> \o r) = Len(r) + 1
  BY <1>1, <1>2, ConsList
<1>8. ChargeOf(<<list[i]>> \o r) = list[i].charge + ChargeOf(r) BY <1>1, <1>2, ChargeCons
<1>9. ToFront(list, i) = <<list[i]>> \o r BY DEF ToFront, r
<1>10. Len(<<list[i]>> \o r) = Len(list)
  <2>1. Len(r) + 1 = Len(list) BY <1>1, <1>2
  <2> QED BY <1>7, <2>1, Zenon
<1>11. KeysOf(<<list[i]>> \o r) = KeysOf(list) BY <1>3, <1>4, <1>6
<1> QED BY <1>5, <1>6, <1>7, <1>8, <1>9, <1>10, <1>11

\* The list that an Insert of a new key leaves.
LEMMA NewList ==
  ASSUME NEW list \in Seq(Entries), Distinct(list), NEW n \in 0 .. Len(list),
         NEW e \in Entries, e.key \notin KeysOf(list)
  PROVE  /\ <<e>> \o Kept(list, n) \in Seq(Entries)
         /\ Len(<<e>> \o Kept(list, n)) = Len(list) - n + 1
         /\ Distinct(<<e>> \o Kept(list, n))
         /\ KeysOf(<<e>> \o Kept(list, n)) = (KeysOf(list) \ KeysOf(Evicted(list, n))) \cup {e.key}
         /\ ChargeOf(<<e>> \o Kept(list, n)) = e.charge + ChargeOf(Kept(list, n))
<1> DEFINE a == Kept(list, n)
<1>1. a \in Seq(Entries) /\ Len(a) = Len(list) - n BY KeptList
<1>2. Distinct(a) /\ KeysOf(a) = KeysOf(list) \ KeysOf(Evicted(list, n)) BY KeysKept
<1> HIDE DEF a
<1>3. e.key \notin KeysOf(a) BY <1>2
<1>4. <<e>> \o a \in Seq(Entries) /\ Len(<<e>> \o a) = Len(a) + 1 BY <1>1, ConsList
<1>5. Distinct(<<e>> \o a) /\ KeysOf(<<e>> \o a) = KeysOf(a) \cup {e.key}
  BY <1>1, <1>2, <1>3, KeysCons
<1>6. ChargeOf(<<e>> \o a) = e.charge + ChargeOf(a) BY <1>1, ChargeCons
<1> QED BY <1>1, <1>2, <1>4, <1>5, <1>6 DEF a

\* The list that an Insert of a key at p leaves.
LEMMA UpdateList ==
  ASSUME NEW list \in Seq(Entries), Distinct(list), NEW n \in 0 .. Len(list),
         NEW p \in 1 .. Len(list), p <= Len(list) - n, NEW e \in Entries, e.key = list[p].key
  PROVE  /\ <<e>> \o RemoveAt(Kept(list, n), p) \in Seq(Entries)
         /\ Len(<<e>> \o RemoveAt(Kept(list, n), p)) = Len(list) - n
         /\ Distinct(<<e>> \o RemoveAt(Kept(list, n), p))
         /\ KeysOf(<<e>> \o RemoveAt(Kept(list, n), p)) = KeysOf(list) \ KeysOf(Evicted(list, n))
         /\ e.charge = list[p].charge =>
              ChargeOf(<<e>> \o RemoveAt(Kept(list, n), p)) = ChargeOf(Kept(list, n))
<1> DEFINE a == Kept(list, n)
           r == RemoveAt(a, p)
<1>0. Len(list) \in Nat BY LenProperties
<1>1. /\ a \in Seq(Entries) /\ Len(a) = Len(list) - n
      /\ \A i \in 1 .. Len(list) - n : a[i] = list[i]
  BY KeptList
<1>2. Distinct(a) /\ KeysOf(a) = KeysOf(list) \ KeysOf(Evicted(list, n)) BY KeysKept
<1> HIDE DEF a
<1>3. p \in 1 .. Len(a) /\ a[p] = list[p] BY <1>0, <1>1
<1>4. r \in Seq(Entries) /\ Len(r) = Len(a) - 1 BY <1>1, <1>3, RemoveList
<1>5. Distinct(r) /\ KeysOf(r) = KeysOf(a) \ {e.key} BY <1>1, <1>2, <1>3, KeysRemove
<1>6. ChargeOf(a) = list[p].charge + ChargeOf(r) BY <1>1, <1>3, ChargeRemove
<1>7. e.key \in KeysOf(a)
  <2>1. DOMAIN a = 1 .. Len(a) BY <1>1, LenProperties
  <2> QED BY <1>3, <2>1 DEF KeysOf
<1> HIDE DEF r
<1>8. <<e>> \o r \in Seq(Entries) /\ Len(<<e>> \o r) = Len(r) + 1 BY <1>4, ConsList
<1>9. Distinct(<<e>> \o r) /\ KeysOf(<<e>> \o r) = KeysOf(r) \cup {e.key}
  BY <1>4, <1>5, KeysCons
<1>10. ChargeOf(<<e>> \o r) = e.charge + ChargeOf(r) BY <1>4, ChargeCons
<1>11. Len(<<e>> \o r) = Len(list) - n
  <2>1. Len(r) + 1 = Len(list) - n BY <1>0, <1>1, <1>4
  <2> QED BY <1>8, <2>1, Zenon
<1>12. KeysOf(<<e>> \o r) = KeysOf(list) \ KeysOf(Evicted(list, n)) BY <1>2, <1>5, <1>7, <1>9
<1>13. e.charge = list[p].charge => ChargeOf(<<e>> \o r) = ChargeOf(a) BY <1>6, <1>10
<1> QED BY <1>8, <1>9, <1>11, <1>12, <1>13 DEF a, r
-----------------------------------------------------------------------------
(***************************************************************************)
(* Type correctness, and the map and the list of a shard agree: for all    *)
(* options and all handles, whatever their charges.                        *)
(***************************************************************************)
\* One shard gets a list L and the keys of L; the others stay.
LEMMA OneShard ==
  ASSUME LRUInv, NEW s \in Shards, NEW L \in Seq(Entries), Distinct(L),
         entries' = [entries EXCEPT ![s] = L],
         map' = [map EXCEPT ![s] = KeysOf(L)],
         NEW u \in 0 .. SizeMod - 1, usage' = [usage EXCEPT ![s] = u],
         got' \in {None} \cup {e.val : e \in Entries}, undefined' \subseteq {"popped", "lost"}
  PROVE  LRUInv'
<1>1. KeysOf(L) \in SUBSET Keys
  <2>1. \A e \in Entries : e.key \in Keys BY DEF Entries
  <2>2. \A i \in 1 .. Len(L) : L[i] \in Entries BY ElementOfSeq
  <2>3. DOMAIN L = 1 .. Len(L) BY LenProperties
  <2> QED BY <2>1, <2>2, <2>3 DEF KeysOf
<1>2. TypeOK' BY <1>1 DEF LRUInv, TypeOK
<1>3. \A r \in Shards : entries'[r] = (IF r = s THEN L ELSE entries[r])
                     /\ map'[r] = (IF r = s THEN KeysOf(L) ELSE map[r])
  BY DEF LRUInv, TypeOK
<1>4. ListInv'
  <2> SUFFICES ASSUME NEW r \in Shards
               PROVE  Distinct(entries'[r]) /\ map'[r] = KeysOf(entries'[r])
    BY DEF ListInv
  <2>1. CASE r = s BY <1>3, <2>1
  <2>2. CASE r # s BY <1>3, <2>2 DEF LRUInv, ListInv
  <2> QED BY <2>1, <2>2
<1> QED BY <1>2, <1>4 DEF LRUInv

LEMMA InitLRUInv == Init => LRUInv
<1> SUFFICES ASSUME Init PROVE LRUInv OBVIOUS
<1>1. <<>> \in Seq(Entries) /\ Len(<<>>) = 0 /\ KeysOf(<<>>) = {}
  BY EmptySeq DEF KeysOf
<1>2. 0 \in 0 .. SizeMod - 1 BY OptionFacts
<1>3. TypeOK BY <1>1, <1>2 DEF Init, TypeOK
<1>4. Distinct(<<>>) BY <1>1 DEF Distinct
<1>5. ListInv BY <1>1, <1>4 DEF Init, ListInv
<1> QED BY <1>3, <1>5 DEF LRUInv

LEMMA NextLRUInv == LRUInv /\ [Next]_vars => LRUInv'
<1> SUFFICES ASSUME LRUInv, [Next]_vars PROVE LRUInv' OBVIOUS
<1>1. CASE UNCHANGED vars BY <1>1 DEF LRUInv, TypeOK, ListInv, vars
<1>2. CASE Undefined BY <1>2 DEF Undefined, LRUInv, TypeOK, ListInv
<1>3. ASSUME NEW k \in Keys, Get(k) PROVE LRUInv'
  <2> PICK s \in Shards : s = ShardOf(k) BY ShardFacts
  <2>1. CASE k \notin map[s] /\ got' = None /\ UNCHANGED <<entries, map, usage, undefined>>
    BY <2>1 DEF LRUInv, TypeOK, ListInv
  <2>2. ASSUME NEW i \in 1 .. Len(entries[s]),
               entries' = [entries EXCEPT ![s] = ToFront(entries[s], i)],
               got' = entries[s][i].val, UNCHANGED <<map, usage, undefined>>
        PROVE  LRUInv'
    <3>1. entries[s] \in Seq(Entries) /\ entries[s][i] \in Entries /\ usage[s] \in 0 .. SizeMod - 1
      BY ShardShape DEF LRUInv
    <3>2. Distinct(entries[s]) /\ map[s] = KeysOf(entries[s]) BY DEF LRUInv, ListInv
    <3>3. PICK L \in Seq(Entries) : L = ToFront(entries[s], i) /\ Distinct(L) /\ KeysOf(L) = map[s]
      BY <3>1, <3>2, ToFrontList
    <3>4. map' = [map EXCEPT ![s] = KeysOf(L)] /\ usage' = [usage EXCEPT ![s] = usage[s]]
      BY <2>2, <3>3 DEF LRUInv, TypeOK
    <3>5. got' \in {None} \cup {e.val : e \in Entries} /\ undefined' \subseteq {"popped", "lost"}
      BY <2>2, <3>1 DEF LRUInv, TypeOK
    <3> QED BY <2>2, <3>1, <3>3, <3>4, <3>5, OneShard
  <2> QED BY <1>3, <2>1, <2>2, GetOutcome
<1>4. ASSUME NEW k \in Keys, NEW h \in Handles[k], InsertNew(k, h) PROVE LRUInv'
  <2> PICK s \in Shards : s = ShardOf(k) BY ShardFacts
  <2>1. CASE Undefined BY <1>2, <2>1
  <2>2. ASSUME NEW n \in 0 .. Len(entries[s]), k \notin map[s],
               entries' = [entries EXCEPT ![s] = <<Entry(k, h)>> \o Kept(entries[s], n)],
               map' = [map EXCEPT ![s] = MapAfter(s, n) \cup {k}],
               usage' = [usage EXCEPT ![s] = Charged(UsageAfter(s, n), h.charge)],
               ReadsPopped(n), UNCHANGED got
        PROVE  LRUInv'
    <3>1. entries[s] \in Seq(Entries) BY ShardShape DEF LRUInv
    <3>2. Distinct(entries[s]) /\ map[s] = KeysOf(entries[s]) BY DEF LRUInv, ListInv
    <3>3. Entry(k, h) \in Entries /\ Entry(k, h).key = k /\ h.charge \in Nat BY EntryFacts
    <3>4. PICK L \in Seq(Entries) : /\ L = <<Entry(k, h)>> \o Kept(entries[s], n)
                                    /\ Distinct(L) /\ KeysOf(L) = MapAfter(s, n) \cup {k}
      <4> DEFINE X == <<Entry(k, h)>> \o Kept(entries[s], n)
      <4>1. /\ X \in Seq(Entries) /\ Distinct(X)
            /\ KeysOf(X) = (KeysOf(entries[s]) \ KeysOf(Evicted(entries[s], n))) \cup {k}
        BY <2>2, <3>1, <3>2, <3>3, NewList
      <4> QED BY <3>2, <4>1 DEF MapAfter
    <3>5. Charged(UsageAfter(s, n), h.charge) \in 0 .. SizeMod - 1
      <4>1. UsageAfter(s, n) \in Int BY UsageAfterType, OptionFacts DEF LRUInv
      <4>2. UsageAfter(s, n) + h.charge \in Int BY <3>3, <4>1
      <4> QED BY <4>2, SizeDivMod DEF Charged
    <3>6. got' \in {None} \cup {e.val : e \in Entries} /\ undefined' \subseteq {"popped", "lost"}
      BY <2>2 DEF LRUInv, TypeOK, ReadsPopped
    <3> QED BY <2>2, <3>4, <3>5, <3>6, OneShard
  <2> QED BY <1>4, <2>1, <2>2, InsertNewOutcome
<1>5. ASSUME NEW k \in Keys, NEW h \in Handles[k], InsertUpdate(k, h) PROVE LRUInv'
  <2> PICK s \in Shards : s = ShardOf(k) BY ShardFacts
  <2>1. CASE Undefined BY <1>2, <2>1
  <2>2. ASSUME NEW p \in 1 .. Len(entries[s]), NEW n \in 0 .. Len(entries[s]),
               entries[s][p].key = k, Updated(k, h, s, p, n)
        PROVE  LRUInv'
    <3>1. entries[s] \in Seq(Entries) BY ShardShape DEF LRUInv
    <3>2. Distinct(entries[s]) /\ map[s] = KeysOf(entries[s]) BY DEF LRUInv, ListInv
    <3>3. Entry(k, h) \in Entries /\ Entry(k, h).key = entries[s][p].key BY <2>2, EntryFacts
    <3>4. PICK L \in Seq(Entries) : /\ L = <<Entry(k, h)>> \o RemoveAt(Kept(entries[s], n), p)
                                    /\ Distinct(L) /\ KeysOf(L) = MapAfter(s, n)
      <4> DEFINE X == <<Entry(k, h)>> \o RemoveAt(Kept(entries[s], n), p)
      <4>1. /\ X \in Seq(Entries) /\ Distinct(X)
            /\ KeysOf(X) = KeysOf(entries[s]) \ KeysOf(Evicted(entries[s], n))
        BY <2>2, <3>1, <3>2, <3>3, UpdateList DEF Updated
      <4> QED BY <3>2, <4>1 DEF MapAfter
    <3>5. UsageAfter(s, n) \in 0 .. SizeMod - 1 BY UsageAfterType DEF LRUInv
    <3>6. got' \in {None} \cup {e.val : e \in Entries} /\ undefined' \subseteq {"popped", "lost"}
      BY <2>2 DEF LRUInv, TypeOK, Updated, ReadsPopped
    <3> QED BY <2>2, <3>4, <3>5, <3>6, OneShard DEF Updated
  <2> QED BY <1>5, <2>1, <2>2, InsertUpdateOutcome
<1> QED BY <1>1, <1>3, <1>4, <1>5 DEF Next

(***************************************************************************)
(* In every shard the map names exactly the nodes of the list, each key    *)
(* once, whatever Get and Insert are called with: no iterator in map_      *)
(* outlives its node.                                                      *)
(***************************************************************************)
THEOREM ShardsConsistent == Spec => []LRUInv
BY InitLRUInv, NextLRUInv, PTL DEF Spec

\* The types are those the code declares.
THEOREM TypesHold == Spec => []TypeOK
<1>1. LRUInv => TypeOK BY DEF LRUInv
<1> QED BY <1>1, ShardsConsistent, PTL
-----------------------------------------------------------------------------
(***************************************************************************)
(* The charge in use and the limits, for keys that keep their charge.      *)
(***************************************************************************)
\* A key always comes with the same charge: usage_ is not adjusted to a new one.
FixedCharges == \A k \in Keys : \A g, h \in Handles[k] : g.charge = h.charge

\* usage_ + need_charge does not wrap around.
NoWrap == \A k \in Keys : \A h \in Handles[k] : Capacity + h.charge < SizeMod

\* usage_ is the charge of the list as a size_t.
Account(s) == usage[s] = ChargeOf(entries[s]) % SizeMod

Bounded(s) == /\ ShardCapacity # 0 => ChargeOf(entries[s]) <= ShardCapacity
              /\ MaxEntryNum # 0 => Len(entries[s]) <= MaxEntryNum

Accounts == \A s \in Shards : Account(s) /\ Bounded(s)

\* usage_ after n evictions is the charge of what is kept.
LEMMA UsageKept ==
  ASSUME LRUInv, NEW s \in Shards, Account(s), NEW n \in 0 .. Len(entries[s])
  PROVE  UsageAfter(s, n) = ChargeOf(Kept(entries[s], n)) % SizeMod
<1>1. entries[s] \in Seq(Entries) BY ShardShape DEF LRUInv
<1>2. Kept(entries[s], n) \in Seq(Entries) /\ Evicted(entries[s], n) \in Seq(Entries)
  BY <1>1, KeptList
<1>3. PICK c \in Nat : c = ChargeOf(entries[s]) BY <1>1, ChargeNat
<1>4. PICK a \in Nat : a = ChargeOf(Kept(entries[s], n)) BY <1>2, ChargeNat
<1>5. PICK b \in Nat : b = ChargeOf(Evicted(entries[s], n)) BY <1>2, ChargeNat
<1>6. c = a + b BY <1>1, <1>3, <1>4, <1>5, ChargeKept
<1>7. PICK d \in Int : d = 0 - b OBVIOUS
<1>8. ((c % SizeMod) + d) % SizeMod = (c + d) % SizeMod BY SizeWrap
<1>9. c + d = a BY <1>6, <1>7
<1>10. c % SizeMod \in Int BY SizeDivMod, OptionFacts
<1>11. (c % SizeMod) - b = (c % SizeMod) + d BY <1>7, <1>10
<1> QED BY <1>3, <1>4, <1>5, <1>8, <1>9, <1>11 DEF UsageAfter, Account

\* What is kept has less charge when more is evicted.
LEMMA KeptLess ==
  ASSUME NEW list \in Seq(Entries), NEW n \in 0 .. Len(list), NEW m \in 0 .. n
  PROVE  ChargeOf(Kept(list, n)) <= ChargeOf(Kept(list, m))
<1>0. Len(list) \in Nat /\ m \in 0 .. Len(list) BY LenProperties
<1>1. /\ Kept(list, n) \in Seq(Entries) /\ Len(Kept(list, n)) = Len(list) - n
      /\ \A i \in 1 .. Len(list) - n : Kept(list, n)[i] = list[i]
  BY KeptList
<1>2. PICK a \in Seq(Entries) : a = Kept(list, m) /\ Len(a) = Len(list) - m
                                /\ \A i \in 1 .. Len(list) - m : a[i] = list[i]
  BY <1>0, KeptList
<1>3. PICK d \in 0 .. Len(a) : d = n - m
  <2>1. n - m \in 0 .. Len(a) BY <1>0, <1>2
  <2> QED BY <2>1
<1>4. /\ Kept(a, d) \in Seq(Entries) /\ Len(Kept(a, d)) = Len(a) - d
      /\ \A i \in 1 .. Len(a) - d : Kept(a, d)[i] = a[i]
      /\ Evicted(a, d) \in Seq(Entries)
  BY KeptList
<1>5. Len(a) - d = Len(list) - n BY <1>0, <1>2, <1>3
<1>6. \A i \in 1 .. Len(list) - n : i \in 1 .. Len(list) - m BY <1>0
<1>7. \A i \in 1 .. Len(list) - n : Kept(a, d)[i] = Kept(list, n)[i]
  BY <1>1, <1>2, <1>4, <1>5, <1>6
<1>8. Kept(a, d) = Kept(list, n) BY <1>1, <1>4, <1>5, <1>7, SeqEqual
<1>9. ChargeOf(a) = ChargeOf(Kept(a, d)) + ChargeOf(Evicted(a, d)) BY ChargeKept
<1>10. ChargeOf(Kept(a, d)) \in Nat /\ ChargeOf(Evicted(a, d)) \in Nat BY <1>4, ChargeNat
<1> QED BY <1>2, <1>8, <1>9, <1>10

\* Entries of one key have the same charge.
LEMMA SameCharge ==
  ASSUME FixedCharges, NEW k \in Keys, NEW h \in Handles[k], NEW e \in Entries, e.key = k
  PROVE  e.charge = h.charge
BY DEF FixedCharges, Entries

\* The loop for the charge has made room in the shard.
LEMMA FitsBound ==
  ASSUME LRUInv, NoWrap, NEW s \in Shards, Account(s), Bounded(s),
         NEW k \in Keys, NEW h \in Handles[k],
         NEW m \in 0 .. Len(entries[s]), Fits(s, h.charge, m), ShardCapacity # 0
  PROVE  h.charge + ChargeOf(Kept(entries[s], m)) <= ShardCapacity
<1>1. entries[s] \in Seq(Entries) BY ShardShape DEF LRUInv
<1>2. Kept(entries[s], m) \in Seq(Entries) /\ Evicted(entries[s], m) \in Seq(Entries)
  BY <1>1, KeptList
<1>3. PICK a \in Nat : a = ChargeOf(Kept(entries[s], m)) BY <1>2, ChargeNat
<1>4. a <= ShardCapacity
  <2>1. ChargeOf(Evicted(entries[s], m)) \in Nat BY <1>2, ChargeNat
  <2>2. ChargeOf(entries[s]) = a + ChargeOf(Evicted(entries[s], m)) BY <1>1, <1>3, ChargeKept
  <2>3. ChargeOf(entries[s]) <= ShardCapacity BY DEF Bounded
  <2> QED BY <2>1, <2>2, <2>3, OptionFacts
<1>5. h.charge \in Nat BY EntryFacts
<1>6. ShardCapacity + h.charge < SizeMod BY DEF NoWrap, ShardCapacity
<1>7. a \in 0 .. SizeMod - 1 /\ a + h.charge \in 0 .. SizeMod - 1
  BY <1>4, <1>5, <1>6, OptionFacts
<1>8. UsageAfter(s, m) = a BY <1>3, <1>7, UsageKept, SizeSmall
<1>9. (a + h.charge) % SizeMod = a + h.charge BY <1>7, SizeSmall
<1>10. a + h.charge <= ShardCapacity BY <1>8, <1>9 DEF Fits
<1> QED BY <1>3, <1>5, <1>10

\* One shard gets a list with its charge and within its bounds; the others stay.
LEMMA OneAccount ==
  ASSUME LRUInv, Accounts, NEW s \in Shards, NEW L, NEW u,
         entries' = [entries EXCEPT ![s] = L], usage' = [usage EXCEPT ![s] = u],
         u = ChargeOf(L) % SizeMod,
         ShardCapacity # 0 => ChargeOf(L) <= ShardCapacity,
         MaxEntryNum # 0 => Len(L) <= MaxEntryNum
  PROVE  Accounts'
<1>1. \A r \in Shards : /\ entries'[r] = (IF r = s THEN L ELSE entries[r])
                        /\ usage'[r] = (IF r = s THEN u ELSE usage[r])
  BY DEF LRUInv, TypeOK
<1> SUFFICES ASSUME NEW r \in Shards
             PROVE  /\ usage'[r] = ChargeOf(entries'[r]) % SizeMod
                    /\ ShardCapacity # 0 => ChargeOf(entries'[r]) <= ShardCapacity
                    /\ MaxEntryNum # 0 => Len(entries'[r]) <= MaxEntryNum
  BY DEF Accounts, Account, Bounded
<1>2. CASE r = s BY <1>1, <1>2
<1>3. CASE r # s BY <1>1, <1>3 DEF Accounts, Account, Bounded
<1> QED BY <1>2, <1>3

LEMMA InitAccounts == Init => Accounts
<1> SUFFICES ASSUME Init PROVE Accounts OBVIOUS
<1>1. Len(<<>>) = 0 BY EmptySeq
<1>2. 0 % SizeMod = 0
  <2>1. 0 \in 0 .. SizeMod - 1 BY OptionFacts
  <2> QED BY <2>1, SizeSmall
<1> QED BY <1>1, <1>2, ChargeEmpty, OptionFacts DEF Init, Accounts, Account, Bounded

LEMMA NextAccounts ==
  FixedCharges /\ NoWrap /\ LRUInv /\ Accounts /\ [Next]_vars => Accounts'
<1> SUFFICES ASSUME FixedCharges, NoWrap, LRUInv, Accounts, [Next]_vars PROVE Accounts'
  OBVIOUS
<1>1. CASE UNCHANGED vars BY <1>1 DEF Accounts, Account, Bounded, vars
<1>2. CASE Undefined BY <1>2 DEF Undefined, Accounts, Account, Bounded
<1>3. ASSUME NEW k \in Keys, Get(k) PROVE Accounts'
  <2> PICK s \in Shards : s = ShardOf(k) BY ShardFacts
  <2>1. CASE UNCHANGED <<entries, usage>> BY <2>1 DEF Accounts, Account, Bounded
  <2>2. ASSUME NEW i \in 1 .. Len(entries[s]),
               entries' = [entries EXCEPT ![s] = ToFront(entries[s], i)], UNCHANGED usage
        PROVE  Accounts'
    <3>1. entries[s] \in Seq(Entries) BY ShardShape DEF LRUInv
    <3>2. Distinct(entries[s]) BY DEF LRUInv, ListInv
    <3>3. PICK L : /\ L = ToFront(entries[s], i) /\ ChargeOf(L) = ChargeOf(entries[s])
                   /\ Len(L) = Len(entries[s])
      BY <3>1, <3>2, ToFrontList
    <3>4. usage' = [usage EXCEPT ![s] = usage[s]] BY <2>2 DEF LRUInv, TypeOK
    <3>5. Account(s) /\ Bounded(s) BY DEF Accounts
    <3> QED BY <2>2, <3>3, <3>4, <3>5, OneAccount DEF Account, Bounded
  <2> QED BY <1>3, <2>1, <2>2, GetOutcome
<1>4. ASSUME NEW k \in Keys, NEW h \in Handles[k], InsertNew(k, h) PROVE Accounts'
  <2> PICK s \in Shards : s = ShardOf(k) BY ShardFacts
  <2>1. CASE Undefined BY <1>2, <2>1
  <2>2. ASSUME NEW n \in 0 .. Len(entries[s]), k \notin map[s],
               \E m \in 0 .. n : Fits(s, h.charge, m),
               MaxEntryNum # 0 => n >= Len(entries[s]) + 1 - MaxEntryNum,
               entries' = [entries EXCEPT ![s] = <<Entry(k, h)>> \o Kept(entries[s], n)],
               usage' = [usage EXCEPT ![s] = Charged(UsageAfter(s, n), h.charge)]
        PROVE  Accounts'
    <3>1. entries[s] \in Seq(Entries) /\ Len(entries[s]) \in Nat BY ShardShape DEF LRUInv
    <3>2. Distinct(entries[s]) /\ map[s] = KeysOf(entries[s]) BY DEF LRUInv, ListInv
    <3>3. /\ Entry(k, h) \in Entries /\ Entry(k, h).key = k
          /\ Entry(k, h).charge = h.charge /\ h.charge \in Nat
      BY EntryFacts
    <3>4. PICK a \in Nat : a = ChargeOf(Kept(entries[s], n)) BY <3>1, KeptList, ChargeNat
    <3>5. PICK L : /\ L = <<Entry(k, h)>> \o Kept(entries[s], n)
                   /\ ChargeOf(L) = h.charge + a /\ Len(L) = Len(entries[s]) - n + 1
      <4> DEFINE X == <<Entry(k, h)>> \o Kept(entries[s], n)
      <4>1. /\ ChargeOf(X) = Entry(k, h).charge + ChargeOf(Kept(entries[s], n))
            /\ Len(X) = Len(entries[s]) - n + 1
        BY <2>2, <3>1, <3>2, <3>3, NewList
      <4> QED BY <3>3, <3>4, <4>1
    <3>6. Account(s) /\ Bounded(s) BY DEF Accounts
    <3>7. Charged(UsageAfter(s, n), h.charge) = ChargeOf(L) % SizeMod
      <4>1. UsageAfter(s, n) = a % SizeMod BY <3>4, <3>6, UsageKept
      <4>2. ((a % SizeMod) + h.charge) % SizeMod = (a + h.charge) % SizeMod
        <5>1. PICK d \in Int : d = h.charge BY <3>3
        <5>2. ((a % SizeMod) + d) % SizeMod = (a + d) % SizeMod BY SizeWrap
        <5> QED BY <5>1, <5>2
      <4>3. a + h.charge = ChargeOf(L) BY <3>3, <3>5
      <4> QED BY <4>1, <4>2, <4>3 DEF Charged
    <3>8. ASSUME ShardCapacity # 0 PROVE ChargeOf(L) <= ShardCapacity
      <4>1. PICK m \in 0 .. n : Fits(s, h.charge, m) BY <2>2
      <4>2. m \in 0 .. Len(entries[s]) BY <3>1
      <4>3. PICK b \in Nat : b = ChargeOf(Kept(entries[s], m)) BY <3>1, <4>2, KeptList, ChargeNat
      <4>4. h.charge + b <= ShardCapacity BY <3>6, <3>8, <4>1, <4>2, <4>3, FitsBound
      <4>5. a <= b BY <3>1, <3>4, <4>3, KeptLess
      <4> QED BY <3>3, <3>5, <4>4, <4>5, OptionFacts
    <3>9. MaxEntryNum # 0 => Len(L) <= MaxEntryNum BY <2>2, <3>1, <3>5, OptionFacts
    <3> QED BY <2>2, <3>5, <3>7, <3>8, <3>9, OneAccount
  <2> QED BY <1>4, <2>1, <2>2, InsertNewOutcome
<1>5. ASSUME NEW k \in Keys, NEW h \in Handles[k], InsertUpdate(k, h) PROVE Accounts'
  <2> PICK s \in Shards : s = ShardOf(k) BY ShardFacts
  <2>1. CASE Undefined BY <1>2, <2>1
  <2>2. ASSUME NEW p \in 1 .. Len(entries[s]), NEW n \in 0 .. Len(entries[s]),
               entries[s][p].key = k, Updated(k, h, s, p, n)
        PROVE  Accounts'
    <3>1. entries[s] \in Seq(Entries) /\ Len(entries[s]) \in Nat /\ entries[s][p] \in Entries
      BY ShardShape DEF LRUInv
    <3>2. Distinct(entries[s]) BY DEF LRUInv, ListInv
    <3>3. /\ Entry(k, h) \in Entries /\ Entry(k, h).key = entries[s][p].key
          /\ Entry(k, h).charge = entries[s][p].charge
      BY <2>2, <3>1, EntryFacts, SameCharge
    <3>4. PICK L : /\ L = <<Entry(k, h)>> \o RemoveAt(Kept(entries[s], n), p)
                   /\ ChargeOf(L) = ChargeOf(Kept(entries[s], n)) /\ Len(L) = Len(entries[s]) - n
      <4> DEFINE X == <<Entry(k, h)>> \o RemoveAt(Kept(entries[s], n), p)
      <4>1. p <= Len(entries[s]) - n BY <2>2 DEF Updated
      <4>2. ChargeOf(X) = ChargeOf(Kept(entries[s], n)) /\ Len(X) = Len(entries[s]) - n
        <5>1. PICK e \in Entries : e = Entry(k, h) BY <3>3
        <5>2. PICK list \in Seq(Entries) : list = entries[s] BY <3>1
        <5>3. /\ Distinct(list) /\ p \in 1 .. Len(list) /\ n \in 0 .. Len(list)
              /\ p <= Len(list) - n /\ e.key = list[p].key /\ e.charge = list[p].charge
          BY <3>2, <3>3, <4>1, <5>1, <5>2
        <5>4. /\ Len(<<e>> \o RemoveAt(Kept(list, n), p)) = Len(list) - n
              /\ ChargeOf(<<e>> \o RemoveAt(Kept(list, n), p)) = ChargeOf(Kept(list, n))
          BY <5>3, UpdateList
        <5> QED BY <5>1, <5>2, <5>4
      <4> QED BY <4>2
    <3>5. Account(s) /\ Bounded(s) BY DEF Accounts
    <3>6. UsageAfter(s, n) = ChargeOf(L) % SizeMod BY <3>4, <3>5, UsageKept
    <3>7. ASSUME ShardCapacity # 0 PROVE ChargeOf(L) <= ShardCapacity
      <4>1. Kept(entries[s], n) \in Seq(Entries) /\ Evicted(entries[s], n) \in Seq(Entries)
        BY <3>1, KeptList
      <4>2. ChargeOf(L) \in Nat /\ ChargeOf(Evicted(entries[s], n)) \in Nat
        BY <3>4, <4>1, ChargeNat
      <4>3. ChargeOf(entries[s]) = ChargeOf(L) + ChargeOf(Evicted(entries[s], n))
        BY <3>1, <3>4, ChargeKept
      <4>4. ChargeOf(entries[s]) <= ShardCapacity BY <3>5, <3>7 DEF Bounded
      <4> QED BY <4>2, <4>3, <4>4, OptionFacts
    <3>8. MaxEntryNum # 0 => Len(L) <= MaxEntryNum
      BY <3>1, <3>4, <3>5, OptionFacts DEF Bounded
    <3> QED BY <2>2, <3>4, <3>6, <3>7, <3>8, OneAccount DEF Updated
  <2> QED BY <1>5, <2>1, <2>2, InsertUpdateOutcome
<1> QED BY <1>1, <1>3, <1>4, <1>5 DEF Next

(***************************************************************************)
(* usage_ is the charge of the entries as a size_t and no shard outgrows   *)
(* its limits, through every sequence of calls, when a key keeps its       *)
(* charge and usage_ + need_charge cannot wrap around.                     *)
(***************************************************************************)
THEOREM AccountsHold == FixedCharges /\ NoWrap /\ Spec => []Accounts
<1> SUFFICES ASSUME FixedCharges, NoWrap PROVE Spec => []Accounts OBVIOUS
<1>1. Init => LRUInv /\ Accounts BY InitLRUInv, InitAccounts
<1>2. (LRUInv /\ Accounts) /\ [Next]_vars => (LRUInv /\ Accounts)'
  BY NextLRUInv, NextAccounts
<1> QED BY <1>1, <1>2, PTL DEF Spec

\* A shard never holds more charge or more entries than it was given.
THEOREM ShardsBounded == FixedCharges /\ NoWrap /\ Spec => []ShardBounded
<1>1. Accounts => ShardBounded BY DEF Accounts, Bounded, ShardBounded
<1> QED BY <1>1, AccountsHold, PTL

(***************************************************************************)
(* usage_ is the charge of the entries in a cache that bounds it.          *)
(***************************************************************************)
THEOREM UsageIsExact == ShardCapacity # 0 /\ FixedCharges /\ NoWrap /\ Spec => []UsageExact
<1> SUFFICES ASSUME ShardCapacity # 0 PROVE FixedCharges /\ NoWrap /\ Spec => []UsageExact
  OBVIOUS
<1>1. LRUInv /\ Accounts => UsageExact
  <2> SUFFICES ASSUME LRUInv, Accounts, NEW s \in Shards PROVE usage[s] = ChargeOf(entries[s])
    BY DEF UsageExact
  <2>1. PICK c \in Nat : c = ChargeOf(entries[s]) BY ShardShape, ChargeNat DEF LRUInv
  <2>2. usage[s] = c % SizeMod /\ c <= ShardCapacity BY <2>1 DEF Accounts, Account, Bounded
  <2>3. ShardCapacity \in 0 .. SizeMod - 1 BY OptionsAssumption DEF ShardCapacity
  <2>4. c \in 0 .. SizeMod - 1 BY <2>2, <2>3, OptionFacts
  <2> QED BY <2>1, <2>2, <2>4, SizeSmall
<1> QED BY <1>1, ShardsConsistent, AccountsHold, PTL
-----------------------------------------------------------------------------
(***************************************************************************)
(* Undefined behaviour.                                                    *)
(***************************************************************************)
\* No handle is too large for a shard: EvictForCharge empties the list for it
\* and goes on.
ChargesFit == ShardCapacity # 0 => \A k \in Keys : \A h \in Handles[k] : h.charge <= ShardCapacity

\* The loop for the charge ends, at the latest when the list is empty.
LEMMA LoopEnds ==
  ASSUME LRUInv, NEW s \in Shards, Account(s), ChargesFit, NEW k \in Keys, NEW h \in Handles[k]
  PROVE  ChargeEvictions(s, h.charge) # {}
<1>1. entries[s] \in Seq(Entries) /\ Len(entries[s]) \in Nat BY ShardShape DEF LRUInv
<1>2. PICK n \in 0 .. Len(entries[s]) : n = Len(entries[s]) BY <1>1
<1>3. Kept(entries[s], n) = <<>>
  <2>1. Kept(entries[s], n) \in Seq(Entries) /\ Len(Kept(entries[s], n)) = Len(entries[s]) - n
    BY <1>1, KeptList
  <2>2. Len(Kept(entries[s], n)) = 0 BY <1>1, <1>2, <2>1
  <2> QED BY <2>1, <2>2, EmptySeq
<1>4. UsageAfter(s, n) = 0
  <2>1. 0 \in 0 .. SizeMod - 1 BY OptionFacts
  <2> QED BY <1>3, <2>1, UsageKept, ChargeEmpty, SizeSmall
<1>5. h.charge \in 0 .. SizeMod - 1 /\ h.charge \in Nat BY EntryFacts
<1>6. (0 + h.charge) % SizeMod = h.charge
  <2>1. 0 + h.charge = h.charge BY <1>5
  <2> QED BY <1>5, <2>1, SizeSmall
<1>7. Fits(s, h.charge, n) BY <1>4, <1>6 DEF Fits, ChargesFit
<1> QED BY <1>7 DEF ChargeEvictions

(***************************************************************************)
(* The reads of the node an evict loop has just popped are the only        *)
(* undefined behaviour: no call reaches another freed node or pops from an *)
(* empty list.  For keys that keep their charge, charges that fit a shard, *)
(* and handles without a del_cb, which the loops would run on a destroyed  *)
(* node.                                                                   *)
(***************************************************************************)
THEOREM OnlyPoppedNodesRead ==
  FixedCharges /\ NoWrap /\ ChargesFit /\ ~DelCb /\ Spec => []OnlyPoppedRead
<1> SUFFICES ASSUME FixedCharges, NoWrap, ChargesFit, ~DelCb PROVE Spec => []OnlyPoppedRead
  OBVIOUS
<1> DEFINE I == LRUInv /\ Accounts /\ OnlyPoppedRead
<1>1. Init => I BY InitLRUInv, InitAccounts DEF Init, OnlyPoppedRead
<1>2. I /\ [Next]_vars => I'
  <2> SUFFICES ASSUME I, [Next]_vars PROVE I' OBVIOUS
  <2>1. LRUInv' /\ Accounts' BY NextLRUInv, NextAccounts
  <2>2. OnlyPoppedRead'
    <3>1. CASE UNCHANGED vars BY <3>1 DEF OnlyPoppedRead, vars
    <3>2. ASSUME NEW k \in Keys, Get(k) PROVE OnlyPoppedRead'
      BY <3>2, GetOutcome DEF OnlyPoppedRead
    <3>3. ASSUME NEW k \in Keys, NEW h \in Handles[k], InsertNew(k, h) PROVE OnlyPoppedRead'
      <4>1. PICK s \in Shards : s = ShardOf(k) BY ShardFacts
      <4>2. ChargeEvictions(s, h.charge) # {} BY LoopEnds DEF Accounts
      <4> QED BY <3>3, <4>1, <4>2, InsertNewOutcome DEF OnlyPoppedRead, ReadsPopped
    <3>4. ASSUME NEW k \in Keys, NEW h \in Handles[k], InsertUpdate(k, h) PROVE OnlyPoppedRead'
      <4>1. PICK s \in Shards : s = ShardOf(k) BY ShardFacts
      <4>2. PICK p \in 1 .. Len(entries[s]) :
              /\ entries[s][p].key = k
              /\ \/ Undefined /\ (h.charge - entries[s][p].charge) % SizeMod # 0
                 \/ \E n \in 0 .. Len(entries[s]) : Updated(k, h, s, p, n)
        BY <3>4, <4>1, InsertUpdateOutcome
      <4>3. entries[s][p] \in Entries BY ShardShape DEF LRUInv
      <4>4. entries[s][p].charge = h.charge /\ h.charge \in Nat
        BY <4>2, <4>3, SameCharge, EntryFacts
      <4>5. (h.charge - entries[s][p].charge) % SizeMod = 0
        <5>1. h.charge - entries[s][p].charge = 0 BY <4>4
        <5>2. 0 \in 0 .. SizeMod - 1 BY OptionFacts
        <5> QED BY <5>1, <5>2, SizeSmall
      <4> QED BY <4>2, <4>5 DEF Updated, ReadsPopped, OnlyPoppedRead
    <3> QED BY <3>1, <3>2, <3>3, <3>4 DEF Next
  <2> QED BY <2>1, <2>2
<1>3. I => OnlyPoppedRead OBVIOUS
<1> HIDE DEF I
<1> QED BY <1>1, <1>2, <1>3, PTL DEF Spec
-----------------------------------------------------------------------------
(***************************************************************************)
(* The order of the entries.                                               *)
(***************************************************************************)
\* The keys of the list are the first of a sequence of keys.
Match(list, seq) == /\ Len(list) <= Len(seq)
                    /\ \A i \in 1 .. Len(list) : seq[i] = list[i].key

Unique(seq) == \A i, j \in 1 .. Len(seq) : seq[i] = seq[j] => i = j

\* A new head on both sides.
LEMMA MatchCons ==
  ASSUME NEW list \in Seq(Entries), NEW seq \in Seq(Keys), Match(list, seq),
         NEW e \in Entries, e.key \in Keys
  PROVE  Match(<<e>> \o list, <<e.key>> \o seq)
<1>2. PICK k \in Keys : k = e.key OBVIOUS
<1> DEFINE c == <<e>> \o list
           d == <<k>> \o seq
<1>1. /\ Len(c) = Len(list) + 1 /\ c[1] = e
      /\ \A i \in 2 .. Len(list) + 1 : c[i] = list[i - 1]
  BY ConsList
<1>3. /\ Len(d) = Len(seq) + 1 /\ d[1] = k
      /\ \A i \in 2 .. Len(seq) + 1 : d[i] = seq[i - 1]
  BY ConsList
<1> HIDE DEF c, d
<1>4. Len(list) \in Nat /\ Len(seq) \in Nat BY LenProperties
<1>5. Len(c) <= Len(d) BY <1>1, <1>3, <1>4 DEF Match
<1>6. ASSUME NEW i \in 1 .. Len(c) PROVE d[i] = c[i].key
  <2>1. CASE i = 1 BY <1>1, <1>2, <1>3, <2>1
  <2>2. CASE i # 1
    <3>1. /\ i \in 2 .. Len(list) + 1 /\ i \in 2 .. Len(seq) + 1 /\ i - 1 \in 1 .. Len(list)
      BY <1>1, <1>4, <2>2 DEF Match
    <3>2. c[i] = list[i - 1] /\ d[i] = seq[i - 1] BY <1>1, <1>3, <3>1
    <3>3. seq[i - 1] = list[i - 1].key BY <3>1 DEF Match
    <3> QED BY <3>2, <3>3
  <2> QED BY <2>1, <2>2
<1>7. Match(c, d) BY <1>5, <1>6 DEF Match
<1> QED BY <1>2, <1>7 DEF c, d

\* The last entries go.
LEMMA MatchKept ==
  ASSUME NEW list \in Seq(Entries), NEW seq \in Seq(Keys), Match(list, seq),
         NEW n \in 0 .. Len(list)
  PROVE  Match(Kept(list, n), seq)
<1> DEFINE a == Kept(list, n)
<1>1. Len(a) = Len(list) - n /\ \A i \in 1 .. Len(list) - n : a[i] = list[i] BY KeptList
<1> HIDE DEF a
<1>2. Len(list) \in Nat /\ Len(seq) \in Nat BY LenProperties
<1>3. Match(a, seq) BY <1>1, <1>2 DEF Match
<1> QED BY <1>3 DEF a

\* The same place on both sides.
LEMMA MatchRemove ==
  ASSUME NEW list \in Seq(Entries), NEW seq \in Seq(Keys), Match(list, seq),
         NEW p \in 1 .. Len(list)
  PROVE  Match(RemoveAt(list, p), RemoveAt(seq, p))
<1>1. PICK r : /\ r = RemoveAt(list, p) /\ Len(r) = Len(list) - 1
               /\ \A i \in 1 .. p - 1 : r[i] = list[i]
               /\ \A i \in p .. Len(list) - 1 : r[i] = list[i + 1]
  BY RemoveList
<1>2. Len(list) \in Nat /\ Len(seq) \in Nat /\ p \in 1 .. Len(seq)
  BY LenProperties DEF Match
<1>3. PICK q : /\ q = RemoveAt(seq, p) /\ Len(q) = Len(seq) - 1
               /\ \A i \in 1 .. p - 1 : q[i] = seq[i]
               /\ \A i \in p .. Len(seq) - 1 : q[i] = seq[i + 1]
  BY <1>2, RemoveList
<1>4. Len(r) <= Len(q) BY <1>1, <1>2, <1>3 DEF Match
<1>5. ASSUME NEW i \in 1 .. Len(r) PROVE q[i] = r[i].key
  <2>1. CASE i < p
    <3>1. i \in 1 .. p - 1 /\ i \in 1 .. Len(list) BY <1>1, <1>2, <2>1
    <3> QED BY <1>1, <1>3, <3>1 DEF Match
  <2>2. CASE ~(i < p)
    <3>1. i \in p .. Len(list) - 1 /\ i \in p .. Len(seq) - 1 /\ i + 1 \in 1 .. Len(list)
      BY <1>1, <1>2, <2>2 DEF Match
    <3> QED BY <1>1, <1>3, <3>1 DEF Match
  <2> QED BY <2>1, <2>2
<1> QED BY <1>1, <1>3, <1>4, <1>5 DEF Match

\* A place behind the entries.
LEMMA MatchBeyond ==
  ASSUME NEW list \in Seq(Entries), NEW seq \in Seq(Keys), Match(list, seq),
         NEW p \in 1 .. Len(seq), p > Len(list)
  PROVE  Match(list, RemoveAt(seq, p))
<1>1. Len(list) \in Nat /\ Len(seq) \in Nat BY LenProperties
<1>2. PICK q : /\ q = RemoveAt(seq, p) /\ Len(q) = Len(seq) - 1
               /\ \A i \in 1 .. p - 1 : q[i] = seq[i]
  BY RemoveList
<1>3. Match(list, q) BY <1>1, <1>2 DEF Match
<1> QED BY <1>2, <1>3

\* A sequence without repetitions has none after a removal.
LEMMA UniqueRemove ==
  ASSUME NEW seq \in Seq(Keys), Unique(seq), NEW p \in 1 .. Len(seq)
  PROVE  Unique(RemoveAt(seq, p)) /\ \A i \in 1 .. Len(seq) - 1 : RemoveAt(seq, p)[i] # seq[p]
<1> DEFINE q == RemoveAt(seq, p)
<1>1. /\ Len(q) = Len(seq) - 1
      /\ \A i \in 1 .. p - 1 : q[i] = seq[i]
      /\ \A i \in p .. Len(seq) - 1 : q[i] = seq[i + 1]
  BY RemoveList
<1> HIDE DEF q
<1>2. Len(seq) \in Nat BY LenProperties
<1> DEFINE At(i) == IF i < p THEN i ELSE i + 1
<1>3. \A i \in 1 .. Len(q) : At(i) \in 1 .. Len(seq) /\ At(i) # p /\ q[i] = seq[At(i)]
  <2> TAKE i \in 1 .. Len(q)
  <2>1. CASE i < p
    <3>1. i \in 1 .. p - 1 /\ i \in 1 .. Len(seq) BY <1>1, <1>2, <2>1
    <3> QED BY <1>1, <2>1, <3>1
  <2>2. CASE ~(i < p)
    <3>1. i \in p .. Len(seq) - 1 /\ i + 1 \in 1 .. Len(seq) /\ i + 1 # p BY <1>1, <1>2, <2>2
    <3> QED BY <1>1, <2>2, <3>1
  <2> QED BY <2>1, <2>2
<1>4. \A i, j \in 1 .. Len(q) : At(i) = At(j) => i = j BY <1>1, <1>2
<1> HIDE DEF At
<1>5. Unique(q) BY <1>3, <1>4 DEF Unique
<1>6. \A i \in 1 .. Len(q) : q[i] # seq[p] BY <1>3 DEF Unique
<1> QED BY <1>1, <1>5, <1>6 DEF q

\* Use of a key that has a place.
LEMMA UseAt ==
  ASSUME NEW seq \in Seq(Keys), Unique(seq), NEW p \in 1 .. Len(seq), NEW k, seq[p] = k
  PROVE  Use(seq, k) = <<k>> \o RemoveAt(seq, p)
<1>1. {i \in 1 .. Len(seq) : seq[i] = k} = {p} BY DEF Unique
<1>2. Min({p}) = p
  <2>1. Len(seq) \in Nat BY LenProperties
  <2> QED BY <2>1 DEF Min
<1>3. SelectInSeq(seq, LAMBDA v : v = k) = p BY <1>1, <1>2 DEF SelectInSeq
<1>4. RemoveFirst(seq, k) = RemoveAt(seq, p) BY <1>3 DEF RemoveFirst
<1> QED BY <1>4 DEF Use

\* What Use does: the key goes to the front, from its place if it has one.
LEMMA UseSteps ==
  ASSUME NEW seq \in Seq(Keys), Unique(seq), NEW k \in Keys
  PROVE  \/ (\A i \in 1 .. Len(seq) : seq[i] # k) /\ Use(seq, k) = <<k>> \o seq
         \/ \E p \in 1 .. Len(seq) : seq[p] = k /\ Use(seq, k) = <<k>> \o RemoveAt(seq, p)
<1>1. CASE \A i \in 1 .. Len(seq) : seq[i] # k BY <1>1 DEF Use, RemoveFirst
<1>2. ASSUME NEW p \in 1 .. Len(seq), seq[p] = k
      PROVE  Use(seq, k) = <<k>> \o RemoveAt(seq, p)
  BY <1>2, UseAt
<1> QED BY <1>1, <1>2

\* Use keeps a sequence of different keys.
LEMMA UseUnique ==
  ASSUME NEW seq \in Seq(Keys), Unique(seq), NEW k \in Keys
  PROVE  Use(seq, k) \in Seq(Keys) /\ Unique(Use(seq, k))
<1>1. PICK q \in Seq(Keys) : /\ Unique(q) /\ \A i \in 1 .. Len(q) : q[i] # k
                             /\ Use(seq, k) = <<k>> \o q
  <2>1. CASE (\A i \in 1 .. Len(seq) : seq[i] # k) /\ Use(seq, k) = <<k>> \o seq BY <2>1
  <2>2. ASSUME NEW p \in 1 .. Len(seq), seq[p] = k, Use(seq, k) = <<k>> \o RemoveAt(seq, p)
        PROVE  \E q \in Seq(Keys) : /\ Unique(q) /\ \A i \in 1 .. Len(q) : q[i] # k
                                    /\ Use(seq, k) = <<k>> \o q
    <3>1. RemoveAt(seq, p) \in Seq(Keys) /\ Len(RemoveAt(seq, p)) = Len(seq) - 1 BY RemoveList
    <3> QED BY <2>2, <3>1, UniqueRemove
  <2> QED BY <2>1, <2>2, UseSteps
<1> DEFINE c == <<k>> \o q
<1>2. /\ c \in Seq(Keys) /\ Len(c) = Len(q) + 1 /\ c[1] = k
      /\ \A i \in 2 .. Len(q) + 1 : c[i] = q[i - 1]
  BY ConsList
<1> HIDE DEF c
<1>3. Len(q) \in Nat BY LenProperties
<1>4. ASSUME NEW i \in 1 .. Len(c), NEW j \in 1 .. Len(c), c[i] = c[j] PROVE i = j
  <2>1. \A m \in 1 .. Len(c) : m # 1 => /\ m \in 2 .. Len(q) + 1 /\ m - 1 \in 1 .. Len(q)
                                        /\ c[m] = q[m - 1]
    BY <1>2, <1>3
  <2>2. CASE i = 1 \/ j = 1 BY <1>1, <1>2, <1>4, <2>1, <2>2
  <2>3. CASE i # 1 /\ j # 1
    <3>1. q[i - 1] = q[j - 1] BY <1>4, <2>1, <2>3
    <3>2. i - 1 = j - 1 BY <1>1, <2>1, <2>3, <3>1 DEF Unique
    <3> QED BY <1>2, <1>3, <3>2
  <2> QED BY <2>2, <2>3
<1> QED BY <1>1, <1>2, <1>4 DEF Unique, c

\* The history is a sequence of different keys that begins with those of the list.
OrderInv(s) == order[s] \in Seq(Keys) /\ Unique(order[s]) /\ (Defined => Match(entries[s], order[s]))

HistoryInv == LRUInv /\ order \in [Shards -> Seq(Keys)] /\ \A s \in Shards : OrderInv(s)

\* A use of a key of shard s, after which s has the list L.
LEMMA OneOrder ==
  ASSUME HistoryInv, NEW s \in Shards, NEW k \in Keys,
         order' = [order EXCEPT ![s] = Use(order[s], k)],
         ~Defined' \/ \E L : /\ entries' = [entries EXCEPT ![s] = L]
                             /\ Defined' => Defined
                             /\ Defined => Match(L, Use(order[s], k))
  PROVE  order' \in [Shards -> Seq(Keys)] /\ \A r \in Shards : OrderInv(r)'
<1>1. order[s] \in Seq(Keys) /\ Unique(order[s]) BY DEF HistoryInv, OrderInv
<1>2. Use(order[s], k) \in Seq(Keys) /\ Unique(Use(order[s], k)) BY <1>1, UseUnique
<1>3. order' \in [Shards -> Seq(Keys)] BY <1>2 DEF HistoryInv
<1>4. ASSUME NEW r \in Shards PROVE OrderInv(r)'
  <2>1. order'[r] = IF r = s THEN Use(order[s], k) ELSE order[r] BY DEF HistoryInv
  <2>2. order'[r] \in Seq(Keys) /\ Unique(order'[r])
    BY <1>2, <2>1 DEF HistoryInv, OrderInv
  <2>3. ASSUME Defined' PROVE Match(entries'[r], order'[r])
    <3>1. PICK L : /\ entries' = [entries EXCEPT ![s] = L] /\ Defined
                   /\ Match(L, Use(order[s], k))
      BY <2>3
    <3>2. entries'[r] = IF r = s THEN L ELSE entries[r]
      BY <3>1 DEF HistoryInv, LRUInv, TypeOK
    <3>3. CASE r = s BY <2>1, <3>1, <3>2, <3>3
    <3>4. CASE r # s BY <2>1, <3>1, <3>2, <3>4 DEF HistoryInv, OrderInv
    <3> QED BY <3>3, <3>4
  <2> QED BY <2>2, <2>3 DEF OrderInv
<1> QED BY <1>3, <1>4

LEMMA InitHistoryInv == HistoryInit => HistoryInv
<1> SUFFICES ASSUME HistoryInit PROVE HistoryInv OBVIOUS
<1>1. LRUInv BY InitLRUInv DEF HistoryInit
<1>2. <<>> \in Seq(Keys) /\ Len(<<>>) = 0 BY EmptySeq
<1>3. Unique(<<>>) /\ Match(<<>>, <<>>) BY <1>2 DEF Unique, Match
<1> QED BY <1>1, <1>2, <1>3 DEF HistoryInit, Init, HistoryInv, OrderInv

LEMMA NextHistoryInv == HistoryInv /\ [HistoryNext]_<<vars, order>> => HistoryInv'
<1> SUFFICES ASSUME HistoryInv, [HistoryNext]_<<vars, order>> PROVE HistoryInv' OBVIOUS
<1>1. CASE UNCHANGED <<vars, order>>
  BY <1>1 DEF HistoryInv, LRUInv, TypeOK, ListInv, OrderInv, Defined, vars
<1>2. CASE HistoryNext
  <2>1. Next BY <1>2 DEF HistoryNext, Next
  <2>2. LRUInv' BY <2>1, NextLRUInv DEF HistoryInv
  <2>3. LRUInv /\ Defined BY <1>2 DEF HistoryInv, HistoryNext
  <2> SUFFICES order' \in [Shards -> Seq(Keys)] /\ \A r \in Shards : OrderInv(r)'
    BY <2>2 DEF HistoryInv
  <2>4. \A s \in Shards : /\ entries[s] \in Seq(Entries) /\ Len(entries[s]) \in Nat
                          /\ DOMAIN entries[s] = 1 .. Len(entries[s])
                          /\ \A i \in 1 .. Len(entries[s]) : entries[s][i] \in Entries
                          /\ map[s] = KeysOf(entries[s])
                          /\ order[s] \in Seq(Keys) /\ Unique(order[s])
                          /\ Match(entries[s], order[s])
    BY <2>3, ShardShape DEF HistoryInv, OrderInv, LRUInv, ListInv
  <2>5. ASSUME NEW k \in Keys, Get(k),
               order' = IF k \in map[ShardOf(k)]
                        THEN [order EXCEPT ![ShardOf(k)] = Use(order[ShardOf(k)], k)] ELSE order
        PROVE  order' \in [Shards -> Seq(Keys)] /\ \A r \in Shards : OrderInv(r)'
    <3>1. PICK s \in Shards : s = ShardOf(k) BY ShardFacts
    <3>2. CASE k \notin map[s] /\ UNCHANGED <<entries, undefined>>
      BY <2>5, <3>1, <3>2 DEF HistoryInv, OrderInv, Defined
    <3>3. ASSUME k \in map[s], NEW i \in 1 .. Len(entries[s]), entries[s][i].key = k,
                 entries' = [entries EXCEPT ![s] = ToFront(entries[s], i)],
                 UNCHANGED undefined
          PROVE  order' \in [Shards -> Seq(Keys)] /\ \A r \in Shards : OrderInv(r)'
      <4>1. order' = [order EXCEPT ![s] = Use(order[s], k)] BY <2>5, <3>1, <3>3
      <4>2. order[s][i] = k /\ i \in 1 .. Len(order[s])
        BY <2>4, <3>3, LenProperties DEF Match
      <4>3. Use(order[s], k) = <<k>> \o RemoveAt(order[s], i)
        BY <2>4, <4>2, UseAt
      <4>4. Match(RemoveAt(entries[s], i), RemoveAt(order[s], i)) BY <2>4, MatchRemove
      <4>5. RemoveAt(entries[s], i) \in Seq(Entries) /\ RemoveAt(order[s], i) \in Seq(Keys)
        BY <2>4, <4>2, RemoveList
      <4>6. Match(ToFront(entries[s], i), Use(order[s], k))
        <5>1. PICK e \in Entries : e = entries[s][i] /\ e.key = k BY <2>4, <3>3
        <5>2. Match(<<e>> \o RemoveAt(entries[s], i), <<e.key>> \o RemoveAt(order[s], i))
          BY <4>4, <4>5, <5>1, MatchCons
        <5> QED BY <4>3, <5>1, <5>2 DEF ToFront
      <4> QED BY <3>3, <4>1, <4>6, OneOrder DEF Defined
    <3> QED BY <2>3, <2>5, <3>1, <3>2, <3>3, GetOutcome
  <2>6. ASSUME NEW k \in Keys, NEW h \in Handles[k], InsertNew(k, h),
               order' = [order EXCEPT ![ShardOf(k)] = Use(order[ShardOf(k)], k)]
        PROVE  order' \in [Shards -> Seq(Keys)] /\ \A r \in Shards : OrderInv(r)'
    <3>1. PICK s \in Shards : s = ShardOf(k) BY ShardFacts
    <3>2. CASE Undefined
      BY <2>6, <3>1, <3>2, OneOrder DEF Undefined, Defined
    <3>3. ASSUME NEW n \in 0 .. Len(entries[s]), k \notin map[s],
                 entries' = [entries EXCEPT ![s] = <<Entry(k, h)>> \o Kept(entries[s], n)],
                 ReadsPopped(n)
          PROVE  order' \in [Shards -> Seq(Keys)] /\ \A r \in Shards : OrderInv(r)'
      <4>1. Entry(k, h) \in Entries /\ Entry(k, h).key = k BY EntryFacts
      <4>2. Kept(entries[s], n) \in Seq(Entries) /\ Match(Kept(entries[s], n), order[s])
        BY <2>4, KeptList, MatchKept
      <4>3. \A i \in 1 .. Len(entries[s]) : order[s][i] # k
        BY <2>4, <3>3 DEF KeysOf, Match
      <4>4. PICK q \in Seq(Keys) : /\ Match(Kept(entries[s], n), q)
                                   /\ Use(order[s], k) = <<k>> \o q
        <5>1. CASE Use(order[s], k) = <<k>> \o order[s] BY <2>4, <4>2, <5>1
        <5>2. ASSUME NEW p \in 1 .. Len(order[s]), order[s][p] = k,
                     Use(order[s], k) = <<k>> \o RemoveAt(order[s], p)
              PROVE  \E q \in Seq(Keys) : /\ Match(Kept(entries[s], n), q)
                                          /\ Use(order[s], k) = <<k>> \o q
          <6>1. p \notin 1 .. Len(entries[s]) BY <4>3, <5>2
          <6>2. Len(Kept(entries[s], n)) = Len(entries[s]) - n BY <2>4, KeptList
          <6>3. Len(order[s]) \in Nat BY <2>4, LenProperties
          <6>4. p > Len(Kept(entries[s], n)) BY <2>4, <6>1, <6>2, <6>3
          <6>5. Match(Kept(entries[s], n), RemoveAt(order[s], p))
            BY <2>4, <4>2, <6>4, MatchBeyond
          <6>6. RemoveAt(order[s], p) \in Seq(Keys) BY <2>4, RemoveList
          <6> QED BY <5>2, <6>5, <6>6
        <5> QED BY <2>4, <5>1, <5>2, UseSteps
      <4>5. Match(<<Entry(k, h)>> \o Kept(entries[s], n), Use(order[s], k))
        <5>1. PICK e \in Entries : e = Entry(k, h) /\ e.key = k BY <4>1
        <5>2. Match(<<e>> \o Kept(entries[s], n), <<e.key>> \o q) BY <4>2, <4>4, <5>1, MatchCons
        <5> QED BY <4>4, <5>1, <5>2
      <4> QED BY <2>6, <3>1, <3>3, <4>5, OneOrder DEF ReadsPopped, Defined
    <3> QED BY <2>3, <2>6, <3>1, <3>2, <3>3, InsertNewOutcome
  <2>7. ASSUME NEW k \in Keys, NEW h \in Handles[k], InsertUpdate(k, h),
               order' = [order EXCEPT ![ShardOf(k)] = Use(order[ShardOf(k)], k)]
        PROVE  order' \in [Shards -> Seq(Keys)] /\ \A r \in Shards : OrderInv(r)'
    <3>1. PICK s \in Shards : s = ShardOf(k) BY ShardFacts
    <3>2. CASE Undefined
      BY <2>7, <3>1, <3>2, OneOrder DEF Undefined, Defined
    <3>3. ASSUME NEW p \in 1 .. Len(entries[s]), NEW n \in 0 .. Len(entries[s]),
                 entries[s][p].key = k, Updated(k, h, s, p, n)
          PROVE  order' \in [Shards -> Seq(Keys)] /\ \A r \in Shards : OrderInv(r)'
      <4>1. Entry(k, h) \in Entries /\ Entry(k, h).key = k BY EntryFacts
      <4>2. /\ Kept(entries[s], n) \in Seq(Entries) /\ Match(Kept(entries[s], n), order[s])
            /\ Len(Kept(entries[s], n)) = Len(entries[s]) - n
        <5>1. /\ Kept(entries[s], n) \in Seq(Entries)
              /\ Len(Kept(entries[s], n)) = Len(entries[s]) - n
          <6>1. PICK list \in Seq(Entries) : list = entries[s] BY <2>4
          <6>2. Kept(list, n) \in Seq(Entries) /\ Len(Kept(list, n)) = Len(list) - n
            BY <6>1, KeptList
          <6> QED BY <6>1, <6>2
        <5>2. Match(Kept(entries[s], n), order[s]) BY <2>4, MatchKept
        <5> QED BY <5>1, <5>2
      <4>3. p \in 1 .. Len(Kept(entries[s], n)) BY <2>4, <3>3, <4>2 DEF Updated
      <4>4. order[s][p] = k /\ p \in 1 .. Len(order[s])
        BY <2>4, <3>3, LenProperties DEF Match
      <4>5. Use(order[s], k) = <<k>> \o RemoveAt(order[s], p)
        BY <2>4, <4>4, UseAt
      <4>6. Match(RemoveAt(Kept(entries[s], n), p), RemoveAt(order[s], p))
        <5>1. PICK a \in Seq(Entries) : a = Kept(entries[s], n) BY <4>2
        <5>2. Match(a, order[s]) /\ p \in 1 .. Len(a) /\ order[s] \in Seq(Keys)
          BY <2>4, <4>2, <4>3, <5>1
        <5> QED BY <5>1, <5>2, MatchRemove
      <4>7. /\ RemoveAt(Kept(entries[s], n), p) \in Seq(Entries)
            /\ RemoveAt(order[s], p) \in Seq(Keys)
        <5>1. PICK a \in Seq(Entries) : a = Kept(entries[s], n) BY <4>2
        <5>2. p \in 1 .. Len(a) BY <4>3, <5>1
        <5>3. RemoveAt(a, p) \in Seq(Entries) BY <5>2, RemoveList
        <5>4. RemoveAt(order[s], p) \in Seq(Keys) BY <2>4, <4>4, RemoveList
        <5> QED BY <5>1, <5>3, <5>4
      <4>8. Match(<<Entry(k, h)>> \o RemoveAt(Kept(entries[s], n), p), Use(order[s], k))
        <5>1. PICK e \in Entries : e = Entry(k, h) /\ e.key = k BY <4>1
        <5>2. Match(<<e>> \o RemoveAt(Kept(entries[s], n), p), <<e.key>> \o RemoveAt(order[s], p))
          BY <4>6, <4>7, <5>1, MatchCons
        <5> QED BY <4>5, <5>1, <5>2
      <4> QED BY <2>7, <3>1, <3>3, <4>8, OneOrder DEF Updated, ReadsPopped, Defined
    <3> QED BY <2>3, <2>7, <3>1, <3>2, <3>3, InsertUpdateOutcome
  <2> QED BY <1>2, <2>5, <2>6, <2>7 DEF HistoryNext
<1> QED BY <1>1, <1>2

(***************************************************************************)
(* The entries of a shard are the keys that were used last, in that order, *)
(* for every sequence of calls, whatever the charges: Insert evicts what   *)
(* was used least recently.                                                *)
(***************************************************************************)
THEOREM RecencyKept == HistorySpec => []LeastRecentlyUsed
<1>1. HistoryInv => LeastRecentlyUsed
  <2> SUFFICES ASSUME HistoryInv, Defined, NEW s \in Shards
               PROVE  [i \in DOMAIN entries[s] |-> entries[s][i].key]
                        = SubSeq(order[s], 1, Len(entries[s]))
    BY DEF LeastRecentlyUsed
  <2>1. PICK n \in Nat : n = Len(entries[s]) /\ DOMAIN entries[s] = 1 .. n
    BY ShardShape DEF HistoryInv, LRUInv
  <2>2. /\ order[s] \in Seq(Keys) /\ n <= Len(order[s])
        /\ \A i \in 1 .. n : order[s][i] = entries[s][i].key
    BY <2>1 DEF HistoryInv, OrderInv, Match
  <2>3. \A i \in 1 .. n : order[s][i] \in Keys BY <2>2, LenProperties
  <2> DEFINE a == SubSeq(order[s], 1, n)
             b == [i \in 1 .. n |-> entries[s][i].key]
  <2>4. a \in Seq(Keys) /\ Len(a) = n /\ \A i \in 1 .. n : a[i] = order[s][i]
    <3>1. /\ a \in Seq(Keys) /\ Len(a) = IF 1 <= n THEN n - 1 + 1 ELSE 0
          /\ \A i \in 1 .. n - 1 + 1 : a[i] = order[s][1 + i - 1]
      BY <2>3, SubSeqProperties
    <3> HIDE DEF a
    <3> QED BY <3>1
  <2>5. a = [i \in 1 .. n |-> a[i]]
    <3> HIDE DEF a
    <3> QED BY <2>4, LenProperties
  <2>6. a = b
    <3>1. \A i \in 1 .. n : a[i] = entries[s][i].key
      <4> HIDE DEF a
      <4> QED BY <2>2, <2>4
    <3> HIDE DEF a
    <3> QED BY <2>5, <3>1
  <2> QED BY <2>1, <2>6
<1> QED BY <1>1, InitHistoryInv, NextHistoryInv, PTL DEF HistorySpec
=============================================================================
