----------------------- MODULE AtomicSharedPtrProofs -----------------------
(***************************************************************************)
(* Proofs about AtomicSharedPtr, for any number of threads below the       *)
(* version range, any set of addresses and any set of values.              *)
(*                                                                         *)
(* NoUseAfterFree is not inductive.  IInv adds what makes it so: who owns  *)
(* which cell.  A cell belongs to the word, or to one running store: the   *)
(* fresh cell before it is published, the replaced cell after.  A marked   *)
(* word has version 0, so nobody copies the cell that is being replaced.   *)
(*                                                                         *)
(* The last part proves that the implementation refines AtomicCell.        *)
(***************************************************************************)
EXTENDS AtomicSharedPtr, FiniteSetTheorems, TLAPS

\* The cell only t may delete: Store's fresh cell, then the one it replaced.
Owned(t) == IF pc[t] \in {"mark", "publish"} THEN new[t]
            ELSE IF pc[t] = "reclaim" THEN cur[t].raw
            ELSE Null

\* What a thread holds in its expected word.
ExpectedInv ==
  \A t \in Threads :
    /\ pc[t] \in {"acquire", "copy", "release", "mark"} => ~cur[t].mark
    /\ pc[t] = "acquire" => cur[t].raw # Null
    /\ pc[t] = "mark" => cur[t].ver = 0
    /\ pc[t] = "copy" => cur[t].raw = ptr.raw /\ cur[t].raw # Null
    /\ pc[t] = "publish" => cur[t].raw = ptr.raw

\* The mark is a lock: held by the one thread about to publish, and only
\* taken when no load is registered.
MarkInv ==
  /\ \A t \in Threads : pc[t] = "publish" => ptr.mark
  /\ \A t, u \in Threads : pc[t] = "publish" /\ pc[u] = "publish" => t = u
  /\ ptr.mark => ptr.ver = 0

\* Every cell a word or a store refers to is allocated, and has one owner.
OwnerInv ==
  /\ ptr.raw # Null => heap[ptr.raw] # Null
  /\ \A t \in Threads :
       Owned(t) # Null => heap[Owned(t)] # Null /\ Owned(t) # ptr.raw
  /\ \A t, u \in Threads : Owned(t) = Owned(u) /\ Owned(t) # Null => t = u

IInv == TypeOK /\ VersionCountsReaders /\ ExpectedInv /\ MarkInv /\ OwnerInv
-----------------------------------------------------------------------------
\* A version below the range is not changed by the 14-bit mask.
LEMMA SmallMod == \A x, m \in Nat : x < m => x % m = x
OBVIOUS

\* Adding the modulus before masking changes nothing.
LEMMA WrapMod == \A x, m \in Nat : x < m => (x + m) % m = x
OBVIOUS

\* The registered loads are finitely many, and fewer than the version range.
LEMMA ReadersBound ==
  /\ IsFiniteSet(Readers)
  /\ Cardinality(Readers) \in Nat
  /\ Cardinality(Readers) < VersionMod
<1>1. Readers \subseteq Threads
  BY DEF Readers
<1>2. IsFiniteSet(Readers) /\ Cardinality(Readers) <= Cardinality(Threads)
  BY <1>1, FS_Subset, ConcurrencyAssumption
<1>3. Cardinality(Readers) \in Nat /\ Cardinality(Threads) \in Nat
  BY <1>2, FS_CardinalityType, ConcurrencyAssumption
<1> QED
  BY <1>2, <1>3, ConcurrencyAssumption

\* A step that moves no thread into or out of the copying window leaves the
\* registered loads alone.
LEMMA ReadersSame ==
  ASSUME \A t \in Threads : pc'[t] \in Loading <=> pc[t] \in Loading
  PROVE  Readers' = Readers
BY DEF Readers
-----------------------------------------------------------------------------
LEMMA InitIInv == Init => IInv
<1> SUFFICES ASSUME Init PROVE IInv
  OBVIOUS
<1>1. PICK v \in Values \cup {Null}, a \in Addrs :
         /\ heap = [b \in Addrs |-> IF b = a THEN v ELSE Null]
         /\ ptr = PackPtr(IF v = Null THEN Null ELSE a, 0, FALSE)
  BY DEF Init
<1>2. VersionMod \in Nat \ {0}
  BY ReadersBound, ConcurrencyAssumption
<1>3. 0 % VersionMod = 0
  BY <1>2, SmallMod
<1>4. \A t \in Threads : pc[t] = "idle"
  BY DEF Init
<1>5. TypeOK
  <2>1. ptr \in Word /\ NullWord \in Word /\ ~NullWord.mark
    BY <1>1, <1>2, <1>3 DEF Word, PackPtr, NullWord, Raw
  <2> QED
    BY <1>1, <2>1 DEF Init, TypeOK, Raw, Loading
<1>6. VersionCountsReaders
  <2>1. Readers = {}
    BY <1>4 DEF Readers, Loading
  <2> QED
    BY <2>1, <1>1, <1>3, FS_EmptySet DEF VersionCountsReaders, PackPtr
<1>7. ExpectedInv
  BY <1>4 DEF ExpectedInv
<1>8. MarkInv
  BY <1>4, <1>1, <1>3 DEF MarkInv, PackPtr
<1>9. OwnerInv
  <2>1. \A t \in Threads : Owned(t) = Null
    BY <1>4 DEF Owned
  <2>2. ptr.raw # Null => heap[ptr.raw] # Null
    BY <1>1 DEF PackPtr
  <2> QED
    BY <2>1, <2>2 DEF OwnerInv
<1> QED
  BY <1>5, <1>6, <1>7, <1>8, <1>9 DEF IInv
-----------------------------------------------------------------------------
LEMMA NextTypeOK == IInv /\ [Next]_vars => TypeOK'
<1> SUFFICES ASSUME IInv, [Next]_vars PROVE TypeOK'
  OBVIOUS
<1> USE DEF IInv
<1>1. VersionMod \in Nat \ {0}
  BY ReadersBound, ConcurrencyAssumption
<1>2. /\ \A x \in Nat : x % VersionMod \in 0 .. VersionMod - 1
      /\ NullWord \in Word
      /\ \A r \in Raw, b \in BOOLEAN : PackPtr(r, 0, b) \in Word
      /\ \A w \in Word : /\ Mark(w) \in Word /\ UnMark(w) \in Word
                        /\ IncrVersion(w) \in Word /\ DecrVersion(w) \in Word
      /\ ~NullWord.mark /\ \A r \in Raw : ~PackPtr(r, 0, FALSE).mark
      /\ \A w \in Word : ~UnMark(w).mark
  <2>1. \A x \in Nat : x % VersionMod \in 0 .. VersionMod - 1
    BY <1>1
  <2>2. \A w \in Word : w.ver + 1 \in Nat /\ w.ver + VersionMod - 1 \in Nat
    BY <1>1 DEF Word
  <2> QED
    BY <2>1, <2>2 DEF NullWord, PackPtr, Word, Raw, Mark, UnMark, IncrVersion, DecrVersion
<1>3. ASSUME UNCHANGED vars PROVE TypeOK'
  BY <1>3 DEF vars, TypeOK
<1>4. ASSUME NEW t \in Threads, LoadBegin(t) PROVE TypeOK'
  BY <1>4 DEF LoadBegin, Goto, TypeOK, Loading
<1>5. ASSUME NEW t \in Threads, NEW v \in Values \cup {Null}, StoreBegin(t, v) PROVE TypeOK'
  <2>1. PackPtr(ptr.raw, 0, FALSE) \in Word
    BY <1>2 DEF TypeOK, Word
  <2>2. new' \in [Threads -> Raw] /\ heap' \in [Addrs -> Values \cup {Null}]
    BY <1>5 DEF StoreBegin, TypeOK, Raw
  <2>3. pc' \in [Threads -> {"idle", "read", "acquire", "mark", "publish", "reclaim"} \cup Loading]
    BY <1>5 DEF StoreBegin, Goto, TypeOK
  <2>4. cur' \in [Threads -> Word] /\ \A u \in Threads : ~cur'[u].mark
    <3>1. PICK w \in Word : w = PackPtr(ptr.raw, 0, FALSE) /\ ~w.mark
      BY <1>2, <2>1 DEF TypeOK, Word
    <3>2. cur' = [cur EXCEPT ![t] = w]
      BY <1>5, <3>1 DEF StoreBegin
    <3> QED
      BY <3>1, <3>2 DEF TypeOK
  <2> QED
    BY <1>5, <2>2, <2>3, <2>4 DEF StoreBegin, TypeOK
<1>6. ASSUME NEW t \in Threads, LoadRead(t) PROVE TypeOK'
  BY <1>6, <1>2 DEF LoadRead, LoadExamine, Return, Goto, TypeOK, Loading, Raw
<1>7. ASSUME NEW t \in Threads, LoadAcquireFails(t) PROVE TypeOK'
  BY <1>7, <1>2 DEF LoadAcquireFails, LoadExamine, Return, Goto, TypeOK, Loading, Raw
<1>8. ASSUME NEW t \in Threads, LoadAcquire(t) PROVE TypeOK'
  BY <1>8, <1>2 DEF LoadAcquire, Goto, TypeOK, Loading
<1>9. ASSUME NEW t \in Threads, LoadCopy(t) PROVE TypeOK'
  <2>1. cur[t].raw \in Addrs
    BY <1>9 DEF LoadCopy, ExpectedInv, TypeOK, Word, Raw
  <2> QED
    BY <1>9, <2>1 DEF LoadCopy, Goto, TypeOK, Loading
<1>10. ASSUME NEW t \in Threads, LoadReleaseFails(t) PROVE TypeOK'
  BY <1>10, <1>2 DEF LoadReleaseFails, TypeOK
<1>11. ASSUME NEW t \in Threads, LoadRelease(t) PROVE TypeOK'
  BY <1>11, <1>2 DEF LoadRelease, Return, Goto, TypeOK, Loading, Raw
<1>12. ASSUME NEW t \in Threads, StoreMarkFails(t) PROVE TypeOK'
  BY <1>12, <1>2 DEF StoreMarkFails, TypeOK, Word
<1>13. ASSUME NEW t \in Threads, StoreMark(t) PROVE TypeOK'
  BY <1>13, <1>2 DEF StoreMark, Goto, TypeOK, Loading
<1>14. ASSUME NEW t \in Threads, StorePublish(t) PROVE TypeOK'
  BY <1>14, <1>2 DEF StorePublish, Goto, TypeOK, Loading
<1>15. ASSUME NEW t \in Threads, StoreReclaim(t) PROVE TypeOK'
  BY <1>15, <1>2 DEF StoreReclaim, Return, Goto, TypeOK, Loading, Deref, Raw, Word
<1> QED
  BY <1>3, <1>4, <1>5, <1>6, <1>7, <1>8, <1>9, <1>10, <1>11, <1>12, <1>13, <1>14, <1>15
     DEF Next, Step
-----------------------------------------------------------------------------
LEMMA NextIInv == IInv /\ [Next]_vars => IInv'
<1> SUFFICES ASSUME IInv, [Next]_vars PROVE IInv'
  OBVIOUS
<1> USE DEF IInv
<1>1. TypeOK'
  BY NextTypeOK
<1>2. /\ VersionMod \in Nat \ {0}
      /\ 0 % VersionMod = 0
      /\ \A r \in Raw : /\ PackPtr(r, 0, FALSE).raw = r
                        /\ PackPtr(r, 0, FALSE).ver = 0
                        /\ ~PackPtr(r, 0, FALSE).mark
  <2>1. VersionMod \in Nat \ {0}
    BY ReadersBound, ConcurrencyAssumption
  <2>2. 0 % VersionMod = 0
    BY <2>1, SmallMod
  <2> QED
    BY <2>1, <2>2 DEF PackPtr
<1> DEFINE Rest == VersionCountsReaders /\ ExpectedInv /\ MarkInv /\ OwnerInv
<1>3. ASSUME UNCHANGED vars PROVE Rest'
  <2>1. Readers' = Readers
    BY <1>3, ReadersSame DEF vars
  <2>2. \A u \in Threads : Owned(u)' = Owned(u)
    BY <1>3 DEF vars, Owned
  <2> QED
    BY <1>3, <2>1, <2>2 DEF vars, VersionCountsReaders, ExpectedInv, MarkInv, OwnerInv
<1>4. ASSUME NEW t \in Threads, LoadBegin(t) PROVE Rest'
  <2>1. VersionCountsReaders'
    BY <1>4, ReadersSame DEF LoadBegin, Goto, TypeOK, Loading, VersionCountsReaders
  <2>2. ExpectedInv'
    BY <1>4, <1>2 DEF LoadBegin, Goto, TypeOK, Word, ExpectedInv
  <2>3. MarkInv'
    BY <1>4 DEF LoadBegin, Goto, TypeOK, MarkInv
  <2>4. OwnerInv'
    <3>1. \A u \in Threads : Owned(u)' = Owned(u)
      BY <1>4 DEF LoadBegin, Goto, TypeOK, Owned
    <3> QED
      BY <1>4, <3>1 DEF LoadBegin, Goto, OwnerInv
  <2> QED
    BY <2>1, <2>2, <2>3, <2>4
<1>5. ASSUME NEW t \in Threads, LoadRead(t) PROVE Rest'
  <2>1. VersionCountsReaders'
    BY <1>5, ReadersSame DEF LoadRead, LoadExamine, UnMark, Return, Goto, TypeOK, Loading, VersionCountsReaders
  <2>2. ExpectedInv'
    BY <1>5, <1>2 DEF LoadRead, LoadExamine, UnMark, Return, Goto, TypeOK, Word, ExpectedInv
  <2>3. MarkInv'
    BY <1>5 DEF LoadRead, LoadExamine, UnMark, Return, Goto, TypeOK, MarkInv
  <2>4. OwnerInv'
    <3>1. \A u \in Threads : Owned(u)' = Owned(u)
      BY <1>5 DEF LoadRead, LoadExamine, UnMark, Return, Goto, TypeOK, Owned
    <3> QED
      BY <1>5, <3>1 DEF LoadRead, LoadExamine, UnMark, Return, Goto, OwnerInv
  <2> QED
    BY <2>1, <2>2, <2>3, <2>4
<1>6. ASSUME NEW t \in Threads, LoadAcquireFails(t) PROVE Rest'
  <2>1. VersionCountsReaders'
    BY <1>6, ReadersSame DEF LoadAcquireFails, LoadExamine, UnMark, Return, Goto, TypeOK, Loading, VersionCountsReaders
  <2>2. ExpectedInv'
    BY <1>6, <1>2 DEF LoadAcquireFails, LoadExamine, UnMark, Return, Goto, TypeOK, Word, ExpectedInv
  <2>3. MarkInv'
    BY <1>6 DEF LoadAcquireFails, LoadExamine, UnMark, Return, Goto, TypeOK, MarkInv
  <2>4. OwnerInv'
    <3>1. \A u \in Threads : Owned(u)' = Owned(u)
      BY <1>6 DEF LoadAcquireFails, LoadExamine, UnMark, Return, Goto, TypeOK, Owned
    <3> QED
      BY <1>6, <3>1 DEF LoadAcquireFails, LoadExamine, UnMark, Return, Goto, OwnerInv
  <2> QED
    BY <2>1, <2>2, <2>3, <2>4
<1>7. ASSUME NEW t \in Threads, LoadCopy(t) PROVE Rest'
  <2>1. VersionCountsReaders'
    BY <1>7, ReadersSame DEF LoadCopy, Goto, TypeOK, Loading, VersionCountsReaders
  <2>2. ExpectedInv'
    BY <1>7, <1>2 DEF LoadCopy, Goto, TypeOK, Word, ExpectedInv
  <2>3. MarkInv'
    BY <1>7 DEF LoadCopy, Goto, TypeOK, MarkInv
  <2>4. OwnerInv'
    <3>1. \A u \in Threads : Owned(u)' = Owned(u)
      BY <1>7 DEF LoadCopy, Goto, TypeOK, Owned
    <3> QED
      BY <1>7, <3>1 DEF LoadCopy, Goto, OwnerInv
  <2> QED
    BY <2>1, <2>2, <2>3, <2>4
<1>8. ASSUME NEW t \in Threads, LoadReleaseFails(t) PROVE Rest'
  <2>1. VersionCountsReaders'
    BY <1>8, ReadersSame DEF LoadReleaseFails, UnMark, TypeOK, Loading, VersionCountsReaders
  <2>2. ExpectedInv'
    BY <1>8, <1>2 DEF LoadReleaseFails, UnMark, TypeOK, Word, ExpectedInv
  <2>3. MarkInv'
    BY <1>8 DEF LoadReleaseFails, UnMark, TypeOK, MarkInv
  <2>4. OwnerInv'
    <3>1. \A u \in Threads : Owned(u)' = Owned(u)
      BY <1>8 DEF LoadReleaseFails, UnMark, TypeOK, Owned
    <3> QED
      BY <1>8, <3>1 DEF LoadReleaseFails, UnMark, OwnerInv
  <2> QED
    BY <2>1, <2>2, <2>3, <2>4
<1>9. ASSUME NEW t \in Threads, StoreMarkFails(t) PROVE Rest'
  <2>1. VersionCountsReaders'
    BY <1>9, ReadersSame DEF StoreMarkFails, TypeOK, Loading, VersionCountsReaders
  <2>2. ExpectedInv'
    BY <1>9, <1>2 DEF StoreMarkFails, TypeOK, Word, ExpectedInv
  <2>3. MarkInv'
    BY <1>9 DEF StoreMarkFails, TypeOK, MarkInv
  <2>4. OwnerInv'
    <3>1. \A u \in Threads : Owned(u)' = Owned(u)
      BY <1>9 DEF StoreMarkFails, TypeOK, Owned
    <3> QED
      BY <1>9, <3>1 DEF StoreMarkFails, OwnerInv
  <2> QED
    BY <2>1, <2>2, <2>3, <2>4
<1>10. ASSUME NEW t \in Threads, LoadAcquire(t) PROVE Rest'
  <2>1. /\ t \notin Readers /\ Readers' = Readers \cup {t}
        /\ Cardinality(Readers') = Cardinality(Readers) + 1
    <3>1. t \notin Readers /\ Readers' = Readers \cup {t}
      BY <1>10 DEF LoadAcquire, Goto, TypeOK, Readers, Loading
    <3> QED
      BY <3>1, FS_AddElement, ReadersBound
  <2>2. ptr.ver + 1 < VersionMod
    <3>1. Readers' \subseteq Threads
      BY <2>1 DEF Readers
    <3>2. Cardinality(Readers') <= Cardinality(Threads)
      BY <3>1, FS_Subset, ConcurrencyAssumption
    <3>3. Cardinality(Threads) \in Nat
      BY FS_CardinalityType, ConcurrencyAssumption
    <3> QED
      BY <3>2, <3>3, <2>1, ReadersBound, ConcurrencyAssumption DEF VersionCountsReaders
  <2>3. ptr.ver \in Nat /\ (ptr.ver + 1) % VersionMod = ptr.ver + 1
    BY <2>2, <1>2, SmallMod DEF TypeOK, Word
  <2>4. ptr' = [ptr EXCEPT !.ver = ptr.ver + 1]
    BY <1>10, <2>3 DEF LoadAcquire, IncrVersion
  <2>5. VersionCountsReaders'
    BY <2>1, <2>4 DEF VersionCountsReaders, TypeOK, Word
  <2>6. ExpectedInv'
    BY <1>10, <2>4 DEF LoadAcquire, Goto, TypeOK, Word, ExpectedInv
  <2>7. MarkInv'
    BY <1>10, <2>4 DEF LoadAcquire, Goto, TypeOK, Word, MarkInv, ExpectedInv
  <2>8. OwnerInv'
    <3>1. \A u \in Threads : Owned(u)' = Owned(u)
      BY <1>10 DEF LoadAcquire, Goto, TypeOK, Owned
    <3> QED
      BY <1>10, <3>1, <2>4 DEF LoadAcquire, TypeOK, Word, OwnerInv
  <2> QED
    BY <2>5, <2>6, <2>7, <2>8
<1>11. ASSUME NEW t \in Threads, LoadRelease(t) PROVE Rest'
  <2>1. /\ t \in Readers /\ Readers' = Readers \ {t}
        /\ Cardinality(Readers') = Cardinality(Readers) - 1
    <3>1. t \in Readers /\ Readers' = Readers \ {t}
      BY <1>11 DEF LoadRelease, Return, Goto, TypeOK, Readers, Loading
    <3> QED
      BY <3>1, FS_RemoveElement, ReadersBound
  <2>2. Cardinality(Readers') \in Nat
    BY <2>1, FS_RemoveElement, FS_CardinalityType, ReadersBound
  <2>3. ptr.ver - 1 \in Nat /\ ptr.ver - 1 < VersionMod
    BY <2>1, <2>2, ReadersBound, ConcurrencyAssumption DEF VersionCountsReaders
  <2>4. (ptr.ver + VersionMod - 1) % VersionMod = ptr.ver - 1
    <3>1. ((ptr.ver - 1) + VersionMod) % VersionMod = ptr.ver - 1
      BY <2>3, WrapMod, ConcurrencyAssumption
    <3>2. ptr.ver + VersionMod - 1 = (ptr.ver - 1) + VersionMod
      BY <1>2 DEF TypeOK, Word
    <3> QED
      BY <3>1, <3>2
  <2>5. ptr' = [ptr EXCEPT !.ver = ptr.ver - 1]
    BY <1>11, <2>4 DEF LoadRelease, DecrVersion
  <2>6. VersionCountsReaders'
    BY <2>1, <2>5 DEF VersionCountsReaders, TypeOK, Word
  <2>7. ExpectedInv'
    BY <1>11, <2>5, <1>2 DEF LoadRelease, Return, Goto, TypeOK, Word, ExpectedInv
  <2>8. MarkInv'
    BY <1>11, <2>5 DEF LoadRelease, Return, Goto, TypeOK, Word, MarkInv, ExpectedInv
  <2>9. OwnerInv'
    <3>1. \A u \in Threads : Owned(u)' = Owned(u)
      BY <1>11 DEF LoadRelease, Return, Goto, TypeOK, Owned
    <3> QED
      BY <1>11, <3>1, <2>5 DEF LoadRelease, TypeOK, Word, OwnerInv
  <2> QED
    BY <2>6, <2>7, <2>8, <2>9
<1>12. ASSUME NEW t \in Threads, NEW v \in Values \cup {Null}, StoreBegin(t, v) PROVE Rest'
  <2>1. VersionCountsReaders'
    BY <1>12, ReadersSame DEF StoreBegin, Goto, TypeOK, Loading, VersionCountsReaders
  <2>2. ExpectedInv'
    BY <1>12, <1>2 DEF StoreBegin, Goto, TypeOK, Word, ExpectedInv
  <2>3. MarkInv'
    BY <1>12 DEF StoreBegin, Goto, TypeOK, MarkInv
  <2>4. OwnerInv'
    <3>1. \A u \in Threads \ {t} : Owned(u)' = Owned(u)
      BY <1>12 DEF StoreBegin, Goto, TypeOK, Owned
    <3>2. Owned(t)' = new'[t]
      BY <1>12 DEF StoreBegin, Goto, TypeOK, Owned
    <3>3. CASE v = Null
      BY <1>12, <3>1, <3>2, <3>3 DEF StoreBegin, TypeOK, OwnerInv
    <3>4. CASE v # Null
      <4>1. PICK a \in Addrs : /\ heap[a] = Null
                               /\ new' = [new EXCEPT ![t] = a]
                               /\ heap' = [heap EXCEPT ![a] = v]
        BY <1>12, <3>4 DEF StoreBegin
      <4>2. Owned(t)' = a
        BY <3>2, <4>1 DEF TypeOK
      <4>3. \A b \in Addrs : heap[b] # Null => b # a /\ heap'[b] = heap[b]
        BY <4>1 DEF TypeOK
      <4>4. ptr' = ptr /\ ptr.raw \in Raw /\ \A u \in Threads : Owned(u) \in Raw
        BY <1>12 DEF StoreBegin, TypeOK, Word, Owned, Raw
      <4>5. heap'[a] # Null
        BY <4>1, <3>4 DEF TypeOK
      <4> QED
        BY <3>1, <4>2, <4>3, <4>4, <4>5 DEF OwnerInv, Raw
    <3> QED
      BY <3>3, <3>4
  <2> QED
    BY <2>1, <2>2, <2>3, <2>4
<1>13. ASSUME NEW t \in Threads, StoreMark(t) PROVE Rest'
  <2>1. ptr' = [ptr EXCEPT !.mark = TRUE]
    BY <1>13 DEF StoreMark, Mark
  <2>2. VersionCountsReaders'
    BY <1>13, <2>1, ReadersSame DEF StoreMark, Goto, TypeOK, Word, Loading, VersionCountsReaders
  <2>3. ExpectedInv'
    BY <1>13, <2>1 DEF StoreMark, Goto, TypeOK, Word, ExpectedInv
  <2>4. MarkInv'
    BY <1>13, <2>1 DEF StoreMark, Goto, TypeOK, Word, MarkInv, ExpectedInv
  <2>5. OwnerInv'
    <3>1. \A u \in Threads : Owned(u)' = Owned(u)
      BY <1>13 DEF StoreMark, Goto, TypeOK, Owned
    <3> QED
      BY <1>13, <3>1, <2>1 DEF StoreMark, TypeOK, Word, OwnerInv
  <2> QED
    BY <2>2, <2>3, <2>4, <2>5
<1>14. ASSUME NEW t \in Threads, StorePublish(t) PROVE Rest'
  <2>1. ptr'.raw = new[t] /\ ptr'.ver = 0 /\ ~ptr'.mark
    BY <1>14, <1>2 DEF StorePublish, TypeOK
  <2>2. ptr.mark /\ ptr.ver = 0 /\ cur[t].raw = ptr.raw
    BY <1>14 DEF StorePublish, MarkInv, ExpectedInv
  <2>3. Readers = {}
    BY <2>2, ReadersBound, FS_EmptySet DEF VersionCountsReaders
  <2>4. VersionCountsReaders'
    BY <1>14, <2>1, <2>2, ReadersSame DEF StorePublish, Goto, TypeOK, Loading, VersionCountsReaders
  <2>5. ExpectedInv'
    BY <1>14, <2>1, <2>3 DEF StorePublish, Goto, TypeOK, ExpectedInv, MarkInv, Readers, Loading
  <2>6. MarkInv'
    BY <1>14, <2>1 DEF StorePublish, Goto, TypeOK, MarkInv
  <2>7. OwnerInv'
    <3>1. \A u \in Threads \ {t} : Owned(u)' = Owned(u)
      BY <1>14 DEF StorePublish, Goto, TypeOK, Owned
    <3>2. Owned(t) = new[t] /\ Owned(t)' = ptr.raw
      BY <1>14, <2>2 DEF StorePublish, Goto, TypeOK, Owned
    <3>3. ptr'.raw = new[t] /\ heap' = heap
      BY <1>14, <2>1 DEF StorePublish
    <3> QED
      BY <3>1, <3>2, <3>3 DEF OwnerInv
  <2> QED
    BY <2>4, <2>5, <2>6, <2>7
<1>15. ASSUME NEW t \in Threads, StoreReclaim(t) PROVE Rest'
  <2>1. VersionCountsReaders'
    BY <1>15, ReadersSame DEF StoreReclaim, Return, Goto, TypeOK, Loading, VersionCountsReaders
  <2>2. ExpectedInv'
    BY <1>15, <1>2 DEF StoreReclaim, Return, Goto, TypeOK, Word, ExpectedInv
  <2>3. MarkInv'
    BY <1>15 DEF StoreReclaim, Return, Goto, TypeOK, MarkInv
  <2>4. OwnerInv'
    <3>1. \A u \in Threads \ {t} : Owned(u)' = Owned(u)
      BY <1>15 DEF StoreReclaim, Return, Goto, TypeOK, Owned
    <3>2. Owned(t) = cur[t].raw /\ Owned(t)' = Null
      BY <1>15 DEF StoreReclaim, Return, Goto, TypeOK, Owned
    <3>3. ptr' = ptr /\ ptr.raw \in Raw /\ \A u \in Threads : Owned(u) \in Raw
      BY <1>15 DEF StoreReclaim, TypeOK, Word, Owned, Raw
    <3>4. \A b \in Addrs : b # Owned(t) => heap'[b] = heap[b]
      BY <1>15, <3>2 DEF StoreReclaim
    <3> QED
      BY <3>1, <3>2, <3>3, <3>4 DEF OwnerInv, Raw
  <2> QED
    BY <2>1, <2>2, <2>3, <2>4
<1> HIDE DEF Rest
<1>16. Rest'
  BY <1>3, <1>4, <1>5, <1>6, <1>7, <1>8, <1>9, <1>10, <1>11, <1>12, <1>13, <1>14, <1>15 DEF Next, Step
<1> QED
  BY <1>1, <1>16 DEF Rest
-----------------------------------------------------------------------------
\* The inductive invariant holds in every state of every behaviour.
THEOREM Invariance == Spec => []IInv
BY InitIInv, NextIInv, PTL DEF Spec

\* Type correctness of the word, the heap and the locals of Load and Store.
THEOREM TypeCorrect == Spec => []TypeOK
<1>1. IInv => TypeOK
  BY DEF IInv
<1> QED
  BY <1>1, Invariance, PTL

\* Load never copies, and Store never deletes, a cell that is not allocated.
THEOREM MemorySafe == Spec => []NoUseAfterFree
<1>1. IInv => NoUseAfterFree
  <2> SUFFICES ASSUME IInv, NEW t \in Threads
               PROVE /\ pc[t] = "copy" => cur[t].raw = ptr.raw /\ Deref(cur[t].raw) # Null
                     /\ pc[t] = "reclaim" /\ cur[t].raw # Null => heap[cur[t].raw] # Null
    BY DEF NoUseAfterFree
  <2>1. pc[t] = "copy" => cur[t].raw = ptr.raw /\ Deref(cur[t].raw) # Null
    BY DEF IInv, ExpectedInv, OwnerInv, Deref
  <2>2. pc[t] = "reclaim" /\ cur[t].raw # Null => heap[cur[t].raw] # Null
    BY DEF IInv, OwnerInv, Owned
  <2> QED
    BY <2>1, <2>2
<1> QED
  BY <1>1, Invariance, PTL

\* The version field is the number of loads between their two CASes, for any
\* number of threads the comment on Load allows: it never wraps.
THEOREM VersionExact == Spec => []VersionCountsReaders
<1>1. IInv => VersionCountsReaders
  BY DEF IInv
<1> QED
  BY <1>1, Invariance, PTL
-----------------------------------------------------------------------------
\* Nothing is allocated that neither the word nor a running store refers to.
LeakInv ==
  \A a \in Addrs : heap[a] # Null => a = ptr.raw \/ \E t \in Threads : Owned(t) = a

LEMMA InitLeakInv == Init => LeakInv
BY DEF Init, LeakInv, PackPtr

(***************************************************************************)
(* A step that keeps the heap and the published address, and in which no   *)
(* store drops the cell it owns, leaks nothing.                            *)
(***************************************************************************)
LEMMA OwnersKept ==
  ASSUME LeakInv, heap' = heap, ptr'.raw = ptr.raw,
         \A t \in Threads : Owned(t)' = Owned(t)
  PROVE  LeakInv'
BY DEF LeakInv

LEMMA NextLeakInv == IInv /\ LeakInv /\ [Next]_vars => LeakInv'
<1> SUFFICES ASSUME IInv, LeakInv, [Next]_vars PROVE LeakInv'
  OBVIOUS
<1> USE DEF IInv
<1>1. CASE UNCHANGED vars
  BY <1>1, OwnersKept DEF vars, Owned
<1>2. ASSUME NEW t \in Threads, LoadBegin(t) PROVE LeakInv'
  BY <1>2, OwnersKept DEF LoadBegin, Goto, TypeOK, Owned
<1>3. ASSUME NEW t \in Threads, LoadRead(t) \/ LoadAcquireFails(t) PROVE LeakInv'
  BY <1>3, OwnersKept DEF LoadRead, LoadAcquireFails, LoadExamine, Return, Goto, TypeOK, Owned
<1>4. ASSUME NEW t \in Threads, LoadAcquire(t) PROVE LeakInv'
  BY <1>4, OwnersKept DEF LoadAcquire, IncrVersion, Goto, TypeOK, Word, Owned
<1>5. ASSUME NEW t \in Threads, LoadCopy(t) \/ LoadReleaseFails(t) PROVE LeakInv'
  BY <1>5, OwnersKept DEF LoadCopy, LoadReleaseFails, Goto, TypeOK, Owned
<1>6. ASSUME NEW t \in Threads, LoadRelease(t) PROVE LeakInv'
  BY <1>6, OwnersKept DEF LoadRelease, DecrVersion, Return, Goto, TypeOK, Word, Owned
<1>7. ASSUME NEW t \in Threads, StoreMarkFails(t) PROVE LeakInv'
  BY <1>7, OwnersKept DEF StoreMarkFails, TypeOK, Owned
<1>8. ASSUME NEW t \in Threads, StoreMark(t) PROVE LeakInv'
  BY <1>8, OwnersKept DEF StoreMark, Mark, Goto, TypeOK, Word, Owned
<1>9. ASSUME NEW t \in Threads, NEW v \in Values \cup {Null}, StoreBegin(t, v) PROVE LeakInv'
  <2>1. /\ \A u \in Threads \ {t} : Owned(u)' = Owned(u)
        /\ Owned(t) = Null /\ Owned(t)' = new'[t]
    BY <1>9 DEF StoreBegin, Goto, TypeOK, Owned
  <2>2. \A b \in Addrs : heap'[b] # heap[b] => new'[t] = b
    BY <1>9 DEF StoreBegin, TypeOK
  <2>3. ptr' = ptr
    BY <1>9 DEF StoreBegin
  <2> QED
    BY <2>1, <2>2, <2>3, NullAssumption DEF LeakInv
<1>10. ASSUME NEW t \in Threads, StorePublish(t) PROVE LeakInv'
  <2>1. \A u \in Threads \ {t} : Owned(u)' = Owned(u)
    BY <1>10 DEF StorePublish, Goto, TypeOK, Owned
  <2>2. Owned(t) = new[t] /\ Owned(t)' = ptr.raw
    BY <1>10 DEF StorePublish, Goto, TypeOK, Owned, ExpectedInv
  <2>3. ptr'.raw = new[t] /\ heap' = heap
    BY <1>10 DEF StorePublish, PackPtr
  <2> QED
    BY <2>1, <2>2, <2>3 DEF LeakInv
<1>11. ASSUME NEW t \in Threads, StoreReclaim(t) PROVE LeakInv'
  <2>1. \A u \in Threads \ {t} : Owned(u)' = Owned(u)
    BY <1>11 DEF StoreReclaim, Return, Goto, TypeOK, Owned
  <2>2. \A b \in Addrs : heap'[b] # Null => b # Owned(t) /\ heap[b] # Null
    BY <1>11 DEF StoreReclaim, Owned
  <2>3. ptr' = ptr
    BY <1>11 DEF StoreReclaim
  <2> QED
    BY <2>1, <2>2, <2>3 DEF LeakInv
<1> QED
  BY <1>1, <1>2, <1>3, <1>4, <1>5, <1>6, <1>7, <1>8, <1>9, <1>10, <1>11 DEF Next, Step

\* Every cell Store allocates is published or still in the hands of a running
\* store, and conversely: no schedule makes Store drop or keep a cell.
THEOREM LeakFree == Spec => []NoLeak
<1>1. IInv /\ LeakInv => NoLeak
  <2> SUFFICES ASSUME IInv, LeakInv PROVE NoLeak
    OBVIOUS
  <2>1. \A a : a \in Reachable \ {Null} <=>
               a # Null /\ (a = ptr.raw \/ \E t \in Threads : Owned(t) = a)
    BY DEF Reachable, Owned
  <2>2. \A a : a # Null /\ (a = ptr.raw \/ \E t \in Threads : Owned(t) = a) => a \in Addrs
    BY DEF IInv, TypeOK, Word, Raw, Owned
  <2>3. \A a \in Addrs : heap[a] # Null <=> a = ptr.raw \/ \E t \in Threads : Owned(t) = a
    BY NullAssumption DEF LeakInv, IInv, OwnerInv
  <2>4. \A a \in Addrs : a # Null
    BY NullAssumption
  <2> QED
    BY <2>1, <2>2, <2>3, <2>4 DEF NoLeak
<1> QED
  BY <1>1, Invariance, InitLeakInv, NextLeakInv, PTL DEF Spec

-----------------------------------------------------------------------------
(***************************************************************************)
(* AtomicSharedPtr implements AtomicCell, for any number of threads below  *)
(* the version range.  The linearization points are the acquiring CAS of   *)
(* Load (or its read of a null address) and the publishing store of Store; *)
(* every other access is a stuttering step of the cell.                    *)
(*                                                                         *)
(* The mapping reads heap cells: the result of a load that has registered  *)
(* is the content of a cell it has not copied yet.  So the argument is who *)
(* owns which cell (OwnerInv): no step of another thread changes the       *)
(* content of the published cell or of a cell a running store owns.        *)
(***************************************************************************)

\* A load that has not taken effect has no result yet.
ResultInv == \A t \in Threads : pc[t] \in {"read", "acquire"} => ret[t] = Null

RInv == IInv /\ ResultInv
-----------------------------------------------------------------------------
LEMMA NextResultInv == IInv /\ ResultInv /\ [Next]_vars => ResultInv'
<1> SUFFICES ASSUME IInv, ResultInv, [Next]_vars PROVE ResultInv'
  OBVIOUS
<1> USE DEF IInv, TypeOK, ResultInv
<1>1. CASE UNCHANGED vars
  BY <1>1 DEF vars
<1>2. ASSUME NEW t \in Threads, LoadBegin(t) PROVE ResultInv'
  BY <1>2 DEF LoadBegin, Goto
<1>3. ASSUME NEW t \in Threads, NEW v \in Values \cup {Null}, StoreBegin(t, v) PROVE ResultInv'
  BY <1>3 DEF StoreBegin, Goto
<1>4. ASSUME NEW t \in Threads, LoadRead(t) \/ LoadAcquireFails(t) PROVE ResultInv'
  BY <1>4 DEF LoadRead, LoadAcquireFails, LoadExamine, Return, Goto
<1>5. ASSUME NEW t \in Threads, LoadAcquire(t) \/ LoadCopy(t) \/ LoadReleaseFails(t) PROVE ResultInv'
  BY <1>5 DEF LoadAcquire, LoadCopy, LoadReleaseFails, Goto
<1>6. ASSUME NEW t \in Threads, LoadRelease(t) \/ StoreReclaim(t) PROVE ResultInv'
  BY <1>6 DEF LoadRelease, StoreReclaim, Return, Goto
<1>7. ASSUME NEW t \in Threads, StoreMarkFails(t) \/ StoreMark(t) \/ StorePublish(t) PROVE ResultInv'
  BY <1>7 DEF StoreMarkFails, StoreMark, StorePublish, Goto
<1> QED
  BY <1>1, <1>2, <1>3, <1>4, <1>5, <1>6, <1>7 DEF Next, Step

\* The invariant of the refinement holds in every state of every behaviour.
LEMMA RefinementInvariance == Spec => []RInv
<1>1. Init => ResultInv
  BY DEF Init, ResultInv
<1> QED
  BY <1>1, Invariance, NextResultInv, PTL DEF Spec, RInv
-----------------------------------------------------------------------------
\* The step changes no local of a thread other than t.
OnlyLocalsOf(t) ==
  \A u \in Threads \ {t} : /\ pc'[u] = pc[u] /\ cur'[u] = cur[u]
                           /\ new'[u] = new[u] /\ ret'[u] = ret[u]

\* The step keeps the published cell and the cells of stores other than t's.
HeapKeptFor(t) ==
  \A a \in Addrs : (a = ptr.raw \/ \E u \in Threads \ {t} : Owned(u) = a)
                   => heap'[a] = heap[a]

\* Of the calls the cell sees, only the one of t changes.
CellChangesAt(t) ==
  /\ CellPhase' = [CellPhase EXCEPT ![t] = CellPhase'[t]]
  /\ CellArg' = [CellArg EXCEPT ![t] = CellArg'[t]]
  /\ CellResult' = [CellResult EXCEPT ![t] = CellResult'[t]]

(***************************************************************************)
(* If a step touches the locals of t only, and no cell that the word or    *)
(* another store refers to, then the calls of the other threads look the   *)
(* same to the abstract cell.                                              *)
(***************************************************************************)
LEMMA StepOf ==
  ASSUME RInv, NEW t \in Threads, OnlyLocalsOf(t), heap' = heap \/ HeapKeptFor(t)
  PROVE  CellChangesAt(t)
<1> USE DEF RInv, IInv, OnlyLocalsOf, HeapKeptFor
<1>1. \A u \in Threads \ {t} : CellPhase'[u] = CellPhase[u]
  BY DEF CellPhase
<1>2. \A u \in Threads \ {t} : CellArg'[u] = CellArg[u]
  <2> SUFFICES ASSUME NEW u \in Threads \ {t}, pc[u] \in {"mark", "publish"}, new[u] # Null
               PROVE  heap'[new[u]] = heap[new[u]]
    BY DEF CellArg, Deref
  <2>1. Owned(u) = new[u] /\ new[u] \in Addrs
    BY DEF Owned, TypeOK, Raw
  <2> QED
    BY <2>1
<1>3. \A u \in Threads \ {t} : CellResult'[u] = CellResult[u]
  <2> SUFFICES ASSUME NEW u \in Threads \ {t}, pc[u] \in {"copy", "reclaim"}, cur[u].raw # Null
               PROVE  heap'[cur[u].raw] = heap[cur[u].raw]
    BY DEF CellResult, Deref
  <2>1. cur[u].raw \in Addrs
    BY DEF TypeOK, Word, Raw
  <2>2. cur[u].raw = ptr.raw \/ Owned(u) = cur[u].raw
    BY DEF ExpectedInv, Owned
  <2> QED
    BY <2>1, <2>2
<1> QED
  BY <1>1, <1>2, <1>3 DEF CellChangesAt, CellPhase, CellArg, CellResult

\* A step that changes neither the value of the cell nor what the call of t
\* looks like is invisible to the cell.
LEMMA InvisibleStep ==
  ASSUME RInv, NEW t \in Threads, OnlyLocalsOf(t), heap' = heap \/ HeapKeptFor(t),
         CellValue' = CellValue, CellPhase'[t] = CellPhase[t],
         CellArg'[t] = CellArg[t], CellResult'[t] = CellResult[t]
  PROVE  UNCHANGED Cell!vars
<1>1. CellChangesAt(t)
  BY StepOf
<1>2. /\ CellPhase' = [CellPhase EXCEPT ![t] = CellPhase[t]]
      /\ CellArg' = [CellArg EXCEPT ![t] = CellArg[t]]
      /\ CellResult' = [CellResult EXCEPT ![t] = CellResult[t]]
  BY <1>1 DEF CellChangesAt
<1> QED
  BY <1>2 DEF Cell!vars, CellPhase, CellArg, CellResult
-----------------------------------------------------------------------------
LEMMA InitCell == Init => Cell!Init
<1> SUFFICES ASSUME Init PROVE Cell!Init
  OBVIOUS
<1>1. CellValue \in Values \cup {Null}
  BY DEF Init, CellValue, Deref, PackPtr
<1>2. CellPhase = [t \in Threads |-> "idle"]
  BY DEF Init, CellPhase
<1>3. CellArg = [t \in Threads |-> Null] /\ CellResult = [t \in Threads |-> Null]
  BY DEF Init, CellArg, CellResult
<1> QED
  BY <1>1, <1>2, <1>3 DEF Cell!Init

LEMMA NextCell == RInv /\ [Next]_vars => [Cell!Next]_(Cell!vars)
<1> SUFFICES ASSUME RInv, [Next]_vars PROVE [Cell!Next]_(Cell!vars)
  OBVIOUS
<1> USE DEF RInv, IInv
<1> DEFINE Goal == [Cell!Next]_(Cell!vars)
<1>1. ASSUME UNCHANGED vars PROVE Goal
  BY <1>1 DEF vars, Cell!vars, CellValue, CellPhase, CellArg, CellResult, Deref
<1>2. ASSUME NEW t \in Threads, LoadBegin(t) PROVE Goal
  <2>1. /\ OnlyLocalsOf(t)
        /\ pc[t] = "idle" /\ pc'[t] = "read" /\ ret'[t] = Null /\ UNCHANGED <<heap, ptr>>
    BY <1>2 DEF OnlyLocalsOf, LoadBegin, Goto, TypeOK
  <2>2. /\ CellPhase[t] = "idle" /\ CellPhase'[t] = "load"
        /\ CellArg[t] = Null /\ CellArg'[t] = Null /\ CellResult'[t] = Null
    BY <2>1 DEF CellPhase, CellArg, CellResult
  <2>3. CellChangesAt(t)
    BY <2>1, StepOf
  <2>4. CellArg' = CellArg /\ CellValue' = CellValue
    BY <2>1, <2>2, <2>3 DEF CellChangesAt, CellArg, CellValue, Deref
  <2>5. Cell!LoadBegin(t)
    BY <2>2, <2>3, <2>4 DEF Cell!LoadBegin, CellChangesAt
  <2> QED
    BY <2>5 DEF Cell!Next
<1>3. ASSUME NEW t \in Threads, LoadRead(t) \/ LoadAcquireFails(t) PROVE Goal
  <2>1. /\ OnlyLocalsOf(t)
        /\ pc[t] \in {"read", "acquire"} /\ ret[t] = Null
        /\ UNCHANGED <<heap, ptr, ret>>
    BY <1>3 DEF OnlyLocalsOf, LoadRead, LoadAcquireFails, LoadExamine, Return, Goto, TypeOK, ResultInv
  <2>2. CellPhase[t] = "load" /\ CellArg[t] = Null /\ CellResult[t] = Null
    BY <2>1 DEF CellPhase, CellArg, CellResult
  <2>3. CellValue' = CellValue
    BY <2>1 DEF CellValue, Deref
  <2>4. CASE ptr.raw = Null
    <3>1. pc'[t] = "idle" /\ CellValue = Null
      BY <1>3, <2>4 DEF LoadRead, LoadAcquireFails, LoadExamine, Return, Goto, TypeOK,
                        CellValue, Deref
    <3>2. CellPhase'[t] = "idle" /\ CellArg'[t] = Null /\ CellResult'[t] = CellValue
      BY <2>1, <3>1 DEF CellPhase, CellArg, CellResult
    <3>3. CellChangesAt(t)
      BY <2>1, StepOf
    <3>4. CellArg' = CellArg
      BY <2>2, <3>2, <3>3 DEF CellChangesAt, CellArg
    <3>5. Cell!LoadEffect(t)
      BY <2>2, <2>3, <3>2, <3>3, <3>4 DEF Cell!LoadEffect, CellChangesAt
    <3> QED
      BY <3>5 DEF Cell!Next
  <2>5. CASE ptr.raw # Null
    <3>1. pc'[t] = "acquire"
      BY <1>3, <2>5 DEF LoadRead, LoadAcquireFails, LoadExamine, Goto, TypeOK
    <3>2. CellPhase'[t] = "load" /\ CellArg'[t] = Null /\ CellResult'[t] = Null
      BY <2>1, <3>1 DEF CellPhase, CellArg, CellResult
    <3> QED
      BY <2>1, <2>2, <2>3, <3>2, InvisibleStep
  <2> QED
    BY <2>4, <2>5
<1>4. ASSUME NEW t \in Threads, LoadAcquire(t) PROVE Goal
  <2>1. /\ OnlyLocalsOf(t)
        /\ pc[t] = "acquire" /\ pc'[t] = "copy" /\ cur'[t] = ptr
        /\ heap' = heap /\ ptr'.raw = ptr.raw
    BY <1>4 DEF OnlyLocalsOf, LoadAcquire, IncrVersion, Goto, TypeOK, Word
  <2>2. CellPhase[t] = "load" /\ CellArg[t] = Null /\ CellValue' = CellValue
    BY <2>1 DEF CellPhase, CellArg, CellValue, Deref
  <2>3. CellPhase'[t] = "idle" /\ CellArg'[t] = Null /\ CellResult'[t] = CellValue
    BY <2>1 DEF CellPhase, CellArg, CellResult, CellValue, Deref
  <2>4. CellChangesAt(t)
    BY <2>1, StepOf
  <2>5. CellArg' = CellArg
    BY <2>2, <2>3, <2>4 DEF CellChangesAt, CellArg
  <2>6. Cell!LoadEffect(t)
    BY <2>2, <2>3, <2>4, <2>5 DEF Cell!LoadEffect, CellChangesAt
  <2> QED
    BY <2>6 DEF Cell!Next
<1>5. ASSUME NEW t \in Threads, LoadCopy(t) PROVE Goal
  <2>1. /\ OnlyLocalsOf(t)
        /\ pc[t] = "copy" /\ pc'[t] = "release" /\ ret'[t] = heap[cur[t].raw]
        /\ cur[t].raw # Null /\ UNCHANGED <<heap, ptr>>
    BY <1>5 DEF OnlyLocalsOf, LoadCopy, Goto, TypeOK, ExpectedInv
  <2>2. /\ CellValue' = CellValue /\ CellPhase'[t] = CellPhase[t]
        /\ CellArg'[t] = CellArg[t] /\ CellResult'[t] = CellResult[t]
    BY <2>1 DEF CellPhase, CellArg, CellResult, CellValue, Deref
  <2> QED
    BY <2>1, <2>2, InvisibleStep
<1>6. ASSUME NEW t \in Threads, LoadReleaseFails(t) PROVE Goal
  <2>1. /\ OnlyLocalsOf(t)
        /\ pc[t] = "release" /\ UNCHANGED <<pc, heap, ptr, ret>>
    BY <1>6 DEF OnlyLocalsOf, LoadReleaseFails, TypeOK
  <2>2. /\ CellValue' = CellValue /\ CellPhase'[t] = CellPhase[t]
        /\ CellArg'[t] = CellArg[t] /\ CellResult'[t] = CellResult[t]
    BY <2>1 DEF CellPhase, CellArg, CellResult, CellValue, Deref
  <2> QED
    BY <2>1, <2>2, InvisibleStep
<1>7. ASSUME NEW t \in Threads, LoadRelease(t) PROVE Goal
  <2>1. /\ OnlyLocalsOf(t)
        /\ pc[t] = "release" /\ pc'[t] = "idle"
        /\ heap' = heap /\ ptr'.raw = ptr.raw /\ ret' = ret
    BY <1>7 DEF OnlyLocalsOf, LoadRelease, DecrVersion, Return, Goto, TypeOK, Word
  <2>2. /\ CellValue' = CellValue /\ CellPhase'[t] = CellPhase[t]
        /\ CellArg'[t] = CellArg[t] /\ CellResult'[t] = CellResult[t]
    BY <2>1 DEF CellPhase, CellArg, CellResult, CellValue, Deref
  <2> QED
    BY <2>1, <2>2, InvisibleStep
<1>8. ASSUME NEW t \in Threads, NEW v \in Values \cup {Null}, StoreBegin(t, v) PROVE Goal
  <2>1. /\ OnlyLocalsOf(t)
        /\ pc[t] = "idle" /\ pc'[t] = "mark" /\ ret'[t] = Null /\ ptr' = ptr
    BY <1>8 DEF OnlyLocalsOf, StoreBegin, Goto, TypeOK
  <2>2. /\ Deref(new[t])' = v
        /\ \A a \in Addrs : heap[a] # Null => heap'[a] = heap[a]
    BY <1>8, NullAssumption DEF StoreBegin, Deref, TypeOK
  <2>3. HeapKeptFor(t)
    BY <2>2, NullAssumption DEF HeapKeptFor, OwnerInv
  <2>4. /\ CellPhase[t] = "idle" /\ CellPhase'[t] = "store"
        /\ CellArg'[t] = v /\ CellResult'[t] = Null
    BY <2>1, <2>2 DEF CellPhase, CellArg, CellResult
  <2>5. CellValue' = CellValue
    BY <2>1, <2>3 DEF HeapKeptFor, CellValue, Deref, TypeOK, Word, Raw
  <2>6. CellChangesAt(t)
    BY <2>1, <2>3, StepOf
  <2>7. Cell!StoreBegin(t, v)
    BY <2>4, <2>5, <2>6 DEF Cell!StoreBegin, CellChangesAt
  <2> QED
    BY <2>7 DEF Cell!Next
<1>9. ASSUME NEW t \in Threads, StoreMarkFails(t) PROVE Goal
  <2>1. /\ OnlyLocalsOf(t)
        /\ pc[t] = "mark" /\ UNCHANGED <<pc, heap, ptr, ret, new>>
    BY <1>9 DEF OnlyLocalsOf, StoreMarkFails, TypeOK
  <2>2. /\ CellValue' = CellValue /\ CellPhase'[t] = CellPhase[t]
        /\ CellArg'[t] = CellArg[t] /\ CellResult'[t] = CellResult[t]
    BY <2>1 DEF CellPhase, CellArg, CellResult, CellValue, Deref
  <2> QED
    BY <2>1, <2>2, InvisibleStep
<1>10. ASSUME NEW t \in Threads, StoreMark(t) PROVE Goal
  <2>1. /\ OnlyLocalsOf(t)
        /\ pc[t] = "mark" /\ pc'[t] = "publish" /\ ptr'.raw = ptr.raw
        /\ UNCHANGED <<heap, ret, new>>
    BY <1>10 DEF OnlyLocalsOf, StoreMark, Mark, Goto, TypeOK, Word
  <2>2. /\ CellValue' = CellValue /\ CellPhase'[t] = CellPhase[t]
        /\ CellArg'[t] = CellArg[t] /\ CellResult'[t] = CellResult[t]
    BY <2>1 DEF CellPhase, CellArg, CellResult, CellValue, Deref
  <2> QED
    BY <2>1, <2>2, InvisibleStep
<1>11. ASSUME NEW t \in Threads, StorePublish(t) PROVE Goal
  <2>1. /\ OnlyLocalsOf(t)
        /\ pc[t] = "publish" /\ pc'[t] = "reclaim" /\ ptr'.raw = new[t]
        /\ cur'[t].raw = ptr.raw /\ UNCHANGED <<heap, ret, new>>
    BY <1>11 DEF OnlyLocalsOf, StorePublish, PackPtr, Goto, TypeOK, ExpectedInv
  <2>2. CellPhase[t] = "store" /\ CellPhase'[t] = "idle" /\ CellArg'[t] = Null
    BY <2>1 DEF CellPhase, CellArg
  <2>3. CellValue' = CellArg[t] /\ CellResult'[t] = CellValue
    BY <2>1 DEF CellArg, CellResult, CellValue, Deref
  <2>4. CellChangesAt(t)
    BY <2>1, StepOf
  <2>5. Cell!StoreEffect(t)
    BY <2>2, <2>3, <2>4 DEF Cell!StoreEffect, CellChangesAt
  <2> QED
    BY <2>5 DEF Cell!Next
<1>12. ASSUME NEW t \in Threads, StoreReclaim(t) PROVE Goal
  <2>1. /\ OnlyLocalsOf(t)
        /\ pc[t] = "reclaim" /\ pc'[t] = "idle" /\ ret'[t] = Deref(cur[t].raw) /\ ptr' = ptr
        /\ \A a \in Addrs : a # cur[t].raw => heap'[a] = heap[a]
    BY <1>12 DEF OnlyLocalsOf, StoreReclaim, Return, Goto, TypeOK
  <2>2. HeapKeptFor(t)
    <3>1. Owned(t) = cur[t].raw
      BY <2>1 DEF Owned
    <3> QED
      BY <2>1, <3>1, NullAssumption DEF HeapKeptFor, OwnerInv
  <2>3. CellValue' = CellValue
    BY <2>1, <2>2 DEF HeapKeptFor, CellValue, Deref, TypeOK, Word, Raw
  <2>4. /\ CellPhase'[t] = CellPhase[t] /\ CellArg'[t] = CellArg[t]
        /\ CellResult'[t] = CellResult[t]
    BY <2>1 DEF CellPhase, CellArg, CellResult
  <2> QED
    BY <2>1, <2>2, <2>3, <2>4, InvisibleStep
<1> HIDE DEF Goal
<1>13. Goal
  BY <1>1, <1>2, <1>3, <1>4, <1>5, <1>6, <1>7, <1>8, <1>9, <1>10, <1>11, <1>12 DEF Next, Step
<1> QED
  BY <1>13 DEF Goal

\* Linearizability: Load and Store behave as atomic operations on one cell, and
\* Store returns the value it replaced, for every number of threads, addresses
\* (reused as soon as they are freed) and values.
THEOREM Linearizable == Spec => ImplementsCell
BY InitCell, NextCell, RefinementInvariance, PTL DEF Spec, ImplementsCell, Cell!Spec
=============================================================================
