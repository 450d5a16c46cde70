------------------------- MODULE TransactionMapProofs -------------------------
(***************************************************************************)
(* Proofs about TransactionMap, for any number of threads, keys and        *)
(* addresses and any limit of waiters.                                     *)
(***************************************************************************)
EXTENDS TransactionMap, FiniteSetTheorems, TLAPS

\* Two finite sets that agree except on t differ in size by t's membership.
LEMMA CountChange ==
    ASSUME NEW S, NEW T, NEW t, IsFiniteSet(S), T \ {t} = S \ {t}
    PROVE  /\ IsFiniteSet(T)
           /\ Cardinality(S) \in Nat
           /\ Cardinality(T) \in Nat
           /\ Cardinality(T) = Cardinality(S) + (IF t \in T THEN 1 ELSE 0)
                                              - (IF t \in S THEN 1 ELSE 0)
<1> DEFINE U == S \ {t}
<1>1. /\ IsFiniteSet(U)
      /\ Cardinality(U) = IF t \in S THEN Cardinality(S) - 1 ELSE Cardinality(S)
  BY FS_RemoveElement
<1>2. /\ IsFiniteSet(U \cup {t})
      /\ Cardinality(U \cup {t}) = Cardinality(U) + 1
  BY <1>1, FS_AddElement
<1>3. Cardinality(S) \in Nat /\ Cardinality(U) \in Nat
  BY <1>1, FS_CardinalityType
<1>4. CASE t \in T
  <2>1. T = U \cup {t}
    BY <1>4
  <2>2. QED
    BY <1>1, <1>2, <1>3, <1>4, <2>1
<1>5. CASE t \notin T
  <2>1. T = U
    BY <1>5
  <2>2. QED
    BY <1>1, <1>3, <1>5, <2>1
<1>6. QED
  BY <1>4, <1>5

\* A set of threads is finite.
LEMMA ThreadSetsFinite ==
    ASSUME NEW S \in SUBSET Threads
    PROVE  IsFiniteSet(S) /\ Cardinality(S) \in Nat
BY ConstantsAssumption, FS_Subset, FS_CardinalityType

\* The other threads keep their place and their holder.
OthersKeep(t) ==
    \A u \in Threads \ {t} : pc'[u] = pc[u] /\ holder'[u] = holder[u]

Member(b) == IF b THEN 1 ELSE 0

\* A step of t changes the counts of a holder by t's own references.
LEMMA RefsChange ==
    ASSUME NEW t \in Threads, NEW h \in Holders, OthersKeep(t)
    PROVE  /\ Refs(h) \in Nat
           /\ Refs(h)' \in Nat
           /\ Refs(h)' = Refs(h)
                + Member(LocalRef(t)' /\ holder'[t] = h)
                - Member(LocalRef(t) /\ holder[t] = h)
                + Member(TransactionRef(t)' /\ holder'[t] = h)
                - Member(TransactionRef(t) /\ holder[t] = h)
<1>1. LocalRefs(h)' \ {t} = LocalRefs(h) \ {t}
  BY DEF OthersKeep, LocalRefs, LocalRef
<1>2. TransactionRefs(h)' \ {t} = TransactionRefs(h) \ {t}
  BY DEF OthersKeep, TransactionRefs, TransactionRef
<1>3. IsFiniteSet(LocalRefs(h)) /\ IsFiniteSet(TransactionRefs(h))
  BY ThreadSetsFinite DEF LocalRefs, TransactionRefs
<1>4. /\ Cardinality(LocalRefs(h)) \in Nat
      /\ Cardinality(LocalRefs(h)') \in Nat
      /\ Cardinality(LocalRefs(h)') = Cardinality(LocalRefs(h))
           + Member(t \in LocalRefs(h)') - Member(t \in LocalRefs(h))
  BY <1>1, <1>3, CountChange DEF Member
<1>5. /\ Cardinality(TransactionRefs(h)) \in Nat
      /\ Cardinality(TransactionRefs(h)') \in Nat
      /\ Cardinality(TransactionRefs(h)') = Cardinality(TransactionRefs(h))
           + Member(t \in TransactionRefs(h)') - Member(t \in TransactionRefs(h))
  BY <1>2, <1>3, CountChange DEF Member
<1>6. /\ Member(t \in LocalRefs(h)) = Member(LocalRef(t) /\ holder[t] = h)
      /\ Member(t \in TransactionRefs(h)) = Member(TransactionRef(t) /\ holder[t] = h)
      /\ Member(t \in LocalRefs(h)') = Member(LocalRef(t)' /\ holder'[t] = h)
      /\ Member(t \in TransactionRefs(h)') = Member(TransactionRef(t)' /\ holder'[t] = h)
  BY DEF LocalRefs, TransactionRefs, Member
<1>7. QED
  BY <1>4, <1>5, <1>6 DEF Refs, Member

\* A holder without references is nobody's; one with a reference is counted.
LEMMA RefsPositive ==
    ASSUME NEW h \in Holders, NEW t \in Threads, holder[t] = h,
           LocalRef(t) \/ TransactionRef(t)
    PROVE  Refs(h) \in Nat /\ Refs(h) > 0
<1>1. /\ IsFiniteSet(LocalRefs(h)) /\ Cardinality(LocalRefs(h)) \in Nat
      /\ IsFiniteSet(TransactionRefs(h)) /\ Cardinality(TransactionRefs(h)) \in Nat
  BY ThreadSetsFinite DEF LocalRefs, TransactionRefs
<1>2. t \in LocalRefs(h) \/ t \in TransactionRefs(h)
  BY DEF LocalRefs, TransactionRefs
<1>3. LocalRefs(h) # {} => Cardinality(LocalRefs(h)) # 0
  BY <1>1, FS_EmptySet
<1>4. TransactionRefs(h) # {} => Cardinality(TransactionRefs(h)) # 0
  BY <1>1, FS_EmptySet
<1>5. QED
  BY <1>1, <1>2, <1>3, <1>4 DEF Refs

\* A step of t changes the line of a holder by t's own place in it.
LEMMA InLineChange ==
    ASSUME NEW t \in Threads, NEW h \in Holders, OthersKeep(t)
    PROVE  /\ Cardinality(InLine(h)) \in Nat
           /\ Cardinality(InLine(h)') \in Nat
           /\ Cardinality(InLine(h)') = Cardinality(InLine(h))
                + Member(t \in InLine(h)') - Member(t \in InLine(h))
<1>1. InLine(h)' \ {t} = InLine(h) \ {t}
  BY DEF OthersKeep, InLine
<1>2. IsFiniteSet(InLine(h))
  BY ThreadSetsFinite DEF InLine
<1>3. QED
  BY <1>1, <1>2, CountChange DEF Member

-------------------------------------------------------------------------------
(***************************************************************************)
(* The inductive invariant, conjunct by conjunct.                          *)
(***************************************************************************)
LEMMA InitIndInv == Init => IndInv
<1> SUFFICES ASSUME Init PROVE IndInv
  OBVIOUS
<1>1. TypeOK
  BY DEF Init, TypeOK, Locations
<1>2. \A h \in Holders : LocalRefs(h) = {} /\ TransactionRefs(h) = {} /\ InLine(h) = {}
  BY DEF Init, LocalRefs, TransactionRefs, InLine, LocalRef, TransactionRef
<1>3. RefCountExact
  BY SMTT(30), <1>2, FS_EmptySet DEF Init, RefCountExact, Refs
<1>4. LockCountCovers
  <2>1. \A h \in Holders : Cardinality(InLine(h)) = 0
    BY <1>2, FS_EmptySet
  <2>2. QED
    BY <2>1 DEF Init, LockCountCovers
<1>5. MapToLive /\ KeysAgree /\ LockOwned /\ Registered
  BY DEF Init, MapToLive, KeysAgree, LockOwned, Registered, HasLock
<1>6. QED
  BY <1>1, <1>3, <1>4, <1>5 DEF IndInv

\* Every step is a step of one thread, and the others keep their place.
LEMMA StepFrame ==
    ASSUME TypeOK, NEW t \in Threads,
           Step(t) \/ (\E k \in Keys, c \in BOOLEAN : Call(t, k, c))
    PROVE  /\ OthersKeep(t)
           /\ \A u \in Threads \ {t} : key'[u] = key[u]
BY DEF Step, Call, GetNew, GetNewFails, GetOpened, CreateFails, Construct, Acquire,
       Return, Close, Unlock, Drop, NewHolder, Goto, OthersKeep, TypeOK

\* The reference count stays exact ...
LEMMA RefCountStep ==
    ASSUME IndInv, NEW t \in Threads,
           Step(t) \/ (\E k \in Keys, c \in BOOLEAN : Call(t, k, c))
    PROVE  RefCountExact'
<1> SUFFICES ASSUME NEW h \in Holders
             PROVE  ref_count_'[h] = Refs(h)'
  BY DEF RefCountExact
<1>1. /\ Refs(h) \in Nat
      /\ Refs(h)' \in Nat
      /\ Refs(h)' = Refs(h)
           + Member(LocalRef(t)' /\ holder'[t] = h)
           - Member(LocalRef(t) /\ holder[t] = h)
           + Member(TransactionRef(t)' /\ holder'[t] = h)
           - Member(TransactionRef(t) /\ holder[t] = h)
  BY StepFrame, RefsChange DEF IndInv
<1>2. ref_count_[h] = Refs(h)
  BY DEF IndInv, RefCountExact
<1> USE <1>1, <1>2 DEF IndInv, TypeOK, Member, LocalRef, TransactionRef, Goto
<1>3. CASE \E k \in Keys, c \in BOOLEAN : Call(t, k, c)
  BY <1>3 DEF Call, holder_vars
<1>4. CASE GetNew(t)
  BY <1>4 DEF GetNew, NewHolder
<1>5. CASE GetNewFails(t)
  BY <1>5 DEF GetNewFails, NewHolder
<1>6. CASE GetOpened(t)
  BY <1>6 DEF GetOpened
<1>7. CASE CreateFails(t)
  BY <1>7 DEF CreateFails
<1>8. CASE Construct(t)
  BY <1>8 DEF Construct
<1>9. CASE Acquire(t)
  BY <1>9 DEF Acquire
<1>10. CASE Return(t)
  BY <1>10 DEF Return, RemoveRef
<1>11. CASE Close(t)
  BY <1>11 DEF Close
<1>12. CASE Unlock(t)
  BY <1>12 DEF Unlock
<1>13. CASE Drop(t)
  BY <1>13 DEF Drop, RemoveRef
<1>14. QED
  BY <1>3, <1>4, <1>5, <1>6, <1>7, <1>8, <1>9, <1>10, <1>11, <1>12, <1>13 DEF Step

\* ... so that a thread never gives up a reference that is not counted ...
LEMMA CountedRef ==
    ASSUME IndInv, NEW t \in Threads, pc[t] \notin {"idle", "get"}
    PROVE  /\ holder[t] \in Holders
           /\ ref_count_[holder[t]] > 0
<1>1. holder[t] \in Holders
  BY DEF IndInv, TypeOK
<1>2. LocalRef(t) \/ TransactionRef(t)
  BY DEF IndInv, TypeOK, Locations, LocalRef, TransactionRef
<1>3. QED
  BY <1>1, <1>2, RefsPositive DEF IndInv, RefCountExact

\* ... and lock_count_ keeps covering the threads in line.
LEMMA LockCountStep ==
    ASSUME IndInv, NEW t \in Threads,
           Step(t) \/ (\E k \in Keys, c \in BOOLEAN : Call(t, k, c))
    PROVE  LockCountCovers'
<1> SUFFICES ASSUME NEW h \in Holders
             PROVE  /\ lock_count_'[h] >= Cardinality(InLine(h)')
                    /\ key_'[h] \notin FailNew /\ ref_count_'[h] > 0 =>
                         lock_count_'[h] = Cardinality(InLine(h)')
  BY DEF LockCountCovers
<1>1. /\ Cardinality(InLine(h)) \in Nat
      /\ Cardinality(InLine(h)') \in Nat
      /\ Cardinality(InLine(h)') = Cardinality(InLine(h))
           + Member(t \in InLine(h)') - Member(t \in InLine(h))
  BY StepFrame, InLineChange DEF IndInv
<1>2. /\ lock_count_[h] >= Cardinality(InLine(h))
      /\ key_[h] \notin FailNew /\ ref_count_[h] > 0 => lock_count_[h] = Cardinality(InLine(h))
  BY DEF IndInv, LockCountCovers
<1>15. ref_count_[h] = 0 => Cardinality(InLine(h)) = 0
  <2>1. ASSUME ref_count_[h] = 0 PROVE InLine(h) = {}
    BY <2>1, CountedRef DEF InLine
  <2>2. QED
    BY <2>1, FS_EmptySet
<1> USE <1>1, <1>2 DEF IndInv, TypeOK, Member, InLine, Goto
<1>3. CASE \E k \in Keys, c \in BOOLEAN : Call(t, k, c)
  BY <1>3 DEF Call, holder_vars
<1>4. CASE GetNew(t)
  BY <1>4, <1>15 DEF GetNew, NewHolder
<1>5. CASE GetNewFails(t)
  BY <1>5, <1>15 DEF GetNewFails, NewHolder
<1>6. CASE GetOpened(t)
  BY <1>6 DEF GetOpened, MapToLive
<1>7. CASE CreateFails(t)
  BY <1>7 DEF CreateFails
<1>8. CASE Construct(t)
  BY <1>8, CountedRef DEF Construct
<1>9. CASE Acquire(t)
  BY <1>9 DEF Acquire
<1>10. CASE Return(t)
  BY <1>10 DEF Return, RemoveRef
<1>11. CASE Close(t)
  BY <1>11 DEF Close
<1>12. CASE Unlock(t)
  BY <1>12 DEF Unlock
<1>13. CASE Drop(t)
  BY <1>13 DEF Drop, RemoveRef
<1>14. QED
  BY <1>3, <1>4, <1>5, <1>6, <1>7, <1>8, <1>9, <1>10, <1>11, <1>12, <1>13 DEF Step

LEMMA TypeOKStep ==
    ASSUME IndInv, NEW t \in Threads,
           Step(t) \/ (\E k \in Keys, c \in BOOLEAN : Call(t, k, c))
    PROVE  TypeOK'
<1>1. \A h \in Holders : Cardinality(InLine(h)) \in Nat
  BY ThreadSetsFinite DEF InLine
<1>2. t \in InLine(holder[t]) => Cardinality(InLine(holder[t])) > 0
  BY ThreadSetsFinite, FS_EmptySet DEF InLine
<1> USE CountedRef DEF IndInv, TypeOK, Locations, Goto
<1>3. CASE \E k \in Keys, c \in BOOLEAN : Call(t, k, c)
  BY <1>3 DEF Call, holder_vars
<1>4. CASE GetNew(t)
  BY <1>4 DEF GetNew, NewHolder
<1>5. CASE GetNewFails(t)
  BY <1>5 DEF GetNewFails, NewHolder
<1>6. CASE GetOpened(t)
  BY <1>6 DEF GetOpened, MapToLive
<1>7. CASE CreateFails(t)
  BY <1>1, <1>2, <1>7 DEF InLine, LockCountCovers, CreateFails
<1>8. CASE Construct(t)
  BY <1>8 DEF Construct
<1>9. CASE Acquire(t)
  BY <1>9 DEF Acquire
<1>10. CASE Return(t)
  BY <1>10 DEF Return, RemoveRef
<1>11. CASE Close(t)
  BY <1>1, <1>2, <1>11 DEF InLine, LockCountCovers, Close
<1>12. CASE Unlock(t)
  BY <1>12 DEF Unlock
<1>13. CASE Drop(t)
  BY <1>13 DEF Drop, RemoveRef
<1>14. QED
  BY <1>3, <1>4, <1>5, <1>6, <1>7, <1>8, <1>9, <1>10, <1>11, <1>12, <1>13 DEF Step

\* The last reference of a holder that goes is really the last: two threads that
\* use a holder have two references, and so has the one get_transaction returns to.
LEMMA TwoRefs ==
    ASSUME IndInv, NEW t \in Threads, NEW u \in Threads,
           pc[t] \notin {"idle", "get"}, pc[u] \notin {"idle", "get"},
           holder[u] = holder[t],
           t # u \/ pc[t] = "ret"
    PROVE  ref_count_[holder[t]] # 1
<1> DEFINE h == holder[t]
           L == LocalRefs(h)
           T == TransactionRefs(h)
<1>1. h \in Holders /\ ref_count_[h] = Cardinality(L) + Cardinality(T)
  BY CountedRef DEF IndInv, RefCountExact, Refs
<1>2. /\ IsFiniteSet(L) /\ Cardinality(L) \in Nat
      /\ IsFiniteSet(T) /\ Cardinality(T) \in Nat
  BY ThreadSetsFinite DEF LocalRefs, TransactionRefs
<1>3. t \in L \cup T /\ u \in L \cup T
  BY DEF IndInv, TypeOK, Locations, LocalRefs, TransactionRefs, LocalRef, TransactionRef
<1>4. CASE t # u
  <2> HIDE DEF L, T
  <2>1. /\ IsFiniteSet(L \cup T)
        /\ Cardinality(L \cup T) =
             Cardinality(L) + Cardinality(T) - Cardinality(L \cap T)
    BY <1>2, FS_Union
  <2>2. Cardinality(L \cap T) \in Nat
    BY <1>2, FS_Intersection, FS_CardinalityType
  <2>3. IsFiniteSet({t, u}) /\ Cardinality({t, u}) = 2
    <3>1. IsFiniteSet({t}) /\ Cardinality({t}) = 1
      BY FS_Singleton
    <3>2. {t, u} = {t} \cup {u} /\ u \notin {t}
      BY <1>4
    <3>3. /\ IsFiniteSet({t} \cup {u})
          /\ Cardinality({t} \cup {u}) = Cardinality({t}) + 1
      BY <3>1, <3>2, FS_AddElement
    <3>4. QED
      BY <3>1, <3>2, <3>3
  <2>4. Cardinality({t, u}) <= Cardinality(L \cup T)
    BY <1>3, <2>1, FS_Subset
  <2>5. QED
    BY <1>1, <1>2, <2>1, <2>2, <2>3, <2>4
<1>5. CASE pc[t] = "ret"
  <2>1. t \in L /\ t \in T
    BY <1>5 DEF LocalRefs, TransactionRefs, LocalRef, TransactionRef
  <2>2. Cardinality(L) # 0 /\ Cardinality(T) # 0
    BY <1>2, <2>1, FS_EmptySet
  <2>3. QED
    BY <1>1, <1>2, <2>2
<1>6. QED
  BY <1>4, <1>5

LEMMA MapToLiveStep ==
    ASSUME IndInv, NEW t \in Threads,
           Step(t) \/ (\E k \in Keys, c \in BOOLEAN : Call(t, k, c))
    PROVE  MapToLive'
<1>1. \A u \in Threads : pc[u] \notin {"idle", "get"} =>
        holder[u] \in Holders /\ ref_count_[holder[u]] > 0
  BY CountedRef
<1> USE ConstantsAssumption, <1>1 DEF IndInv, TypeOK, Goto, MapToLive, KeysAgree
<1>3. CASE \E k \in Keys, c \in BOOLEAN : Call(t, k, c)
  BY <1>3 DEF Call, holder_vars
<1>4. CASE GetNew(t)
  BY <1>4 DEF GetNew, NewHolder
<1>5. CASE GetNewFails(t)
  BY <1>5 DEF GetNewFails, NewHolder
<1>6. CASE GetOpened(t)
  BY <1>6 DEF GetOpened
<1>7. CASE CreateFails(t)
  BY <1>7 DEF CreateFails
<1>8. CASE Construct(t)
  BY <1>8 DEF Construct
<1>9. CASE Acquire(t)
  BY <1>9 DEF Acquire
<1>10. CASE Return(t)
  BY <1>10 DEF Return, RemoveRef
<1>11. CASE Close(t)
  BY <1>11 DEF Close
<1>12. CASE Unlock(t)
  BY <1>12 DEF Unlock
<1>13. CASE Drop(t)
  BY <1>13 DEF Drop, RemoveRef
<1>14. QED
  BY <1>3, <1>4, <1>5, <1>6, <1>7, <1>8, <1>9, <1>10, <1>11, <1>12, <1>13 DEF Step

LEMMA KeysAgreeStep ==
    ASSUME IndInv, NEW t \in Threads,
           Step(t) \/ (\E k \in Keys, c \in BOOLEAN : Call(t, k, c))
    PROVE  KeysAgree'
<1>1. \A u \in Threads : pc[u] \notin {"idle", "get"} =>
        holder[u] \in Holders /\ ref_count_[holder[u]] > 0
  BY CountedRef
<1> USE ConstantsAssumption, <1>1 DEF IndInv, TypeOK, Goto, MapToLive, KeysAgree
<1>3. CASE \E k \in Keys, c \in BOOLEAN : Call(t, k, c)
  BY <1>3 DEF Call, holder_vars
<1>4. CASE GetNew(t)
  BY <1>4 DEF GetNew, NewHolder
<1>5. CASE GetNewFails(t)
  BY <1>5 DEF GetNewFails, NewHolder
<1>6. CASE GetOpened(t)
  BY <1>6 DEF GetOpened
<1>7. CASE CreateFails(t)
  BY <1>7 DEF CreateFails
<1>8. CASE Construct(t)
  BY <1>8 DEF Construct
<1>9. CASE Acquire(t)
  BY <1>9 DEF Acquire
<1>10. CASE Return(t)
  BY <1>10 DEF Return, RemoveRef
<1>11. CASE Close(t)
  BY <1>11 DEF Close
<1>12. CASE Unlock(t)
  BY <1>12 DEF Unlock
<1>13. CASE Drop(t)
  BY <1>13 DEF Drop, RemoveRef
<1>14. QED
  BY <1>3, <1>4, <1>5, <1>6, <1>7, <1>8, <1>9, <1>10, <1>11, <1>12, <1>13 DEF Step

LEMMA LockOwnedStep ==
    ASSUME IndInv, NEW t \in Threads,
           Step(t) \/ (\E k \in Keys, c \in BOOLEAN : Call(t, k, c))
    PROVE  LockOwned'
<1>1. \A u \in Threads : pc[u] \notin {"idle", "get"} =>
        holder[u] \in Holders /\ ref_count_[holder[u]] > 0
  BY CountedRef
<1> USE ConstantsAssumption, <1>1 DEF IndInv, TypeOK, Goto, LockOwned, HasLock, KeysAgree
<1>3. CASE \E k \in Keys, c \in BOOLEAN : Call(t, k, c)
  BY <1>3 DEF Call, holder_vars
<1>4. CASE GetNew(t)
  BY <1>4 DEF GetNew, NewHolder
<1>5. CASE GetNewFails(t)
  BY <1>5 DEF GetNewFails, NewHolder
<1>6. CASE GetOpened(t)
  BY <1>6 DEF GetOpened
<1>7. CASE CreateFails(t)
  BY <1>7 DEF CreateFails
<1>8. CASE Construct(t)
  BY <1>8 DEF Construct
<1>9. CASE Acquire(t)
  BY <1>9 DEF Acquire
<1>10. CASE Return(t)
  BY <1>10 DEF Return, RemoveRef
<1>11. CASE Close(t)
  BY <1>11 DEF Close
<1>12. CASE Unlock(t)
  BY <1>12 DEF Unlock
<1>13. CASE Drop(t)
  BY <1>13 DEF Drop, RemoveRef
<1>14. QED
  BY <1>3, <1>4, <1>5, <1>6, <1>7, <1>8, <1>9, <1>10, <1>11, <1>12, <1>13 DEF Step

LEMMA RegisteredStep ==
    ASSUME IndInv, NEW t \in Threads,
           Step(t) \/ (\E k \in Keys, c \in BOOLEAN : Call(t, k, c))
    PROVE  Registered'
<1>1. \A u \in Threads : pc[u] \notin {"idle", "get"} =>
        holder[u] \in Holders /\ ref_count_[holder[u]] > 0
  BY CountedRef
<1>2. \A u \in Threads :
        /\ pc[t] \in {"ret", "drop"}
        /\ pc[u] \notin {"idle", "get"}
        /\ holder[u] = holder[t]
        /\ t # u \/ pc[t] = "ret"
        => ref_count_[holder[t]] # 1
  BY TwoRefs
<1> USE ConstantsAssumption, <1>1, <1>2 DEF IndInv, TypeOK, Goto, Registered, MapToLive, KeysAgree
<1>3. CASE \E k \in Keys, c \in BOOLEAN : Call(t, k, c)
  BY <1>3 DEF Call, holder_vars
<1>4. CASE GetNew(t)
  BY <1>4 DEF GetNew, NewHolder
<1>5. CASE GetNewFails(t)
  BY <1>5 DEF GetNewFails, NewHolder
<1>6. CASE GetOpened(t)
  BY <1>6 DEF GetOpened
<1>7. CASE CreateFails(t)
  BY <1>7 DEF CreateFails
<1>8. CASE Construct(t)
  BY <1>8 DEF Construct
<1>9. CASE Acquire(t)
  BY <1>9 DEF Acquire
<1>10. CASE Return(t)
  BY <1>10 DEF Return, RemoveRef
<1>11. CASE Close(t)
  BY <1>11 DEF Close
<1>12. CASE Unlock(t)
  BY <1>12 DEF Unlock
<1>13. CASE Drop(t)
  BY <1>13 DEF Drop, RemoveRef
<1>14. QED
  BY <1>3, <1>4, <1>5, <1>6, <1>7, <1>8, <1>9, <1>10, <1>11, <1>12, <1>13 DEF Step

LEMMA StepIndInv == IndInv /\ [Next]_vars => IndInv'
<1> SUFFICES ASSUME IndInv, [Next]_vars
             PROVE  IndInv'
  OBVIOUS
<1>1. ASSUME NEW t \in Threads,
             Step(t) \/ (\E k \in Keys, c \in BOOLEAN : Call(t, k, c))
      PROVE  IndInv'
  <2>1. TypeOK' /\ RefCountExact' /\ LockCountCovers'
    BY <1>1, TypeOKStep, RefCountStep, LockCountStep
  <2>2. MapToLive' /\ KeysAgree' /\ LockOwned' /\ Registered'
    BY <1>1, MapToLiveStep, KeysAgreeStep, LockOwnedStep, RegisteredStep
  <2>3. QED
    BY <2>1, <2>2 DEF IndInv
<1>2. CASE UNCHANGED vars
  BY <1>2 DEF vars, holder_vars, IndInv, TypeOK, RefCountExact, Refs, LocalRefs,
       TransactionRefs, LocalRef, TransactionRef, LockCountCovers, InLine, MapToLive,
       KeysAgree, LockOwned, HasLock, Registered
<1>3. QED
  BY <1>1, <1>2 DEF Next

\* The inductive invariant, for every instance.
THEOREM Invariance == Spec => []IndInv
BY InitIndInv, StepIndInv, PTL DEF Spec

-------------------------------------------------------------------------------
(***************************************************************************)
(* What follows from it.                                                   *)
(***************************************************************************)
\* The variables keep their types: no counter of a holder becomes negative.
THEOREM TypeCorrect == Spec => []TypeOK
<1>1. IndInv => TypeOK
  BY DEF IndInv
<1>2. QED
  BY <1>1, Invariance, PTL

\* No holder is used after its deletion, even if creating transactions fails.
THEOREM HoldersAlive == Spec => []NoDanglingHolder
<1>1. IndInv => NoDanglingHolder
  <2> SUFFICES ASSUME IndInv PROVE NoDanglingHolder
    OBVIOUS
  <2>1. \A h \in Holders : ref_count_[h] = 0 => lock_[h] = NoThread
    <3> SUFFICES ASSUME NEW h \in Holders, lock_[h] # NoThread
                 PROVE  ref_count_[h] # 0
      OBVIOUS
    <3>1. lock_[h] \in Threads /\ HasLock(lock_[h]) /\ holder[lock_[h]] = h
      BY DEF IndInv, TypeOK, LockOwned
    <3>2. ref_count_[holder[lock_[h]]] > 0
      BY <3>1, CountedRef DEF HasLock
    <3>3. QED
      BY <3>1, <3>2
  <2>2. QED
    BY <2>1, CountedRef DEF IndInv, MapToLive, NoDanglingHolder
<1>2. QED
  BY <1>1, Invariance, PTL

\* One transaction per key at any time, unless the creation of a holder fails.
THEOREM MutualExclusion ==
    ASSUME FailNew = {}
    PROVE  Spec => []OneTransactionPerKey
<1>1. IndInv => OneTransactionPerKey
  <2> SUFFICES ASSUME IndInv, NEW t \in Threads, NEW u \in Threads,
                      HasLock(t), HasLock(u), key[t] = key[u]
               PROVE  t = u
    BY DEF OneTransactionPerKey
  <2>1. holder[t] = holder[u]
    BY DEF IndInv, Registered, HasLock
  <2>2. QED
    BY <2>1 DEF IndInv, LockOwned
<1>2. QED
  BY <1>1, Invariance, PTL

\* lock_count_ bounds the line for a key, even if creating transactions fails.
THEOREM WaitersCounted == Spec => []LockCountCovers
<1>1. IndInv => LockCountCovers
  BY DEF IndInv
<1>2. QED
  BY <1>1, Invariance, PTL

\* Whenever no thread is inside, the map is empty and every holder is deleted.
THEOREM NoLeak == Spec => []NothingLeaks
<1>1. IndInv => NothingLeaks
  <2> SUFFICES ASSUME IndInv, \A t \in Threads : pc[t] \in {"idle", "get"}
               PROVE  /\ \A k \in Keys : open_transaction_map_[k] = NoHolder
                      /\ \A h \in Holders : ref_count_[h] = 0
    BY DEF NothingLeaks
  <2>1. \A h \in Holders : LocalRefs(h) = {} /\ TransactionRefs(h) = {}
    BY DEF LocalRefs, TransactionRefs, LocalRef, TransactionRef
  <2>2. \A h \in Holders : ref_count_[h] = 0
    BY <2>1, FS_EmptySet DEF IndInv, RefCountExact, Refs
  <2>3. QED
    BY <2>2 DEF IndInv, TypeOK, MapToLive
<1>2. QED
  BY <1>1, Invariance, PTL

\* Who finds a holder's mutex locked waits for a transaction on its own key, open
\* or about to be closed by another thread, and not for one that waits itself: no
\* mutex is left locked, and threads that open one transaction at a time, as those
\* of the model do, never wait for each other in a circle.
THEOREM BlockedByTransaction ==
    Spec => [](\A t \in Threads : pc[t] = "lock" /\ lock_[holder[t]] # NoThread =>
                 \E u \in Threads \ {t} : HasLock(u) /\ holder[u] = holder[t] /\ key[u] = key[t])
<1>1. IndInv => \A t \in Threads : pc[t] = "lock" /\ lock_[holder[t]] # NoThread =>
                 \E u \in Threads \ {t} : HasLock(u) /\ holder[u] = holder[t] /\ key[u] = key[t]
  <2> SUFFICES ASSUME IndInv, NEW t \in Threads, pc[t] = "lock", lock_[holder[t]] # NoThread
               PROVE  \E u \in Threads \ {t} :
                        HasLock(u) /\ holder[u] = holder[t] /\ key[u] = key[t]
    OBVIOUS
  <2>1. holder[t] \in Holders
    BY DEF IndInv, TypeOK
  <2>2. PICK u \in Threads : u = lock_[holder[t]]
    BY <2>1 DEF IndInv, TypeOK
  <2>3. HasLock(u) /\ holder[u] = holder[t]
    BY <2>1, <2>2 DEF IndInv, LockOwned
  <2>4. u # t
    BY <2>3 DEF HasLock
  <2>5. key[u] = key[t]
    BY <2>3 DEF IndInv, KeysAgree, HasLock
  <2>6. QED
    BY <2>3, <2>4, <2>5
<1>2. QED
  BY <1>1, Invariance, PTL

\* The map implements one mutex for every key whose new holders do not fail.
THEOREM Refinement == Spec => ImplementsKeyMutex
<1>1. Init => PerKey!Init
  BY DEF Init, PerKey!Init, Users, HasLock
<1>2. ASSUME IndInv, [Next]_vars
      PROVE  PerKey!Next \/ \A k \in Keys \ FailNew : Users(k)' = Users(k)
  <2>1. CASE UNCHANGED vars
    BY <2>1 DEF vars, Users, HasLock
  <2>2. ASSUME NEW t \in Threads,
               Step(t) \/ (\E k \in Keys, c \in BOOLEAN : Call(t, k, c))
        PROVE  PerKey!Next \/ \A k \in Keys \ FailNew : Users(k)' = Users(k)
    <3>1. \A u \in Threads \ {t} :
            pc'[u] = pc[u] /\ holder'[u] = holder[u] /\ key'[u] = key[u]
      BY <1>2, <2>2, StepFrame DEF IndInv, OthersKeep
    <3>2. CASE HasLock(t)' = HasLock(t) /\ (HasLock(t) => key'[t] = key[t])
      BY <3>1, <3>2 DEF Users, HasLock
    <3>3. CASE key[t] \in FailNew /\ key'[t] = key[t]
      BY <3>1, <3>3 DEF Users, HasLock
    <3>4. CASE key[t] \notin FailNew /\ (GetNew(t) \/ Acquire(t))
      <4>1. /\ key[t] \in Keys /\ key'[t] = key[t]
            /\ pc[t] \notin {"ret", "open", "unlock"} /\ pc'[t] = "ret"
        BY <1>2, <3>4 DEF GetNew, Acquire, Goto, IndInv, TypeOK
      <4>2. \A u \in Threads : ~(HasLock(u) /\ key[u] = key[t])
        BY <1>2, <3>4, ConstantsAssumption
        DEF GetNew, Acquire, Goto, IndInv, TypeOK, Registered, LockOwned, HasLock
      <4>3. Users(key[t]) = {} /\ Users(key[t])' = {t}
        BY <3>1, <4>1, <4>2 DEF Users, HasLock
      <4>4. \A k \in Keys \ {key[t]} : Users(k)' = Users(k)
        BY <3>1, <4>1 DEF Users, HasLock
      <4>5. PerKey!Open(t, key[t])
        BY <3>4, <4>1, <4>3, <4>4 DEF PerKey!Open
      <4>6. QED
        BY <3>4, <4>1, <4>5 DEF PerKey!Next
    <3>5. CASE key[t] \notin FailNew /\ Unlock(t)
      <4>1. /\ key[t] \in Keys /\ key'[t] = key[t]
            /\ pc[t] = "unlock" /\ pc'[t] = "drop"
        BY <1>2, <3>5 DEF Unlock, Goto, IndInv, TypeOK
      <4>2. \A u \in Threads : HasLock(u) /\ key[u] = key[t] => u = t
        BY <1>2, <3>5, <4>1 DEF IndInv, TypeOK, Registered, LockOwned, HasLock
      <4>3. Users(key[t]) = {t} /\ Users(key[t])' = {}
        BY <3>1, <4>1, <4>2 DEF Users, HasLock
      <4>4. \A k \in Keys \ {key[t]} : Users(k)' = Users(k)
        BY <3>1, <4>1 DEF Users, HasLock
      <4>5. PerKey!Close(t, key[t])
        BY <3>5, <4>1, <4>3, <4>4 DEF PerKey!Close
      <4>6. QED
        BY <3>5, <4>1, <4>5 DEF PerKey!Next
    <3>6. QED
      <4>1. CASE \E k \in Keys, c \in BOOLEAN : Call(t, k, c)
        BY <1>2, <3>2, <4>1 DEF Call, Goto, IndInv, TypeOK, HasLock
      <4>2. CASE GetNewFails(t) \/ GetOpened(t) \/ CreateFails(t) \/ Construct(t)
        BY <1>2, <3>2, <4>2 DEF GetNewFails, GetOpened, CreateFails, Construct, Goto, IndInv,
             TypeOK, HasLock
      <4>3. CASE Return(t) \/ Close(t) \/ Drop(t)
        BY <1>2, <3>2, <4>3 DEF Return, Close, Drop, Goto, IndInv, TypeOK, HasLock
      <4>4. CASE GetNew(t) \/ Acquire(t) \/ Unlock(t)
        <5>1. key'[t] = key[t]
          BY <4>4 DEF GetNew, Acquire, Unlock
        <5>2. QED
          BY <3>3, <3>4, <3>5, <4>4, <5>1
      <4>5. QED
        BY <2>2, <4>1, <4>2, <4>3, <4>4 DEF Step
  <2>3. QED
    BY <1>2, <2>1, <2>2 DEF Next
<1>3. ASSUME IndInv, [Next]_vars
      PROVE  [PerKey!Next]_([k \in Keys \ FailNew |-> Users(k)])
  BY <1>2, <1>3
<1>4. QED
  BY <1>1, <1>3, Invariance, PTL DEF Spec, ImplementsKeyMutex, PerKey!Spec

\* At most max_waiters_ callers that check the limit are in line for a key.
THEOREM WaitersBounded == Spec => []CheckedWaitersBounded
<1>1. Init => CheckedWaitersBounded
  <2> SUFFICES ASSUME Init PROVE CheckedWaitersBounded
    OBVIOUS
  <2>1. \A h \in Holders : CheckedInLine(h) = {}
    BY DEF Init, CheckedInLine, InLine
  <2>2. \A h \in Holders : Cardinality(CheckedInLine(h)) = 0
    BY <2>1, FS_EmptySet
  <2>3. QED
    BY <2>2, ConstantsAssumption DEF CheckedWaitersBounded
<1>2. IndInv /\ CheckedWaitersBounded /\ [Next]_vars => CheckedWaitersBounded'
  <2> SUFFICES ASSUME IndInv, CheckedWaitersBounded, [Next]_vars,
                      max_waiters_ # 0, NEW h \in Holders
               PROVE  Cardinality(CheckedInLine(h)') <= max_waiters_
    BY DEF CheckedWaitersBounded
  <2>1. CASE UNCHANGED vars
    BY <2>1 DEF vars, CheckedWaitersBounded, CheckedInLine, InLine
  <2>2. ASSUME NEW t \in Threads,
               Step(t) \/ (\E k \in Keys, c \in BOOLEAN : Call(t, k, c))
        PROVE  Cardinality(CheckedInLine(h)') <= max_waiters_
    <3>1. \A u \in Threads \ {t} :
            pc'[u] = pc[u] /\ holder'[u] = holder[u] /\ check'[u] = check[u]
      BY <2>2 DEF IndInv, TypeOK, Step, Call, GetNew, GetNewFails, GetOpened, CreateFails,
           Construct, Acquire, Return, Close, Unlock, Drop, NewHolder, Goto
    <3>2. CheckedInLine(h)' \ {t} = CheckedInLine(h) \ {t}
      BY <3>1 DEF CheckedInLine, InLine
    <3>3. /\ IsFiniteSet(InLine(h))
          /\ Cardinality(InLine(h)) \in Nat
          /\ IsFiniteSet(CheckedInLine(h))
          /\ Cardinality(CheckedInLine(h)) \in Nat
          /\ Cardinality(CheckedInLine(h)) <= Cardinality(InLine(h))
      BY ThreadSetsFinite, FS_Subset DEF CheckedInLine, InLine
    <3>4. /\ Cardinality(CheckedInLine(h)') \in Nat
          /\ Cardinality(CheckedInLine(h)') = Cardinality(CheckedInLine(h))
               + (IF t \in CheckedInLine(h)' THEN 1 ELSE 0)
               - (IF t \in CheckedInLine(h) THEN 1 ELSE 0)
      BY <3>2, <3>3, CountChange
    <3>5. Cardinality(CheckedInLine(h)) <= max_waiters_
      BY DEF CheckedWaitersBounded
    <3>6. CASE t \in CheckedInLine(h)' => t \in CheckedInLine(h)
      BY <3>3, <3>4, <3>5, <3>6, ConstantsAssumption
    <3>7. CASE t \in CheckedInLine(h)' /\ t \notin CheckedInLine(h)
      <4>1. Cardinality(InLine(h)) < max_waiters_
        <5>1. CASE GetNew(t)
          <6>1. ref_count_[h] = 0
            BY <3>7, <5>1 DEF GetNew, NewHolder, CheckedInLine, InLine, IndInv, TypeOK
          <6>2. InLine(h) = {}
            BY <6>1, CountedRef DEF InLine
          <6>3. QED
            BY <6>2, FS_EmptySet, ConstantsAssumption
        <5>2. CASE GetOpened(t)
          <6>1. lock_count_[h] < max_waiters_
            BY <3>7, <5>2, ConstantsAssumption
            DEF GetOpened, MaxWaitersReached, Goto, CheckedInLine, InLine, IndInv, TypeOK
          <6>2. lock_count_[h] >= Cardinality(InLine(h)) /\ lock_count_[h] \in Nat
            BY DEF IndInv, TypeOK, LockCountCovers
          <6>3. QED
            BY <3>3, <6>1, <6>2, ConstantsAssumption
        <5>3. QED
          BY <2>2, <3>7, <5>1, <5>2 DEF Step, Call, GetNewFails, CreateFails, Construct,
             Acquire, Return, Close, Unlock, Drop, Goto, CheckedInLine, InLine, IndInv, TypeOK
      <4>2. QED
        BY <3>3, <3>4, <3>7, <4>1, ConstantsAssumption
    <3>8. QED
      BY <3>6, <3>7
  <2>3. QED
    BY <2>1, <2>2 DEF Next
<1>3. QED
  BY <1>1, <1>2, Invariance, PTL DEF Spec

===============================================================================
