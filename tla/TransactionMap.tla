---------------------------- MODULE TransactionMap ----------------------------
(***************************************************************************)
(* Gears::TransactionMap: one mutex per key, created on demand.            *)
(*                                                                         *)
(* A transaction on a key is an object that holds the key's                *)
(* TransactionHolder locked.  The holder is found through                  *)
(* open_transaction_map_, which keeps a raw pointer, is reference counted  *)
(* by the local variables and transactions of the threads that use it, and *)
(* takes its key out of the map and deletes itself with its last           *)
(* reference.  Every critical section of open_transaction_map_lock_ is one *)
(* step, as is every access to an atomic counter or to a holder's mutex    *)
(* outside of it.                                                          *)
(***************************************************************************)
EXTENDS Integers, FiniteSets

CONSTANTS
    Threads,        \* the threads that open transactions
    Keys,           \* the keys they open them on
    Holders,        \* addresses a TransactionHolder can be allocated at
    NoThread,       \* an unlocked mutex
    NoHolder,       \* a key that is not in open_transaction_map_
    max_waiters_,   \* limit of transactions on one key for callers that check; 0: none
    FailNew,        \* keys create_transaction_impl_ may throw for with a new holder
    FailOpened      \* may it throw for a holder found in the map?

ASSUME ConstantsAssumption ==
    /\ IsFiniteSet(Threads)
    /\ NoThread \notin Threads
    /\ NoHolder \notin Holders
    /\ max_waiters_ \in Nat
    /\ FailNew \subseteq Keys
    /\ FailOpened \in BOOLEAN

VARIABLES
    open_transaction_map_,  \* key -> address of its holder
    \* the fields of the holder at each address
    key_, ref_count_, lock_count_, lock_,
    \* a thread's place in get_transaction or in its transaction's life ...
    pc,
    \* ... and its locals: the arguments of get_transaction and the holder
    key, check, holder

holder_vars == <<key_, ref_count_, lock_count_, lock_>>
vars == <<open_transaction_map_, holder_vars, pc, key, check, holder>>

(***************************************************************************)
(* Where a thread can be.                                                  *)
(*   idle    no transaction, no call in progress                           *)
(*   get     in get_transaction, before open_transaction_map_lock_         *)
(*   create  found a holder, before create_transaction_impl_               *)
(*   lock    in the constructor of TransactionBase, before holder->lock_   *)
(*   ret     transaction constructed, local variable holder still alive    *)
(*   open    get_transaction returned the transaction                      *)
(*   unlock  in ~TransactionBase, after lock_count_ was decremented        *)
(*   drop    before the remove_ref of the last reference the thread has    *)
(***************************************************************************)
Locations == {"idle", "get", "create", "lock", "ret", "open", "unlock", "drop"}

\* The thread's transaction exists and holds the mutex of its holder.
HasLock(t) == pc[t] \in {"ret", "open", "unlock"}

\* The thread has a reference to holder[t] through its local variable ...
LocalRef(t) == pc[t] \in {"create", "lock", "ret"}
\* ... and through a transaction, or it is about to give up the last one.
TransactionRef(t) == pc[t] \in {"lock", "ret", "open", "unlock", "drop"}

Goto(t, from, to) ==
    /\ pc[t] = from
    /\ pc' = [pc EXCEPT ![t] = to]

-------------------------------------------------------------------------------
Init ==
    /\ open_transaction_map_ = [k \in Keys |-> NoHolder]
    /\ key_ \in [Holders -> Keys]        \* memory not yet constructed
    /\ ref_count_ = [h \in Holders |-> 0]
    /\ lock_count_ = [h \in Holders |-> 0]
    /\ lock_ = [h \in Holders |-> NoThread]
    /\ pc = [t \in Threads |-> "idle"]
    /\ key \in [Threads -> Keys]
    /\ check = [t \in Threads |-> FALSE]
    /\ holder = [t \in Threads |-> NoHolder]

\* get_transaction(k, c) is called.
Call(t, k, c) ==
    /\ Goto(t, "idle", "get")
    /\ key' = [key EXCEPT ![t] = k]
    /\ check' = [check EXCEPT ![t] = c]
    /\ UNCHANGED <<open_transaction_map_, holder_vars, holder>>

-------------------------------------------------------------------------------
\* Mutant: the entry is erased with the last reference but one, as if the map
\* had a reference of its own.
RemoveRefEarly(h) ==
    /\ ref_count_' = [ref_count_ EXCEPT ![h] = @ - 1]
    /\ open_transaction_map_' =
         IF ref_count_[h] <= 2
         THEN [open_transaction_map_ EXCEPT ![key_[h]] = NoHolder]
         ELSE open_transaction_map_

\* TransactionHolder::remove_ref with what it calls, under the map's lock: the
\* last reference erases the entry of the holder's key, whatever it points to.
RemoveRef(h) ==
    /\ ref_count_' = [ref_count_ EXCEPT ![h] = @ - 1]
    /\ open_transaction_map_' =
         IF ref_count_[h] = 1
         THEN [open_transaction_map_ EXCEPT ![key_[h]] = NoHolder]
         ELSE open_transaction_map_

\* new TransactionHolder(*this, key): any address that is not in use.
NewHolder(t, h, refs) ==
    /\ ref_count_[h] = 0
    /\ key_' = [key_ EXCEPT ![h] = key[t]]
    /\ ref_count_' = [ref_count_ EXCEPT ![h] = refs]
    /\ lock_count_' = [lock_count_ EXCEPT ![h] = 1]
    /\ holder' = [holder EXCEPT ![t] = h]

\* The key is not in the map: create a holder and, with its mutex locked, the
\* transaction, and insert the holder.
GetNew(t) ==
    /\ Goto(t, "get", "ret")
    /\ open_transaction_map_[key[t]] = NoHolder
    /\ \E h \in Holders :
         /\ NewHolder(t, h, 2)
         /\ lock_' = [lock_ EXCEPT ![h] = t]
         /\ open_transaction_map_' = [open_transaction_map_ EXCEPT ![key[t]] = h]
    /\ UNCHANGED <<key, check>>

\* The same, but create_transaction_impl_ throws: nothing was inserted, and the
\* local variable holder is destroyed after the map's lock is released.
GetNewFails(t) ==
    /\ key[t] \in FailNew
    /\ Goto(t, "get", "drop")
    /\ open_transaction_map_[key[t]] = NoHolder
    /\ \E h \in Holders :
         /\ NewHolder(t, h, 1)
         /\ lock_' = [lock_ EXCEPT ![h] = NoThread]
    /\ UNCHANGED <<open_transaction_map_, key, check>>

\* Mutant: one waiter too many.
MaxWaitersExceeded(t, h) ==
    /\ check[t]
    /\ max_waiters_ # 0
    /\ lock_count_[h] > max_waiters_

MaxWaitersReached(t, h) ==
    /\ check[t]
    /\ max_waiters_ # 0
    /\ lock_count_[h] >= max_waiters_

\* Mutant: the map's raw pointer is copied without adding a reference.
GetOpenedNoRef(t) ==
    /\ open_transaction_map_[key[t]] # NoHolder
    /\ LET h == open_transaction_map_[key[t]] IN
         /\ holder' = [holder EXCEPT ![t] = h]
         /\ \/ /\ MaxWaitersReached(t, h)
               /\ Goto(t, "get", "drop")
               /\ UNCHANGED lock_count_
            \/ /\ ~MaxWaitersReached(t, h)
               /\ Goto(t, "get", "create")
               /\ lock_count_' = [lock_count_ EXCEPT ![h] = @ + 1]
    /\ UNCHANGED <<open_transaction_map_, key_, ref_count_, lock_, key, check>>

\* The key is in the map: add a reference to its holder and join those that
\* wait for it, or give up because too many do.
GetOpened(t) ==
    /\ open_transaction_map_[key[t]] # NoHolder
    /\ LET h == open_transaction_map_[key[t]] IN
         /\ ref_count_' = [ref_count_ EXCEPT ![h] = @ + 1]
         /\ holder' = [holder EXCEPT ![t] = h]
         /\ \/ /\ MaxWaitersReached(t, h)
               /\ Goto(t, "get", "drop")
               /\ UNCHANGED lock_count_
            \/ /\ ~MaxWaitersReached(t, h)
               /\ Goto(t, "get", "create")
               /\ lock_count_' = [lock_count_ EXCEPT ![h] = @ + 1]
    /\ UNCHANGED <<open_transaction_map_, key_, lock_, key, check>>

\* Mutant: the handler of the exception forgets lock_count_.
CreateFailsStillCounted(t) ==
    /\ FailOpened
    /\ Goto(t, "create", "drop")
    /\ UNCHANGED <<open_transaction_map_, holder_vars, key, check, holder>>

\* create_transaction_impl_ throws before TransactionBase is constructed.
CreateFails(t) ==
    /\ FailOpened
    /\ Goto(t, "create", "drop")
    /\ lock_count_' = [lock_count_ EXCEPT ![holder[t]] = @ - 1]
    /\ UNCHANGED <<open_transaction_map_, key_, ref_count_, lock_, key, check, holder>>

\* TransactionBase(holder): take a reference, then block on the holder's mutex.
Construct(t) ==
    /\ Goto(t, "create", "lock")
    /\ ref_count_' = [ref_count_ EXCEPT ![holder[t]] = @ + 1]
    /\ UNCHANGED <<open_transaction_map_, key_, lock_count_, lock_, key, check, holder>>

Acquire(t) ==
    /\ Goto(t, "lock", "ret")
    /\ lock_[holder[t]] = NoThread
    /\ lock_' = [lock_ EXCEPT ![holder[t]] = t]
    /\ UNCHANGED <<open_transaction_map_, key_, ref_count_, lock_count_, key, check, holder>>

\* Mutant: the local variable is a raw pointer, its reference is never removed.
ReturnKeepsRef(t) ==
    /\ Goto(t, "ret", "open")
    /\ UNCHANGED <<open_transaction_map_, holder_vars, key, check, holder>>

\* get_transaction returns: its local variable holder is destroyed.
Return(t) ==
    /\ Goto(t, "ret", "open")
    /\ RemoveRef(holder[t])
    /\ UNCHANGED <<key_, lock_count_, lock_, key, check, holder>>

-------------------------------------------------------------------------------
\* ~TransactionBase: decrement the count, unlock (locker_), drop the reference
\* (holder_), in this order.
Close(t) ==
    /\ Goto(t, "open", "unlock")
    /\ lock_count_' = [lock_count_ EXCEPT ![holder[t]] = @ - 1]
    /\ UNCHANGED <<open_transaction_map_, key_, ref_count_, lock_, key, check, holder>>

\* Mutant: the holder's mutex stays locked.
UnlockForgotten(t) ==
    /\ Goto(t, "unlock", "drop")
    /\ UNCHANGED <<open_transaction_map_, holder_vars, key, check, holder>>

Unlock(t) ==
    /\ Goto(t, "unlock", "drop")
    /\ lock_' = [lock_ EXCEPT ![holder[t]] = NoThread]
    /\ UNCHANGED <<open_transaction_map_, key_, ref_count_, lock_count_, key, check, holder>>

\* The last reference of the thread: of the closed transaction, or of the local
\* variable holder when get_transaction throws.
Drop(t) ==
    /\ Goto(t, "drop", "idle")
    /\ RemoveRef(holder[t])
    /\ holder' = [holder EXCEPT ![t] = NoHolder]
    /\ UNCHANGED <<key_, lock_count_, lock_, key, check>>

\* What a thread does once it called get_transaction; when the transaction is
\* closed is up to its user.
Step(t) ==
    \/ GetNew(t) \/ GetNewFails(t) \/ GetOpened(t)
    \/ CreateFails(t) \/ Construct(t) \/ Acquire(t) \/ Return(t)
    \/ Close(t) \/ Unlock(t) \/ Drop(t)

Next ==
    \E t \in Threads :
      \/ \E k \in Keys, c \in BOOLEAN : Call(t, k, c)
      \/ Step(t)

Spec == Init /\ [][Next]_vars

\* A thread that can take a step takes it, and closes the transaction it has: no
\* more is assumed of the mutexes than that a free one is given to somebody.
FairSpec == Spec /\ \A t \in Threads : WF_vars(Step(t))

-------------------------------------------------------------------------------
TypeOK ==
    /\ open_transaction_map_ \in [Keys -> Holders \cup {NoHolder}]
    /\ key_ \in [Holders -> Keys]
    /\ ref_count_ \in [Holders -> Nat]
    /\ lock_count_ \in [Holders -> Nat]
    /\ lock_ \in [Holders -> Threads \cup {NoThread}]
    /\ pc \in [Threads -> Locations]
    /\ key \in [Threads -> Keys]
    /\ check \in [Threads -> BOOLEAN]
    /\ holder \in [Threads -> Holders \cup {NoHolder}]
    /\ \A t \in Threads : pc[t] \notin {"idle", "get"} => holder[t] \in Holders

\* No two threads have a transaction open on one key at the same time, whatever
\* the order in which holders are created, found, shared and deleted: what the
\* comment of TransactionMap demands ("only one Transaction object").
OneTransactionPerKey ==
    \A t, u \in Threads :
      t # u /\ HasLock(t) /\ HasLock(u) => key[t] # key[u]

\* No holder is used after it deleted itself: the raw pointers of the map and
\* the references of the threads lead to live holders, the map's to one of the
\* key looked up, and a holder is never deleted with its mutex locked.
NoDanglingHolder ==
    /\ \A k \in Keys : open_transaction_map_[k] # NoHolder =>
         /\ ref_count_[open_transaction_map_[k]] > 0
         /\ key_[open_transaction_map_[k]] = k
    /\ \A t \in Threads : pc[t] \notin {"idle", "get"} => ref_count_[holder[t]] > 0
    /\ \A h \in Holders : ref_count_[h] = 0 => lock_[h] = NoThread

\* The threads max_waiters_ counts: those that have a transaction on the holder
\* or wait for one.
InLine(h) ==
    {t \in Threads : pc[t] \in {"create", "lock", "ret", "open"} /\ holder[t] = h}

\* lock_count_ is incremented on one path and decremented on several, some of
\* them exceptional, outside the lock it is read under: it never misses a thread
\* in line, so that it stays non-negative and max_waiters_ bounds something, and
\* for a key whose new holders do not fail it is their number.
LockCountCovers ==
    \A h \in Holders :
      /\ lock_count_[h] >= Cardinality(InLine(h))
      /\ key_[h] \notin FailNew /\ ref_count_[h] > 0 => lock_count_[h] = Cardinality(InLine(h))

CheckedInLine(h) == {t \in InLine(h) : check[t]}

\* However many callers that do not check the limit come in between, at most
\* max_waiters_ of those that do are in line for one key.
CheckedWaitersBounded ==
    max_waiters_ # 0 =>
      \A h \in Holders :
        Cardinality(CheckedInLine(h)) <= max_waiters_

\* The map forgets every key that is no longer used: with no thread inside it
\* is empty and every holder is deleted.
NothingLeaks ==
    (\A t \in Threads : pc[t] \in {"idle", "get"}) =>
      /\ \A k \in Keys : open_transaction_map_[k] = NoHolder
      /\ \A h \in Holders : ref_count_[h] = 0

\* A thread that waits for a holder's mutex never waits for good while nobody else
\* gets it: no mutex is left locked and no waiter is left with a holder that the
\* others have forgotten.
SomebodyGetsIn ==
    \A k \in Keys :
      (\E t \in Threads : pc[t] = "lock" /\ key[t] = k)
        ~> (\E t \in Threads : pc[t] = "ret" /\ key[t] = k)

Users(k) == {t \in Threads : HasLock(t) /\ key[t] = k}

PerKey == INSTANCE KeyMutex
            WITH Keys <- Keys \ FailNew, opened <- [k \in Keys \ FailNew |-> Users(k)]

\* The map implements one mutex for every key whose new holders do not fail,
\* whatever happens to the other keys.
ImplementsKeyMutex == PerKey!Spec

-------------------------------------------------------------------------------
(***************************************************************************)
(* The inductive invariant behind these properties.                        *)
(***************************************************************************)
LocalRefs(h) == {t \in Threads : LocalRef(t) /\ holder[t] = h}
TransactionRefs(h) == {t \in Threads : TransactionRef(t) /\ holder[t] = h}
Refs(h) == Cardinality(LocalRefs(h)) + Cardinality(TransactionRefs(h))

\* ref_count_ counts the local variables and transactions that point to a holder.
RefCountExact == \A h \in Holders : ref_count_[h] = Refs(h)

\* The map's pointers lead to live holders of the key looked up.
MapToLive ==
    \A k \in Keys : open_transaction_map_[k] # NoHolder =>
      /\ ref_count_[open_transaction_map_[k]] > 0
      /\ key_[open_transaction_map_[k]] = k

\* A thread's holder was created for the key it asked for.
KeysAgree ==
    \A t \in Threads : pc[t] \notin {"idle", "get"} => key_[holder[t]] = key[t]

\* A holder's mutex is locked by the thread whose transaction it is, and only then.
LockOwned ==
    /\ \A t \in Threads : HasLock(t) => lock_[holder[t]] = t
    /\ \A h \in Holders : lock_[h] # NoThread =>
         HasLock(lock_[h]) /\ holder[lock_[h]] = h

\* A thread's holder is the one in the map: what a failing creation destroys.
Registered ==
    \A t \in Threads :
      pc[t] \notin {"idle", "get"} /\ key[t] \notin FailNew =>
        open_transaction_map_[key[t]] = holder[t]

IndInv ==
    /\ TypeOK
    /\ RefCountExact
    /\ LockCountCovers
    /\ MapToLive
    /\ KeysAgree
    /\ LockOwned
    /\ Registered

===============================================================================
