------------------------ MODULE CompositeActiveObject ------------------------
(* Gears::CompositeActiveObject (Threading/CompositeActiveObject.cpp): starts
   the active objects that were added to it first to last and stops them last to
   first.  Its operations hold lock_ to their end, but for wait_object, which
   waits for the children without it.  A child is an active object as Lifecycle
   describes it, reduced to its state: "stopping" is told to stop with threads
   that still work, "ended" has no working thread left and was not waited for.

   Any operation of a child may throw, and leaves the child as it was then.
   Children that belong to nobody are active or not when they are added, as the
   comment of add_child_object demands.                                        *)
EXTENDS Integers, Sequences, FiniteSets, SequencesExt

CONSTANTS
    Users,        \* threads that use the composite
    Waiters,      \* those of them that call wait_object and clear_children
    Children,
    NoUser,       \* lock_ is free
    MaxFailures   \* bound: operations of children that throw

ASSUME ConstantsAssumption ==
    /\ Waiters \subseteq Users
    /\ NoUser \notin Users
    /\ MaxFailures \in Nat

VARIABLES
    lock_, active_state_, synchronous_, child_objects_,
    child,      \* the state of every child
    woken,      \* users that sleep in deactivated_ and were woken
    failures,   \* operations of children that have thrown
    \* where a user is, which operation it is in, the children it has still to
    \* handle, those it will wait for (or has started), and whether one has thrown
    pc, op, todo, list, errors

locals == <<pc, op, todo, list, errors>>
vars == <<lock_, active_state_, synchronous_, child_objects_, child, woken, failures, locals>>

Init ==
    /\ lock_ = NoUser /\ active_state_ = "not_active" /\ synchronous_ \in BOOLEAN
    /\ child_objects_ = <<>>
    /\ child = [c \in Children |-> "not_active"]
    /\ woken = {} /\ failures = 0
    /\ pc = [u \in Users |-> "idle"] /\ op = [u \in Users |-> "none"]
    /\ todo = [u \in Users |-> <<>>] /\ list = [u \in Users |-> <<>>]
    /\ errors = [u \in Users |-> FALSE]

Owned == ToSet(child_objects_)

\* Mutant: the children are stopped in the order they were started in.
FirstFirst(children) == children

LastFirst(children) == Reverse(children)

-----------------------------------------------------------------------------
(* Where a user goes; lock_ stays with a user until Leave.                   *)

At(u, place) == pc' = [pc EXCEPT ![u] = place]
Todo(u, children) == todo' = [todo EXCEPT ![u] = children]

Enter(u) == pc[u] = "idle" /\ lock_ = NoUser
Does(u, name) == op' = [op EXCEPT ![u] = name]

Returns(u) ==
    /\ At(u, "idle")
    /\ Todo(u, <<>>)
    /\ list' = [list EXCEPT ![u] = <<>>]
    /\ errors' = [errors EXCEPT ![u] = FALSE]
    /\ Does(u, "none")

Leave(u) == Returns(u) /\ lock_' = NoUser

Becomes(c, state) == child' = [child EXCEPT ![c] = state]
Throws == failures < MaxFailures /\ failures' = failures + 1 /\ UNCHANGED child
Error(u) == errors' = [errors EXCEPT ![u] = TRUE]

\* Mutant: nobody is told of a deactivation.
BroadcastForgotten == UNCHANGED woken

Broadcast == woken' = woken \cup {u \in Users : pc[u] = "sleep"}

\* A child's wait_object returns.
Waited(c) == child[c] \in {"ended", "not_active"} /\ Becomes(c, "not_active")

-----------------------------------------------------------------------------

\* deactivate_object_i() for an active composite: the waiting users are woken,
\* and will find the lock taken until all children were told to stop.
BeginStop(u, children) ==
    /\ Broadcast
    /\ lock_' = u
    /\ At(u, "stop")
    /\ Todo(u, children)
    /\ list' = [list EXCEPT ![u] = children]
    /\ UNCHANGED errors

\* A composite that is not "not_active" throws.
activate_object(u) ==
    /\ Enter(u) /\ active_state_ = "not_active"
    /\ Does(u, "activate")
    /\ lock_' = u
    /\ At(u, "start")
    /\ Todo(u, child_objects_)
    /\ UNCHANGED <<active_state_, synchronous_, child_objects_, child, woken, failures, list,
                   errors>>

\* list[u] has the children started, the last one first.
StartChild(u) ==
    /\ pc[u] = "start" /\ todo[u] /= <<>>
    /\ LET c == Head(todo[u])
       IN  /\ child[c] = "not_active"
           /\ Becomes(c, "active")
           /\ list' = [list EXCEPT ![u] = <<c>> \o @]
    /\ Todo(u, Tail(todo[u]))
    /\ UNCHANGED <<lock_, active_state_, synchronous_, child_objects_, woken, failures, pc, op,
                   errors>>

\* The child throws, of itself or because it is not "not_active": those that
\* were started are stopped again.
StartFails(u) ==
    /\ pc[u] = "start" /\ todo[u] /= <<>>
    /\ \/ Throws
       \/ child[Head(todo[u])] /= "not_active" /\ UNCHANGED <<child, failures>>
    /\ active_state_' = "active"
    /\ BeginStop(u, list[u])
    /\ UNCHANGED <<synchronous_, child_objects_, op>>

Started(u) ==
    /\ pc[u] = "start" /\ todo[u] = <<>>
    /\ active_state_' = "active"
    /\ Leave(u)
    /\ UNCHANGED <<synchronous_, child_objects_, child, woken, failures>>

\* Nothing happens to a composite that is not active.
deactivate_object(u) ==
    /\ Enter(u) /\ active_state_ = "active"
    /\ Does(u, "deactivate")
    /\ BeginStop(u, LastFirst(child_objects_))
    /\ UNCHANGED <<active_state_, synchronous_, child_objects_, child, failures>>

\* The loop goes on after a child that throws.
StopChild(u) ==
    /\ pc[u] = "stop" /\ todo[u] /= <<>>
    /\ LET c == Head(todo[u])
       IN  \/ /\ Becomes(c, IF child[c] = "active" THEN "stopping" ELSE child[c])
              /\ IF synchronous_ THEN At(u, "sync") /\ UNCHANGED todo
                 ELSE Todo(u, Tail(todo[u])) /\ UNCHANGED pc
              /\ UNCHANGED <<failures, errors>>
           \/ Throws /\ Error(u) /\ Todo(u, Tail(todo[u])) /\ UNCHANGED pc
    /\ UNCHANGED <<lock_, active_state_, synchronous_, child_objects_, woken, op, list>>

WaitAtOnce(u) ==
    /\ pc[u] = "sync"
    /\ \/ Waited(Head(todo[u])) /\ UNCHANGED <<failures, errors>>
       \/ Throws /\ Error(u)
    /\ Todo(u, Tail(todo[u]))
    /\ At(u, "stop")
    /\ UNCHANGED <<lock_, active_state_, synchronous_, child_objects_, woken, op, list>>

\* Mutant: an activation that failed does not wait for what it had started.
StoppedAtOnce(u) ==
    /\ pc[u] = "stop" /\ todo[u] = <<>>
    /\ active_state_' = CASE op[u] = "activate" -> "not_active"
                          [] errors[u] -> "active"
                          [] OTHER -> "deactivating"
    /\ IF errors[u] \/ op[u] \in {"deactivate", "activate"} THEN Leave(u)
       ELSE At(u, "join") /\ Todo(u, list[u]) /\ UNCHANGED <<lock_, list, errors, op>>
    /\ UNCHANGED <<synchronous_, child_objects_, child, woken, failures>>

\* Mutant: a child that could not be told to stop does not keep it active.
StoppedAnyway(u) ==
    /\ pc[u] = "stop" /\ todo[u] = <<>>
    /\ active_state_' = IF errors[u] /\ op[u] = "activate" THEN "not_active" ELSE "deactivating"
    /\ IF errors[u] \/ op[u] = "deactivate" THEN Leave(u)
       ELSE At(u, "join") /\ Todo(u, list[u]) /\ UNCHANGED <<lock_, list, errors, op>>
    /\ UNCHANGED <<synchronous_, child_objects_, child, woken, failures>>

\* The end of deactivate_object_i(): it throws if a child has, and the composite
\* stays active, unless this was an activation that failed.
Stopped(u) ==
    /\ pc[u] = "stop" /\ todo[u] = <<>>
    /\ active_state_' = CASE errors[u] /\ op[u] = "activate" -> "not_active"
                          [] errors[u] /\ op[u] /= "activate" -> "active"
                          [] ~errors[u] -> "deactivating"
    /\ IF errors[u] \/ op[u] = "deactivate" THEN Leave(u)
       ELSE At(u, "join") /\ Todo(u, list[u]) /\ UNCHANGED <<lock_, list, errors, op>>
    /\ UNCHANGED <<synchronous_, child_objects_, child, woken, failures>>

\* wait_for_some_objects(); the first child that throws is waited for again.
JoinChild(u) ==
    /\ pc[u] = "join" /\ todo[u] /= <<>>
    /\ \/ Waited(Head(todo[u])) /\ Todo(u, Tail(todo[u])) /\ UNCHANGED <<failures, errors>>
       \/ Throws /\ Error(u) /\ Todo(u, IF errors[u] THEN Tail(todo[u]) ELSE todo[u])
    /\ UNCHANGED <<lock_, active_state_, synchronous_, child_objects_, woken, pc, op, list>>

JoinedUnderLock(u) ==
    /\ pc[u] = "join" /\ todo[u] = <<>>
    /\ op[u] \in {"activate", "clear"}
    /\ IF op[u] = "clear" /\ errors[u] THEN UNCHANGED <<active_state_, child_objects_>>
       ELSE /\ active_state_' = "not_active"
            /\ child_objects_' = IF op[u] = "clear" THEN <<>> ELSE child_objects_
    /\ Leave(u)
    /\ UNCHANGED <<synchronous_, child, woken, failures>>

-----------------------------------------------------------------------------
(* wait_object()                                                             *)

\* What a user with the lock does: it sleeps, returns, or begins to wait for a
\* copy of the children, without the lock.
Look(u) ==
    /\ lock_ = NoUser
    /\ At(u, CASE active_state_ = "active" -> "sleep"
               [] active_state_ = "deactivating" -> "join"
               [] active_state_ = "not_active" -> "idle")
    /\ Todo(u, IF active_state_ = "deactivating" THEN LastFirst(child_objects_) ELSE <<>>)
    /\ Does(u, IF active_state_ = "not_active" THEN "none" ELSE "wait")
    /\ woken' = woken \ {u}
    /\ UNCHANGED <<lock_, active_state_, synchronous_, child_objects_, child, failures, list,
                   errors>>

wait_object(u) == pc[u] = "idle" /\ active_state_ /= "not_active" /\ Look(u)

WakeUp(u) == pc[u] = "sleep" /\ u \in woken /\ Look(u)

SpuriousWakeup(u) == pc[u] = "sleep" /\ u \notin woken /\ Look(u)

\* It throws, without the lock, if a child has.
EndWait(u) ==
    /\ pc[u] = "join" /\ todo[u] = <<>>
    /\ op[u] = "wait"
    /\ \/ /\ ~errors[u] /\ lock_ = NoUser
          /\ active_state_' = IF active_state_ = "deactivating" THEN "not_active" ELSE active_state_
       \/ errors[u] /\ UNCHANGED active_state_
    /\ Returns(u)
    /\ UNCHANGED lock_
    /\ UNCHANGED <<synchronous_, child_objects_, child, woken, failures>>

-----------------------------------------------------------------------------
(* The list of children.                                                     *)

Push(c) == child_objects_' = Append(child_objects_, c)

\* A child of an active composite is activated unless it is active, and a child
\* that throws is not added.
AddToActive(u, c) ==
    /\ Enter(u) /\ active_state_ = "active"
    /\ c \notin Owned
    /\ child[c] \in {"active", "not_active"}
    /\ \/ Becomes(c, "active") /\ Push(c) /\ UNCHANGED failures
       \/ child[c] = "not_active" /\ Throws /\ UNCHANGED child_objects_
    /\ UNCHANGED <<lock_, active_state_, synchronous_, woken, locals>>

AddToInactive(u, c) ==
    /\ Enter(u) /\ active_state_ /= "active"
    /\ c \notin Owned
    /\ \/ /\ child[c] = "not_active" /\ Push(c)
          /\ UNCHANGED <<lock_, child, failures, pc, op, todo>>
       \/ /\ child[c] = "active" /\ Becomes(c, "stopping")
          /\ lock_' = u /\ At(u, "adopt") /\ Does(u, "add") /\ Todo(u, <<c>>)
          /\ UNCHANGED <<child_objects_, failures>>
    /\ UNCHANGED <<active_state_, synchronous_, woken, list, errors>>

\* The active child of a composite that is not is stopped with lock_ held.
Adopt(u) ==
    /\ pc[u] = "adopt"
    /\ \/ Waited(Head(todo[u])) /\ Push(Head(todo[u])) /\ UNCHANGED failures
       \/ Throws /\ UNCHANGED child_objects_
    /\ Leave(u)
    /\ UNCHANGED <<active_state_, synchronous_, woken>>

clear_children(u) ==
    /\ Enter(u)
    /\ UNCHANGED <<active_state_, synchronous_, child, failures>>
    /\ CASE active_state_ = "active" ->
                /\ Does(u, "clear") /\ BeginStop(u, LastFirst(child_objects_))
                /\ UNCHANGED child_objects_
         [] active_state_ = "deactivating" ->
                /\ Does(u, "clear") /\ lock_' = u
                /\ At(u, "join") /\ Todo(u, LastFirst(child_objects_))
                /\ UNCHANGED <<child_objects_, woken, list, errors>>
         [] active_state_ = "not_active" ->
                child_objects_' = <<>> /\ UNCHANGED <<lock_, woken, locals>>

-----------------------------------------------------------------------------

\* The threads of a child that was told to stop end; the user of a child that is
\* not in the composite starts it.
EndChild(c) ==
    /\ child[c] = "stopping" /\ Becomes(c, "ended")
    /\ UNCHANGED <<lock_, active_state_, synchronous_, child_objects_, woken, failures, locals>>

StartOutside(c) ==
    /\ c \notin Owned /\ \A u \in Users : pc[u] /= "adopt"
    /\ child[c] = "not_active" /\ Becomes(c, "active")
    /\ UNCHANGED <<lock_, active_state_, synchronous_, child_objects_, woken, failures, locals>>

\* What a user does inside of an operation.
Step(u) ==
    \/ StartChild(u) \/ StartFails(u) \/ Started(u)
    \/ StopChild(u) \/ WaitAtOnce(u) \/ Stopped(u)
    \/ JoinChild(u) \/ JoinedUnderLock(u)
    \/ WakeUp(u) \/ EndWait(u) \/ Adopt(u)

Call(u) ==
    \/ activate_object(u) \/ deactivate_object(u)
    \/ u \in Waiters /\ (wait_object(u) \/ clear_children(u))
    \/ \E c \in Children : AddToActive(u, c) \/ AddToInactive(u, c)

Next ==
    \/ \E u \in Users : Step(u) \/ Call(u) \/ SpuriousWakeup(u)
    \/ \E c \in Children : EndChild(c) \/ StartOutside(c)

\* Threads run, and the threads of a child that was told to stop end.
Spec ==
    /\ Init /\ [][Next]_vars
    /\ \A u \in Users : WF_vars(Step(u))
    /\ \A c \in Children : WF_vars(EndChild(c))

-----------------------------------------------------------------------------

\* A composite that is not active, and that nobody is about to activate, has no
\* child that works or was not waited for: it can be activated again.  One that
\* is deactivating has no child that was not told to stop, which a wait_object
\* would wait for in vain.  This is with users of which one ends deactivations,
\* and with one failure; a second waiter, who may end a deactivation later than
\* the one it has waited for, breaks it, as does a child that throws while a
\* failed activation is taken back.
StoppedMeansStopped ==
    /\ active_state_ = "not_active" /\ (\A u \in Users : op[u] /= "activate") =>
           \A c \in Owned : child[c] = "not_active"
    /\ active_state_ = "deactivating" => \A c \in Owned : child[c] /= "active"

\* "First added first activated, last added deactivated and joined first": no
\* child is in an earlier state of its life than one that was added after it,
\* and with synch_termination it is told to stop when the later ones are gone.
Level(c) ==
    IF child[c] = "active" THEN 2 ELSE IF child[c] = "not_active" THEN 0 ELSE 1

AddedOrder ==
    failures = 0 =>
        \A i, j \in DOMAIN child_objects_ : i < j =>
            /\ Level(child_objects_[i]) >= Level(child_objects_[j])
            /\ synchronous_ /\ Level(child_objects_[i]) = 1 => Level(child_objects_[j]) = 0

\* Whoever waits waits for what comes.  A user in wait_object does not sleep on
\* when a deactivation has begun or is over (its broadcast is one, for all of the
\* deactivation), and the child that a user waits for, with the lock or without,
\* was told to stop: an active child would never end, and all others would wait
\* for lock_ with it.  Children may throw in any of these operations.
NobodySleepsOn == \A u \in Users : pc[u] = "sleep" /\ active_state_ /= "active" => u \in woken

EndsAwaited ==
    \A u \in Users :
        pc[u] \in {"sync", "join", "adopt"} /\ todo[u] /= <<>> => child[Head(todo[u])] /= "active"

NobodyWaitsInVain == NobodySleepsOn /\ EndsAwaited

\* A user in wait_object returns once the composite is deactivated, also one that
\* slept when the deactivation began, and whoever adds children meanwhile.
WaitReturns ==
    \A u \in Waiters :
        (op[u] = "wait" /\ active_state_ = "deactivating") ~> (op[u] /= "wait")

-----------------------------------------------------------------------------
(* What holds while no child has thrown, with one waiter: the invariant that the
   proofs of CompositeActiveObjectProofs carry from step to step.            *)

Places == {"idle", "start", "stop", "sync", "join", "sleep", "adopt"}
Operations == {"none", "activate", "deactivate", "clear", "wait", "add"}
States == {"active", "stopping", "ended", "not_active"}

Types ==
    /\ lock_ \in Users \cup {NoUser}
    /\ active_state_ \in {"active", "deactivating", "not_active"}
    /\ synchronous_ \in BOOLEAN
    /\ child_objects_ \in Seq(Children)
    /\ child \in [Children -> States]
    /\ pc \in [Users -> Places]
    /\ op \in [Users -> Operations]
    /\ todo \in [Users -> Seq(Children)]
    /\ list \in [Users -> Seq(Children)]
    /\ errors = [u \in Users |-> FALSE]

OwnedOnce ==
    \A i, j \in DOMAIN child_objects_ : child_objects_[i] = child_objects_[j] => i = j

\* Which operation is where, and which of these places are under lock_.
Placed(u) ==
    /\ pc[u] = "start" <=> op[u] = "activate"
    /\ pc[u] \in {"stop", "sync"} => op[u] \in {"deactivate", "clear"}
    /\ pc[u] = "join" => op[u] \in {"wait", "clear"}
    /\ pc[u] = "adopt" => op[u] = "add"
    /\ pc[u] = "idle" => op[u] = "none"
    /\ pc[u] = "sleep" => op[u] = "wait"
    /\ op[u] \in {"wait", "clear"} => u \in Waiters

Locked(u) ==
    \/ pc[u] \in {"start", "stop", "sync", "adopt"}
    \/ pc[u] = "join" /\ op[u] = "clear"

LockHeld == \A u \in Users : Placed(u) /\ (lock_ = u <=> Locked(u))

\* s is the children up to the one at Len(s), the last one first.
LastOf(s) ==
    /\ Len(s) <= Len(child_objects_)
    /\ \A i \in 1 .. Len(s) : s[i] = child_objects_[Len(s) + 1 - i]

LevelAt(i) == Level(child_objects_[i])

\* How far a user has come with the children, and what the state says meanwhile.
Starting(u) ==
    /\ active_state_ = "not_active"
    /\ Len(list[u]) + Len(todo[u]) = Len(child_objects_)
    /\ LastOf(list[u])
    /\ \A i \in 1 .. Len(todo[u]) : todo[u][i] = child_objects_[Len(list[u]) + i]
    /\ \A i \in DOMAIN child_objects_ : LevelAt(i) = IF i <= Len(list[u]) THEN 2 ELSE 0

Stopping(u) ==
    /\ active_state_ = "active"
    /\ LastOf(todo[u])
    /\ Len(list[u]) = Len(child_objects_) /\ LastOf(list[u])
    /\ \A i \in DOMAIN child_objects_ :
          IF i < Len(todo[u]) \/ (i = Len(todo[u]) /\ pc[u] = "stop") THEN LevelAt(i) = 2
          ELSE /\ LevelAt(i) <= 1
               /\ synchronous_ /\ i > Len(todo[u]) => LevelAt(i) = 0
    /\ pc[u] = "sync" => synchronous_ /\ todo[u] /= <<>>

Joining(u) ==
    /\ active_state_ = "deactivating"
    /\ LastOf(todo[u])
    /\ \A i \in DOMAIN child_objects_ : i > Len(todo[u]) => LevelAt(i) = 0

Adopting(u) ==
    /\ active_state_ /= "active"
    /\ Len(todo[u]) = 1
    /\ todo[u][1] \notin Owned

Progress(u) ==
    /\ pc[u] \in {"idle", "sleep"} => list[u] = <<>>
    /\ pc[u] = "start" => Starting(u)
    /\ pc[u] \in {"stop", "sync"} => Stopping(u)
    /\ pc[u] = "join" => Joining(u)
    /\ pc[u] = "adopt" => Adopting(u)

\* What the state says of the children while nobody is at work on them.
AtRest ==
    /\ active_state_ = "active" /\ lock_ = NoUser => \A i \in DOMAIN child_objects_ : LevelAt(i) = 2
    /\ active_state_ = "deactivating" =>
           \A i \in DOMAIN child_objects_ : LevelAt(i) <= 1 /\ (synchronous_ => LevelAt(i) = 0)
    /\ active_state_ = "not_active" /\ (\A u \in Users : pc[u] /= "start") =>
           \A i \in DOMAIN child_objects_ : LevelAt(i) = 0

InOrder ==
    \A i, j \in DOMAIN child_objects_ : i < j =>
        /\ LevelAt(i) >= LevelAt(j)
        /\ synchronous_ /\ LevelAt(i) = 1 => LevelAt(j) = 0

Orderly == Types /\ OwnedOnce /\ LockHeld /\ (\A u \in Users : Progress(u)) /\ AtRest /\ InOrder

IndInv == failures \in Nat /\ (failures = 0 => Orderly)
=============================================================================
