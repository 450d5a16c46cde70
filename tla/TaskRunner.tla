------------------------------- MODULE TaskRunner -------------------------------
(***************************************************************************)
(* Gears::TaskRunner: an active object whose job takes tasks from one      *)
(* queue.                                                                  *)
(*                                                                         *)
(* new_task_ has a token for every task of the queue, and terminate() adds *)
(* one for every thread.  Tokens are not labelled: a thread takes any of   *)
(* them before it locks the mutex, and learns only then whether it has to  *)
(* return or to take a task, which the code asserts to be there.           *)
(***************************************************************************)
EXTENDS ActiveObject, Sequences, SequencesExt

CONSTANTS
    Producers,          \* threads that call enqueue_task
    Tasks,              \* the tasks they enqueue, each of them once
    NoTask,             \* an empty task variable
    max_pending_tasks,  \* limit of the queue, 0: none
    PushMayFail,        \* may tasks_.push_back throw?
    MayClear            \* is clear() called?

ASSUME TaskRunnerAssumption ==
    /\ IsFiniteSet(Producers)
    /\ NoTask \notin Tasks
    /\ max_pending_tasks \in Nat
    /\ PushMayFail \in BOOLEAN
    /\ MayClear \in BOOLEAN

VARIABLES
    tasks_, new_task_, not_full_,
    at,         \* where in work() a thread is
    task,       \* its local variable task
    enqueue,    \* where in enqueue_task a producer is
    argument,   \* and the task it enqueues
    unused,     \* tasks not yet accepted
    executed,   \* tasks executed
    dropped     \* history: tasks that clear() dropped

queue_vars == <<tasks_, new_task_, not_full_, at, task, enqueue, argument, unused, executed, dropped>>
runner_state == <<vars, queue_vars>>

LIMITED_ == max_pending_tasks # 0

(***************************************************************************)
(* In work() a thread is at the top of the loop, has acquired a token, has *)
(* popped a task and not yet released not_full_, or executes the task.  In *)
(* enqueue_task a producer is before the test of the limit, before         *)
(* push_back or before the token is released.                              *)
(***************************************************************************)
WorkStates == {"top", "token", "popped", "execute"}
EnqueueStates == {"idle", "limit", "push", "release"}

TRInit ==
    /\ Init
    /\ tasks_ = <<>>
    /\ new_task_ = 0
    /\ not_full_ = max_pending_tasks
    /\ at = [w \in ThreadIds |-> "top"]
    /\ task = [w \in ThreadIds |-> NoTask]
    /\ enqueue = [p \in Producers |-> "idle"]
    /\ argument = [p \in Producers |-> NoTask]
    /\ unused = Tasks
    /\ executed = {}
    /\ dropped = {}

-------------------------------------------------------------------------------
EnqueueGoto(p, from, to) ==
    /\ enqueue[p] = from
    /\ enqueue' = [enqueue EXCEPT ![p] = to]

EnqueueTask(p) ==
    /\ EnqueueGoto(p, "idle", IF LIMITED_ THEN "limit" ELSE "push")
    /\ \E x \in unused :
         /\ argument' = [argument EXCEPT ![p] = x]
         /\ unused' = unused \ {x}
    /\ UNCHANGED <<vars, tasks_, new_task_, not_full_, at, task, executed, dropped>>

\* enqueue_task throws: the task was not taken.
Rejected(p, from) ==
    /\ EnqueueGoto(p, from, "idle")
    /\ unused' = unused \cup {argument[p]}
    /\ argument' = [argument EXCEPT ![p] = NoTask]
    /\ UNCHANGED <<vars, tasks_, new_task_, at, task, executed, dropped>>

\* not_full_.try_acquire() succeeds: the code takes this for an overflow.
Overflow(p) ==
    /\ Rejected(p, "limit")
    /\ not_full_ > 0
    /\ not_full_' = not_full_ - 1

NoOverflow(p) ==
    /\ EnqueueGoto(p, "limit", "push")
    /\ not_full_ = 0
    /\ UNCHANGED <<vars, tasks_, new_task_, not_full_, at, task, argument, unused, executed, dropped>>

PushFails(p) ==
    /\ PushMayFail
    /\ work_mutex_ = Nobody
    /\ Rejected(p, "push")
    /\ not_full_' = IF LIMITED_ THEN not_full_ + 1 ELSE not_full_

Push(p) ==
    /\ EnqueueGoto(p, "push", "release")
    /\ work_mutex_ = Nobody
    /\ tasks_' = Append(tasks_, argument[p])
    /\ UNCHANGED <<vars, new_task_, not_full_, at, task, argument, unused, executed, dropped>>

\* Mutant: the token is released only for a queue that was empty.
ReleaseOnce(p) ==
    /\ EnqueueGoto(p, "release", "idle")
    /\ new_task_' = IF Len(tasks_) > 1 THEN new_task_ ELSE new_task_ + 1
    /\ argument' = [argument EXCEPT ![p] = NoTask]
    /\ UNCHANGED <<vars, tasks_, not_full_, at, task, unused, executed, dropped>>

\* The token is released after the mutex.
ReleaseToken(p) ==
    /\ EnqueueGoto(p, "release", "idle")
    /\ new_task_' = new_task_ + 1
    /\ argument' = [argument EXCEPT ![p] = NoTask]
    /\ UNCHANGED <<vars, tasks_, not_full_, at, task, unused, executed, dropped>>

EnqueueStep(p) ==
    Overflow(p) \/ NoOverflow(p) \/ PushFails(p) \/ Push(p) \/ ReleaseToken(p)

-------------------------------------------------------------------------------
WorkGoto(w, from, to) ==
    /\ thread[w] = "work"
    /\ at[w] = from
    /\ at' = [at EXCEPT ![w] = to]

AcquireToken(w) ==
    /\ WorkGoto(w, "top", "token")
    /\ new_task_ > 0
    /\ new_task_' = new_task_ - 1
    /\ UNCHANGED <<vars, tasks_, not_full_, task, enqueue, argument, unused, executed, dropped>>

\* With the mutex locked: the object is terminating, and work() returns ...
BreakWork(w) ==
    /\ WorkGoto(w, "token", "top")
    /\ EndWork(w)
    /\ UNCHANGED <<tasks_, new_task_, not_full_, task, enqueue, argument, unused, executed, dropped>>

\* ... or the next task is popped; with none the assertion fails, and the
\* process with it.
Pop(w) ==
    /\ WorkGoto(w, "token", IF LIMITED_ THEN "popped" ELSE "execute")
    /\ work_mutex_ = Nobody
    /\ ~terminating_
    /\ tasks_ # <<>>
    /\ task' = [task EXCEPT ![w] = Head(tasks_)]
    /\ tasks_' = Tail(tasks_)
    /\ UNCHANGED <<vars, new_task_, not_full_, enqueue, argument, unused, executed, dropped>>

ReleaseNotFull(w) ==
    /\ WorkGoto(w, "popped", "execute")
    /\ not_full_' = not_full_ + 1
    /\ UNCHANGED <<vars, tasks_, new_task_, task, enqueue, argument, unused, executed, dropped>>

\* The task was executed, or threw an exception that was reported.
Execute(w) ==
    /\ WorkGoto(w, "execute", "top")
    /\ executed' = executed \cup {task[w]}
    /\ task' = [task EXCEPT ![w] = NoTask]
    /\ UNCHANGED <<vars, tasks_, new_task_, not_full_, enqueue, argument, unused, dropped>>

WorkStep(w) ==
    AcquireToken(w) \/ BreakWork(w) \/ Pop(w) \/ ReleaseNotFull(w) \/ Execute(w)

-------------------------------------------------------------------------------
\* Mutant: one token to wake them all.
DeactivateRunnerOnce(c) ==
    /\ Deactivate(c)
    /\ new_task_' = new_task_ + 1
    /\ UNCHANGED <<tasks_, not_full_, at, task, enqueue, argument, unused, executed, dropped>>

\* deactivate_object with terminate() of the job: a token for every thread.
DeactivateRunner(c) ==
    /\ Deactivate(c)
    /\ new_task_' = new_task_ + threads_number
    /\ UNCHANGED <<tasks_, not_full_, at, task, enqueue, argument, unused, executed, dropped>>

\* clear(): the tasks are dropped, their tokens are not.
Clear(c) ==
    /\ MayClear
    /\ pc[c] = "idle"
    /\ work_mutex_ = Nobody
    /\ tasks_ # <<>>
    /\ tasks_' = <<>>
    /\ not_full_' = IF LIMITED_ THEN not_full_ + Len(tasks_) ELSE not_full_
    /\ dropped' = dropped \cup ToSet(tasks_)
    /\ UNCHANGED <<vars, new_task_, at, task, enqueue, argument, unused, executed>>

Control(c) == (Activate(c) \/ Wait(c)) /\ UNCHANGED queue_vars
ControlContinues(c) == Continue(c) /\ UNCHANGED queue_vars
ThreadStarts(w) == ThreadFunc(w) /\ UNCHANGED queue_vars

TRNext ==
    \/ \E c \in Controllers :
         Control(c) \/ ControlContinues(c) \/ DeactivateRunner(c) \/ Clear(c)
    \/ \E p \in Producers : EnqueueTask(p) \/ EnqueueStep(p)
    \/ \E w \in ThreadIds : ThreadStarts(w) \/ WorkStep(w)

TRSpec == TRInit /\ [][TRNext]_runner_state

\* Threads run, and calls that were made go on; no more is assumed of mutex and
\* semaphores than that a free one is given to somebody.
TRFairness ==
    /\ \A c \in Controllers : WF_runner_state(ControlContinues(c))
    /\ \A p \in Producers : WF_runner_state(EnqueueStep(p))
    /\ \A w \in ThreadIds :
         WF_runner_state(ThreadStarts(w)) /\ WF_runner_state(WorkStep(w))

FairTRSpec == TRSpec /\ TRFairness

-------------------------------------------------------------------------------
TRTypeOK ==
    /\ tasks_ \in Seq(Tasks)
    /\ new_task_ \in Nat
    /\ not_full_ \in Nat
    /\ at \in [ThreadIds -> WorkStates]
    /\ task \in [ThreadIds -> Tasks \cup {NoTask}]
    /\ enqueue \in [Producers -> EnqueueStates]
    /\ argument \in [Producers -> Tasks \cup {NoTask}]
    /\ unused \subseteq Tasks
    /\ executed \subseteq Tasks
    /\ dropped \subseteq Tasks

\* The assertion of work(): a thread that got a token of a runner that is not
\* terminating finds a task, though other threads, tokens of terminate() and
\* tokens left from before a restart stand between the push and the pop; as long
\* as clear() dropped no task.
NoEmptyPop ==
    \A w \in ThreadIds :
      thread[w] = "work" /\ at[w] = "token" /\ work_mutex_ = Nobody /\ ~terminating_
        => tasks_ # <<>> \/ dropped # {}

Releasing == {p \in Producers : enqueue[p] = "release"}
HoldingToken == {w \in ThreadIds : at[w] = "token"}

\* A runner that was stopped is ready to start again: the tokens it is left with
\* are those of the tasks it is left with, but for producers that have pushed a
\* task and not yet released its token, and for the tokens clear() forgot.
TokensLeft ==
    active_state_ = "not_active" =>
      new_task_ + Cardinality(Releasing) = Len(tasks_) + Cardinality(dropped)

\* No task is left without a token that will lead a thread to it, even when
\* clear() drops tasks at any time and the threads that terminate take tokens
\* with them.
EveryTaskHasToken ==
    Len(tasks_) <= new_task_ + Cardinality(Releasing) + Cardinality(HoldingToken)

\* No thread waits for a token in vain when the runner terminates: for all that
\* have not taken one since there is one, although tasks are pushed, popped and
\* dropped meanwhile and a thread may take any token for its own.
TerminationReachesAll ==
    terminating_ =>
      Cardinality({w \in ThreadIds : thread[w] \notin {"none", "done"} /\ at[w] # "token"})
        <= new_task_ + Cardinality(Releasing)

\* A task is executed by one thread, once: a task in the queue or in a thread's
\* hands was not executed, and is nowhere else.
ExecutedOnce ==
    /\ \A i, j \in DOMAIN tasks_ : tasks_[i] = tasks_[j] => i = j
    /\ \A w, v \in ThreadIds : task[w] # NoTask /\ task[w] = task[v] => w = v
    /\ \A w \in ThreadIds : task[w] # NoTask => task[w] \notin executed \cup ToSet(tasks_)
    /\ ToSet(tasks_) \cap executed = {}

\* Tasks and tokens tell of each other through pushes, pops, stops and restarts.
TokensMatchTasks ==
    /\ NoEmptyPop /\ TokensLeft /\ ExecutedOnce
    /\ EveryTaskHasToken /\ TerminationReachesAll

\* Every task that was accepted is executed, unless clear() drops it or the runner
\* is not active any more.
AcceptedTasksRun ==
    \A x \in Tasks :
      x \in ToSet(tasks_) ~> x \in executed \cup dropped \/ active_state_ # "active"

-------------------------------------------------------------------------------
(***************************************************************************)
(* The inductive invariant, on top of that of ActiveObject.                *)
(***************************************************************************)

\* A task is in one place: not yet accepted, with a producer, in the queue, with
\* a thread, executed or dropped.
Offering == {p \in Producers : enqueue[p] \in {"limit", "push"}}
InHands == {w \in ThreadIds : at[w] \in {"popped", "execute"}}
Elsewhere(x) == x \in Tasks \ (unused \cup ToSet(tasks_) \cup executed \cup dropped)

HeldOnce ==
    /\ \A w \in ThreadIds : task[w] # NoTask <=> w \in InHands
    /\ \A w \in InHands : Elsewhere(task[w])
    /\ \A w, v \in InHands : task[w] = task[v] => w = v

OfferedOnce ==
    /\ \A p \in Offering : Elsewhere(argument[p])
    /\ \A p, q \in Offering : argument[p] = argument[q] => p = q
    /\ \A p \in Offering, w \in InHands : argument[p] # task[w]

QueuedOnce ==
    /\ \A i, j \in DOMAIN tasks_ : tasks_[i] = tasks_[j] => i = j
    /\ ToSet(tasks_) \cap (unused \cup executed \cup dropped) = {}
    /\ unused \cap (executed \cup dropped) = {}

\* A thread that does not work is where its next work() begins.
AtTop == \A w \in ThreadIds : thread[w] # "work" => at[w] = "top"

\* Tokens are with the queue, with a thread or about to be released; they are
\* those of tasks, forgotten ones among them, and, when the object is
\* terminating, one for every thread that has not ended.
NotEnded == {w \in ThreadIds : thread[w] \notin {"none", "done"}}
TerminationTokens == IF terminating_ THEN Cardinality(NotEnded) ELSE 0

TokenBalance ==
    /\ IsFiniteSet(dropped)
    /\ new_task_ + Cardinality(Releasing) + Cardinality(HoldingToken) =
           Len(tasks_) + Cardinality(dropped) + TerminationTokens

TRIndInv ==
    TRTypeOK /\ HeldOnce /\ OfferedOnce /\ QueuedOnce /\ AtTop /\ TokenBalance

===============================================================================
