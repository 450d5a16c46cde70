----------------------------- MODULE ActiveObject -----------------------------
(***************************************************************************)
(* Gears::ActiveObjectCommonImpl with its ThreadRunner: threads that       *)
(* execute one job between activate_object and wait_object.                *)
(*                                                                         *)
(* activate_object and deactivate_object run under work_mutex_, which the  *)
(* job shares; wait_object runs under termination_mutex_, but reads        *)
(* active_state_ and everything of the ThreadRunner without work_mutex_.   *)
(* So a call of activate_object or of wait_object is a sequence of steps,  *)
(* one for every access another thread can see, and deactivate_object,     *)
(* which changes only what work_mutex_ protects, is one.  The job itself   *)
(* is left open: it works until it finds that the object is terminating.   *)
(***************************************************************************)
EXTENDS Integers, FiniteSets

CONSTANTS
    Controllers,    \* threads that call the object; each may call deactivate_object,
    Activators,     \* these activate_object
    Waiters,        \* and these wait_object
    ThreadIds,      \* threads pthread_create can make
    Nobody,         \* an unlocked mutex
    threads_number, \* jobs of the ThreadRunner
    MayFail,        \* what can fail in start: "attr" (the stack size), "create" (a thread)
    MaxFailures     \* bound of the model: creations of a thread that fail

ASSUME ConstantsAssumption ==
    /\ Activators \subseteq Controllers
    /\ Waiters \subseteq Controllers
    /\ Nobody \notin Controllers
    /\ IsFiniteSet(ThreadIds)
    /\ threads_number \in Nat \ {0}
    /\ MayFail \subseteq {"attr", "create"}
    /\ MaxFailures \in Nat

VARIABLES
    active_state_,      \* of ActiveObjectCommonImpl
    terminating_,       \* of its SingleJob
    work_mutex_, termination_mutex_,
    \* ThreadRunner
    start_semaphore_, is_running_, number_of_jobs_,
    jobs_,              \* thread_id of every JobInfo
    thread,             \* thread_func_ of every thread: where it is
    pc,                 \* controllers: where in a call they are
    joined,             \* and the counter of wait_for_completion's loop
    \* history: creations of a thread that failed, threads such starts leave behind
    failures, stale

mutex_vars == <<work_mutex_, termination_mutex_>>
history == <<failures, stale>>
runner_vars == <<start_semaphore_, is_running_, number_of_jobs_, jobs_, thread, history>>
vars == <<active_state_, terminating_, mutex_vars, runner_vars, pc, joined>>

Slots == 1 .. threads_number

(***************************************************************************)
(* A controller is "idle", in activate_object ("start": before             *)
(* ThreadRunner::start; "create": in the loop of start) or in wait_object  *)
(* ("state": before active_state_ is read; "running": before is_running_   *)
(* is read; "join": in the loop of wait_for_completion; "sem": before      *)
(* start_semaphore_ is acquired; "terminated": before terminated();        *)
(* "finish": before work_mutex_ is locked).                                *)
(*                                                                         *)
(* A thread does not exist ("none") or is in thread_func_: before acquire  *)
(* ("wait"), before release ("woken"), before is_running_ is read          *)
(* ("check"), in job.work() ("work"), at its end ("done").                 *)
(***************************************************************************)
InWait == {"state", "running", "join", "sem", "terminated", "finish"}
CallStates == {"idle", "start", "create"} \cup InWait
ThreadStates == {"none", "wait", "woken", "check", "work", "done"}

Goto(c, from, to) ==
    /\ pc[c] = from
    /\ pc' = [pc EXCEPT ![c] = to]

-------------------------------------------------------------------------------
Init ==
    /\ active_state_ = "not_active"
    /\ terminating_ = FALSE
    /\ work_mutex_ = Nobody
    /\ termination_mutex_ = Nobody
    /\ start_semaphore_ = 0
    /\ is_running_ = FALSE
    /\ number_of_jobs_ = threads_number
    /\ jobs_ \in [Slots -> ThreadIds]       \* thread_id is not initialized
    /\ thread = [w \in ThreadIds |-> "none"]
    /\ pc = [c \in Controllers |-> "idle"]
    /\ joined = [c \in Controllers |-> 0]
    /\ failures = 0
    /\ stale = {}

\* activate_object, up to start; it throws AlreadyActive, and nothing changes,
\* unless the object is not active.
Activate(c) ==
    /\ c \in Activators
    /\ Goto(c, "idle", "start")
    /\ work_mutex_ = Nobody
    /\ active_state_ = "not_active"
    /\ active_state_' = "active"
    /\ work_mutex_' = c
    /\ UNCHANGED <<terminating_, termination_mutex_, runner_vars, joined>>

\* start throws and activate_object gives up.
StartThrows(c, from) ==
    /\ Goto(c, from, "idle")
    /\ active_state_' = "not_active"
    /\ work_mutex_' = Nobody
    /\ UNCHANGED <<terminating_, termination_mutex_, jobs_, thread, joined>>

\* ThreadRunner::start throws AlreadyStarted, or the stack size is refused.
StartRefused(c) ==
    /\ StartThrows(c, "start")
    /\ is_running_ \/ "attr" \in MayFail
    /\ UNCHANGED <<start_semaphore_, is_running_, number_of_jobs_, history>>

Start(c) ==
    /\ Goto(c, "start", "create")
    /\ ~is_running_
    /\ is_running_' = TRUE
    /\ number_of_jobs_' = 0
    /\ UNCHANGED <<active_state_, terminating_, mutex_vars, start_semaphore_, jobs_,
                   thread, history, joined>>

\* Mutant: every thread's id goes to the first JobInfo.
CreateInFirst(c) ==
    /\ pc[c] = "create"
    /\ number_of_jobs_ < threads_number
    /\ \E w \in ThreadIds :
         /\ thread[w] = "none"
         /\ thread' = [thread EXCEPT ![w] = "wait"]
         /\ jobs_' = [jobs_ EXCEPT ![1] = w]
    /\ number_of_jobs_' = number_of_jobs_ + 1
    /\ UNCHANGED <<active_state_, terminating_, mutex_vars, start_semaphore_, is_running_,
                   history, pc, joined>>

CreateThread(c) ==
    /\ pc[c] = "create"
    /\ number_of_jobs_ < threads_number
    /\ \E w \in ThreadIds :
         /\ thread[w] = "none"
         /\ thread' = [thread EXCEPT ![w] = "wait"]
         /\ jobs_' = [jobs_ EXCEPT ![number_of_jobs_ + 1] = w]
    /\ number_of_jobs_' = number_of_jobs_ + 1
    /\ UNCHANGED <<active_state_, terminating_, mutex_vars, start_semaphore_, is_running_,
                   history, pc, joined>>

\* pthread_create fails: the threads created so far are released with
\* is_running_ reset.  The wait_for_completion of the handler finds is_running_
\* reset and joins none of them, nor takes the token back.
CreateFails(c) ==
    /\ "create" \in MayFail
    /\ failures < MaxFailures
    /\ number_of_jobs_ < threads_number
    /\ StartThrows(c, "create")
    /\ is_running_' = FALSE
    /\ start_semaphore_' = start_semaphore_ + 1
    /\ number_of_jobs_' = threads_number
    /\ failures' = failures + 1
    /\ stale' = stale \cup {w \in ThreadIds : thread[w] # "none"}

\* All threads are created: let them go.
Started(c) ==
    /\ Goto(c, "create", "idle")
    /\ number_of_jobs_ = threads_number
    /\ start_semaphore_' = start_semaphore_ + 1
    /\ work_mutex_' = Nobody
    /\ UNCHANGED <<active_state_, terminating_, termination_mutex_, is_running_,
                   number_of_jobs_, jobs_, thread, history, joined>>

-------------------------------------------------------------------------------
\* Mutant: an object that is not active is deactivated too.
DeactivateAnyway(c) ==
    /\ pc[c] = "idle"
    /\ work_mutex_ = Nobody
    /\ active_state_' = "deactivating"
    /\ terminating_' = TRUE
    /\ UNCHANGED <<mutex_vars, runner_vars, pc, joined>>

\* deactivate_object does nothing unless the object is active; what terminate()
\* of the job does is up to the job.
Deactivate(c) ==
    /\ pc[c] = "idle"
    /\ work_mutex_ = Nobody
    /\ active_state_ = "active"
    /\ active_state_' = "deactivating"
    /\ terminating_' = TRUE
    /\ UNCHANGED <<mutex_vars, runner_vars, pc, joined>>

-------------------------------------------------------------------------------
Wait(c) ==
    /\ c \in Waiters
    /\ Goto(c, "idle", "state")
    /\ termination_mutex_ = Nobody
    /\ termination_mutex_' = c
    /\ UNCHANGED <<active_state_, terminating_, work_mutex_, runner_vars, joined>>

\* active_state_ is read, without work_mutex_.
WaitReadsState(c) ==
    /\ \/ active_state_ # "not_active" /\ Goto(c, "state", "running")
       \/ active_state_ = "not_active" /\ Goto(c, "state", "finish")
    /\ UNCHANGED <<active_state_, terminating_, mutex_vars, runner_vars, joined>>

\* ThreadRunner::wait_for_completion
WaitReadsRunning(c) ==
    /\ \/ is_running_ /\ Goto(c, "running", "join")
       \/ ~is_running_ /\ Goto(c, "running", "terminated")
    /\ joined' = [joined EXCEPT ![c] = 0]
    /\ UNCHANGED <<active_state_, terminating_, mutex_vars, runner_vars>>

\* pthread_join of the next thread; what it does with a thread that does not
\* exist is undefined, and is to do nothing here.
Join(c) ==
    /\ pc[c] = "join"
    /\ \/ /\ joined[c] < number_of_jobs_
          /\ thread[jobs_[joined[c] + 1]] \in {"none", "done"}
          /\ thread' = [thread EXCEPT ![jobs_[joined[c] + 1]] = "none"]
          /\ joined' = [joined EXCEPT ![c] = @ + 1]
          /\ UNCHANGED pc
       \/ /\ joined[c] >= number_of_jobs_
          /\ Goto(c, "join", "sem")
          /\ UNCHANGED <<thread, joined>>
    /\ UNCHANGED <<active_state_, terminating_, mutex_vars, start_semaphore_, is_running_,
                   number_of_jobs_, jobs_, history>>

\* Mutant: the token of start stays in the semaphore.
TokenStays(c) ==
    /\ Goto(c, "sem", "terminated")
    /\ is_running_' = FALSE
    /\ UNCHANGED <<active_state_, terminating_, mutex_vars, start_semaphore_,
                   number_of_jobs_, jobs_, thread, history, joined>>

\* The token of start is taken back.
TakeToken(c) ==
    /\ Goto(c, "sem", "terminated")
    /\ start_semaphore_ > 0
    /\ start_semaphore_' = start_semaphore_ - 1
    /\ is_running_' = FALSE
    /\ UNCHANGED <<active_state_, terminating_, mutex_vars, number_of_jobs_, jobs_, thread,
                   history, joined>>

\* SingleJob::terminated, without work_mutex_.
Terminated(c) ==
    /\ Goto(c, "terminated", "finish")
    /\ terminating_' = FALSE
    /\ UNCHANGED <<active_state_, mutex_vars, runner_vars, joined>>

WaitEnds(c) ==
    /\ Goto(c, "finish", "idle")
    /\ work_mutex_ = Nobody
    /\ active_state_' = IF active_state_ = "deactivating" THEN "not_active"
                                                           ELSE active_state_
    /\ termination_mutex_' = Nobody
    /\ UNCHANGED <<terminating_, work_mutex_, runner_vars, joined>>

-------------------------------------------------------------------------------
\* A step of thread_func_ that leads from one place to another.
ThreadGoto(w, from, to) ==
    /\ thread[w] = from
    /\ thread' = [thread EXCEPT ![w] = to]
    /\ UNCHANGED <<active_state_, terminating_, mutex_vars, is_running_, number_of_jobs_,
                   jobs_, history, pc, joined>>

\* start_semaphore_.acquire() and .release() of thread_func_.
AcquireStart(w) ==
    /\ start_semaphore_ > 0
    /\ start_semaphore_' = start_semaphore_ - 1
    /\ ThreadGoto(w, "wait", "woken")

\* Mutant: the token is kept.
ReleaseForgotten(w) ==
    /\ ThreadGoto(w, "woken", "check")
    /\ UNCHANGED start_semaphore_

ReleaseStart(w) ==
    /\ start_semaphore_' = start_semaphore_ + 1
    /\ ThreadGoto(w, "woken", "check")

BeginWork(w) ==
    /\ is_running_
    /\ ThreadGoto(w, "check", "work")
    /\ UNCHANGED start_semaphore_

SkipWork(w) ==
    /\ ~is_running_
    /\ ThreadGoto(w, "check", "done")
    /\ UNCHANGED start_semaphore_

\* What every job does in the end: work() finds, with work_mutex_ locked, that
\* the object is terminating and returns.
EndWork(w) ==
    /\ terminating_
    /\ work_mutex_ = Nobody
    /\ ThreadGoto(w, "work", "done")
    /\ UNCHANGED start_semaphore_

ThreadFunc(w) == AcquireStart(w) \/ ReleaseStart(w) \/ BeginWork(w) \/ SkipWork(w)

\* The rest of a call.
Continue(c) ==
    \/ StartRefused(c) \/ Start(c) \/ CreateThread(c) \/ CreateFails(c) \/ Started(c)
    \/ WaitReadsState(c) \/ WaitReadsRunning(c) \/ Join(c) \/ TakeToken(c)
    \/ Terminated(c) \/ WaitEnds(c)

Next ==
    \/ \E c \in Controllers : Activate(c) \/ Deactivate(c) \/ Wait(c) \/ Continue(c)
    \/ \E w \in ThreadIds : ThreadFunc(w) \/ EndWork(w)

Spec == Init /\ [][Next]_vars

\* Threads run, and a controller finishes the call it made.
Fairness ==
    /\ \A c \in Controllers : WF_vars(Continue(c))
    /\ \A w \in ThreadIds : WF_vars(ThreadFunc(w)) /\ WF_vars(EndWork(w))

FairSpec == Spec /\ Fairness
-------------------------------------------------------------------------------
TypeOK ==
    /\ active_state_ \in {"not_active", "active", "deactivating"}
    /\ terminating_ \in BOOLEAN
    /\ work_mutex_ \in Controllers \cup {Nobody}
    /\ termination_mutex_ \in Controllers \cup {Nobody}
    /\ start_semaphore_ \in Nat
    /\ is_running_ \in BOOLEAN
    /\ number_of_jobs_ \in 0 .. threads_number
    /\ jobs_ \in [Slots -> ThreadIds]
    /\ thread \in [ThreadIds -> ThreadStates]
    /\ pc \in [Controllers -> CallStates]
    /\ joined \in [Controllers -> 0 .. threads_number]
    /\ failures \in 0 .. MaxFailures
    /\ stale \subseteq ThreadIds

Working == {w \in ThreadIds : thread[w] = "work"}

\* An object that is not active and not being activated has no thread left, in
\* whatever order its calls and the starts and ends of its threads interleaved
\* (wait_object "Waits for deactivation completion"), and can be activated again; all that remains are the threads and tokens of
\* starts that failed.
StoppedMeansStopped ==
    active_state_ = "not_active" =>
      /\ \A w \in ThreadIds \ stale : thread[w] = "none"
      /\ ~is_running_ /\ ~terminating_
      /\ start_semaphore_ + Cardinality({w \in stale : thread[w] = "woken"}) = failures

\* The start semaphore holds every thread back until all are created, so that a
\* creation that fails can still call everything off.
NoWorkBeforeStarted ==
    failures = 0 /\ Working # {} => \A c \in Controllers : pc[c] \notin {"start", "create"}

JoinsExisting ==
    \A c \in Controllers :
      pc[c] = "join" /\ joined[c] < number_of_jobs_ => thread[jobs_[joined[c] + 1]] # "none"

\* The token of start is handed on: a thread that is still held back, and the
\* wait_for_completion that takes it back at the end, find it in the semaphore or
\* with a thread that is about to release it.
TokenHandedOn ==
    failures = 0 /\ is_running_ /\ (\A c \in Controllers : pc[c] # "create") =>
      start_semaphore_ > 0 \/ \E w \in ThreadIds : thread[w] = "woken"

\* No thread works before all of them are created, all of them are let go, and
\* wait_for_completion joins those that were created, each of them once.
ThreadsInOrder == NoWorkBeforeStarted /\ JoinsExisting /\ TokenHandedOn

\* Only threads of the last start execute the job, and never one of a start that
\* failed: "If creation of a thread fails, no jobs will run."
FailedStartRunsNothing ==
    Working \subseteq {jobs_[i] : i \in 1 .. number_of_jobs_}

Abstract == INSTANCE Lifecycle WITH state <- active_state_, working <- Working \ stale

\* The object implements the life cycle its users rely on, but for the threads
\* of failed starts.
ImplementsLifecycle == Abstract!Spec

\* Whoever waits for an object that was deactivated gets an answer: the threads
\* are all woken, they notice, and nobody keeps the token of start.
WaitReturns ==
    \A c \in Waiters :
      pc[c] \in InWait /\ active_state_ # "active" ~> pc[c] = "idle"

-------------------------------------------------------------------------------
(***************************************************************************)
(* The inductive invariant, for objects with one owner o that activates    *)
(* them and waits for them, and threads whose creation does not fail.      *)
(***************************************************************************)
NoThread == \A w \in ThreadIds : thread[w] = "none"

OneOwner(o) ==
    /\ \A c \in Controllers : c # o => pc[c] = "idle"
    /\ work_mutex_ = IF pc[o] \in {"start", "create"} THEN o ELSE Nobody
    /\ termination_mutex_ = IF pc[o] \in InWait THEN o ELSE Nobody

NothingFailed == failures = 0 /\ stale = {}

\* What the owner's place tells of the object ...
Stopped(o) ==
    active_state_ = "not_active" =>
      /\ pc[o] \in {"idle", "state", "finish"}
      /\ NoThread
      /\ ~is_running_ /\ ~terminating_ /\ start_semaphore_ = 0

Starting(o) ==
    /\ pc[o] \in {"start", "create"} =>
         active_state_ = "active" /\ ~terminating_ /\ start_semaphore_ = 0
    /\ pc[o] = "start" => NoThread /\ ~is_running_
    /\ pc[o] = "create" =>
         is_running_ /\ \A w \in ThreadIds : thread[w] \in {"none", "wait"}

Running(o) ==
    active_state_ # "not_active" /\ pc[o] \in {"idle", "state", "running", "join", "sem"} =>
      /\ is_running_
      /\ number_of_jobs_ = threads_number
      /\ terminating_ <=> active_state_ = "deactivating"

Stopping(o) ==
    /\ pc[o] \in {"running", "join"} => active_state_ # "not_active"
    /\ pc[o] = "join" /\ joined[o] > 0 => active_state_ = "deactivating"
    /\ pc[o] = "sem" => active_state_ = "deactivating" /\ NoThread
    /\ pc[o] = "terminated" \/ (pc[o] = "finish" /\ active_state_ # "not_active") =>
         /\ active_state_ = "deactivating"
         /\ NoThread /\ ~is_running_ /\ start_semaphore_ = 0
    /\ pc[o] = "finish" => ~terminating_

\* ... of its threads: the ones that exist are those of the slots not yet joined ...
Live(o) == (IF pc[o] = "join" THEN joined[o] + 1 ELSE 1) .. number_of_jobs_

SlotsHoldThreads(o) ==
    is_running_ /\ pc[o] # "sem" =>
      /\ \A w \in ThreadIds : thread[w] # "none" => \E i \in Live(o) : jobs_[i] = w
      /\ \A i \in Live(o) : thread[jobs_[i]] # "none"
      /\ \A i, j \in Live(o) : jobs_[i] = jobs_[j] => i = j

DoneOnlyAtEnd ==
    \A w \in ThreadIds : thread[w] = "done" => active_state_ = "deactivating"

\* ... and of the token of start, which is in the semaphore or with one of them.
OneToken ==
    /\ start_semaphore_ <= 1
    /\ \A w \in ThreadIds : thread[w] = "woken" => start_semaphore_ = 0
    /\ \A w, v \in ThreadIds : thread[w] = "woken" /\ thread[v] = "woken" => w = v

IndInv(o) ==
    /\ TypeOK
    /\ OneOwner(o)
    /\ NothingFailed
    /\ Stopped(o)
    /\ Starting(o)
    /\ Running(o)
    /\ Stopping(o)
    /\ SlotsHoldThreads(o)
    /\ DoneOnlyAtEnd
    /\ OneToken

Inductive == \A o \in Activators : IndInv(o)

===============================================================================
