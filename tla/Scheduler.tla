-------------------------------- MODULE Scheduler --------------------------------
(***************************************************************************)
(* Gears::Scheduler: an active object with one thread that delivers goals  *)
(* at the times they were scheduled for.                                   *)
(*                                                                         *)
(* The thread takes what is due, with the mutex locked (svc 1), or, when   *)
(* nothing is, waits for the first of the other times or for new events    *)
(* (svc 2); it delivers what it has taken without the mutex (svc 3).       *)
(* schedule signals after it has unlocked the mutex, so everything hangs   *)
(* on have_new_events_, the predicate of the condition: a signal that      *)
(* comes between svc 1 and the wait of svc 2 is lost.                      *)
(***************************************************************************)
EXTENDS ActiveObject, Sequences, SequencesExt

CONSTANTS
    Users,      \* threads that call schedule, unschedule and clear
    Messages,   \* what they schedule: every message is a call of schedule
    Goals,
    goal,       \* the goal of every message
    Never,      \* a null pabs_time
    Adjustments,    \* values of the constructor's delivery_time_adjustment
    MaxTime     \* bound of the model: times are 0 .. MaxTime

ASSUME SchedulerAssumption ==
    /\ threads_number = 1
    /\ goal \in [Messages -> Goals]
    /\ Adjustments \subseteq BOOLEAN
    /\ MaxTime \in Nat
    /\ Never \notin Nat

VARIABLES
    messages_,  \* TimedMessages: a message and its time
    have_new_events_, delivery_time_adjustment_, delivery_time_shift_,
    at,         \* where in work() the thread is
    pending,    \* its local list,
    pabs_time,  \* and the time it waits for
    signaling,  \* users that have unlocked the mutex and not yet signaled
    clock,      \* the time of day
    fresh,      \* messages not yet scheduled
    delivered

schedule_vars == <<messages_, have_new_events_, delivery_time_adjustment_,
                   delivery_time_shift_, at, pending, pabs_time, signaling, clock,
                   fresh, delivered>>
scheduler_state == <<vars, schedule_vars>>

(***************************************************************************)
(* In work() the thread is before svc 1, before it locks the mutex in      *)
(* svc 2, blocked in timed_wait ("wait"), woken from it by a signal or by  *)
(* the time and not yet holding the mutex again, or in svc 3.              *)
(***************************************************************************)
WorkStates == {"svc1", "svc2", "wait", "signaled", "timed_out", "svc3"}

SchInit ==
    /\ Init
    /\ messages_ = <<>>
    /\ have_new_events_ = FALSE
    /\ delivery_time_adjustment_ \in Adjustments
    /\ delivery_time_shift_ = 0
    /\ at = "svc1"
    /\ pending = <<>>
    /\ pabs_time = Never
    /\ signaling = {}
    /\ clock = 0
    /\ fresh = Messages
    /\ delivered = {}

\* The time to deliver a message, as work() sees it.
abs_time(x) ==
    IF delivery_time_adjustment_
    THEN IF x.time > delivery_time_shift_ THEN x.time - delivery_time_shift_ ELSE 0
    ELSE x.time

\* pthread_cond_signal: the thread wakes if it waits.
Signal == at' = IF at = "wait" THEN "signaled" ELSE at

-------------------------------------------------------------------------------
\* Before every message that is not earlier, those of the same time included.
Insert(tm) ==
    InsertAt(messages_, 1 + SelectLastInSeq(messages_, LAMBDA x : x.time < tm.time), tm)

\* Mutant: the thread is told of the first message only.
TellIfEmpty(u, tm) ==
    IF messages_ = <<>>
    THEN have_new_events_' = TRUE /\ signaling' = signaling \cup {u}
    ELSE UNCHANGED <<have_new_events_, signaling>>

\* Have the thread told of a message it has to wake for earlier.
Tell(u, tm) ==
    IF Head(messages_') = tm
    THEN have_new_events_' = TRUE /\ signaling' = signaling \cup {u}
    ELSE UNCHANGED <<have_new_events_, signaling>>

schedule(u) ==
    /\ u \notin signaling
    /\ work_mutex_ = Nobody
    /\ \E m \in fresh, t \in 0 .. MaxTime :
         LET tm == [message |-> m, time |-> t] IN
         /\ messages_' = Insert(tm)
         /\ fresh' = fresh \ {m}
         /\ Tell(u, tm)
    /\ UNCHANGED <<vars, delivery_time_adjustment_, delivery_time_shift_, at, pending,
                   pabs_time, clock, delivered>>

\* Mutant: the signal is forgotten.
ForgetSignal(u) ==
    /\ u \in signaling
    /\ signaling' = signaling \ {u}
    /\ UNCHANGED <<vars, messages_, have_new_events_, delivery_time_adjustment_, at,
                   delivery_time_shift_, pending, pabs_time, clock, fresh, delivered>>

SignalNewEvent(u) ==
    /\ u \in signaling
    /\ signaling' = signaling \ {u}
    /\ Signal
    /\ UNCHANGED <<vars, messages_, have_new_events_, delivery_time_adjustment_,
                   delivery_time_shift_, pending, pabs_time, clock, fresh, delivered>>

Remaining(s) ==
    /\ work_mutex_ = Nobody
    /\ messages_ # <<>>
    /\ messages_' = s
    /\ UNCHANGED <<vars, have_new_events_, delivery_time_adjustment_, delivery_time_shift_,
                   at, pending, pabs_time, signaling, clock, fresh, delivered>>

\* Every message of the goal that is still in the list is removed, and the others
\* keep their order; the one being delivered, and those that follow in pending,
\* are not removed.
unschedule(u, g) ==
    LET others == {i \in DOMAIN messages_ : goal[messages_[i].message] # g} IN
    /\ u \notin signaling
    /\ \E place \in [1 .. Cardinality(others) -> others] :
         /\ \A i, j \in DOMAIN place : i < j => place[i] < place[j]
         /\ Remaining([i \in DOMAIN place |-> messages_[place[i]]])

clear(u) == u \notin signaling /\ Remaining(<<>>)

-------------------------------------------------------------------------------
WorkGoto(w, from, to) ==
    /\ thread[w] = "work"
    /\ at = from
    /\ at' = to

\* The messages of the list that are overdue: it is sorted.
Overdue ==
    LET later == SelectInSeq(messages_, LAMBDA x : abs_time(x) > clock)
    IN  IF later = 0 THEN Len(messages_) ELSE later - 1

\* Mutant: the thread does not remember what it takes from the list.
TakeAll(w) ==
    /\ WorkGoto(w, "svc1", "svc3")
    /\ work_mutex_ = Nobody
    /\ ~terminating_
    /\ Overdue > 0
    /\ pending' = SubSeq(messages_, 1, Overdue)
    /\ UNCHANGED <<vars, messages_, have_new_events_, delivery_time_adjustment_,
                   delivery_time_shift_, pabs_time, signaling, clock, fresh, delivered>>

\* svc 1, with something to deliver ...
TakeOverdue(w) ==
    /\ WorkGoto(w, "svc1", "svc3")
    /\ work_mutex_ = Nobody
    /\ ~terminating_
    /\ Overdue > 0
    /\ pending' = SubSeq(messages_, 1, Overdue)
    /\ messages_' = SubSeq(messages_, Overdue + 1, Len(messages_))
    /\ UNCHANGED <<vars, have_new_events_, delivery_time_adjustment_, delivery_time_shift_,
                   pabs_time, signaling, clock, fresh, delivered>>

\* ... and without.
NothingOverdue(w) ==
    /\ WorkGoto(w, "svc1", "svc2")
    /\ work_mutex_ = Nobody
    /\ ~terminating_
    /\ Overdue = 0
    /\ pabs_time' = IF messages_ = <<>> THEN Never ELSE abs_time(Head(messages_))
    /\ UNCHANGED <<vars, messages_, have_new_events_, delivery_time_adjustment_,
                   delivery_time_shift_, pending, signaling, clock, fresh, delivered>>

\* timed_wait unlocks the mutex and blocks ...
TimedWait(w) ==
    /\ WorkGoto(w, "svc2", "wait")
    /\ work_mutex_ = Nobody
    /\ ~have_new_events_
    /\ UNCHANGED <<vars, messages_, have_new_events_, delivery_time_adjustment_,
                   delivery_time_shift_, pending, pabs_time, signaling, clock, fresh,
                   delivered>>

\* ... until its time ...
TimedOut(w) ==
    /\ WorkGoto(w, "wait", "timed_out")
    /\ pabs_time # Never
    /\ pabs_time <= clock
    /\ UNCHANGED <<vars, messages_, have_new_events_, delivery_time_adjustment_,
                   delivery_time_shift_, pending, pabs_time, signaling, clock, fresh,
                   delivered>>

\* ... or for no reason.
SpuriousWakeup(w) ==
    /\ WorkGoto(w, "wait", "signaled")
    /\ UNCHANGED <<vars, messages_, have_new_events_, delivery_time_adjustment_,
                   delivery_time_shift_, pending, pabs_time, signaling, clock, fresh,
                   delivered>>

\* The thread was woken by new events, but later than it wanted to.
Late == delivery_time_adjustment_ /\ pabs_time # Never /\ clock > pabs_time

\* The end of svc 2, of a wait that was not needed, or that ended with a signal ...
NewEvents(w) ==
    /\ WorkGoto(w, IF at = "svc2" THEN "svc2" ELSE "signaled", "svc1")
    /\ work_mutex_ = Nobody
    /\ ~terminating_
    /\ have_new_events_
    /\ have_new_events_' = FALSE
    /\ delivery_time_shift_' =
         IF Late THEN (clock - pabs_time) \div 2 ELSE delivery_time_shift_
    /\ pabs_time' = Never
    /\ UNCHANGED <<vars, messages_, delivery_time_adjustment_, pending, signaling, clock,
                   fresh, delivered>>

\* ... or without new events, or that timed out, new events or not.
NoNewEvents(w) ==
    /\ \/ WorkGoto(w, "timed_out", "svc1")
       \/ WorkGoto(w, "signaled", "svc1") /\ ~have_new_events_
    /\ work_mutex_ = Nobody
    /\ ~terminating_
    /\ pabs_time' = Never
    /\ UNCHANGED <<vars, messages_, have_new_events_, delivery_time_adjustment_,
                   delivery_time_shift_, pending, signaling, clock, fresh, delivered>>

\* is_terminating(), in svc 1 and in svc 2: in svc 2 it is asked only when the
\* wait is over.
BreakWork(w) ==
    /\ at \in {"svc1", "signaled", "timed_out"} \/ (at = "svc2" /\ have_new_events_)
    /\ EndWork(w)
    /\ at' = "svc1"
    /\ pabs_time' = Never
    /\ UNCHANGED <<messages_, have_new_events_, delivery_time_adjustment_,
                   delivery_time_shift_, pending, signaling, clock, fresh, delivered>>

\* svc 3: deliver() returns, or throws an exception that is reported.
Deliver(w) ==
    /\ WorkGoto(w, "svc3", IF Len(pending) > 1 THEN "svc3" ELSE "svc1")
    /\ delivered' = delivered \cup {Head(pending).message}
    /\ pending' = Tail(pending)
    /\ UNCHANGED <<vars, messages_, have_new_events_, delivery_time_adjustment_, pabs_time,
                   delivery_time_shift_, signaling, clock, fresh>>

WorkStep(w) ==
    \/ TakeOverdue(w) \/ NothingOverdue(w) \/ TimedWait(w) \/ TimedOut(w)
    \/ NewEvents(w) \/ NoNewEvents(w) \/ BreakWork(w) \/ Deliver(w)

-------------------------------------------------------------------------------
\* Mutant: a signal without its predicate.
DeactivateSignals(c) ==
    /\ Deactivate(c)
    /\ Signal
    /\ UNCHANGED <<messages_, have_new_events_, delivery_time_adjustment_,
                   delivery_time_shift_, pending, pabs_time, signaling, clock, fresh,
                   delivered>>

\* deactivate_object with terminate() of the job, under the mutex.
DeactivateScheduler(c) ==
    /\ Deactivate(c)
    /\ have_new_events_' = TRUE
    /\ Signal
    /\ UNCHANGED <<messages_, delivery_time_adjustment_, delivery_time_shift_, pending,
                   pabs_time, signaling, clock, fresh, delivered>>

Tick ==
    /\ clock < MaxTime
    /\ clock' = clock + 1
    /\ UNCHANGED <<vars, messages_, have_new_events_, delivery_time_adjustment_,
                   delivery_time_shift_, at, pending, pabs_time, signaling, fresh,
                   delivered>>

Control(c) == (Activate(c) \/ Wait(c)) /\ UNCHANGED schedule_vars
ControlContinues(c) == Continue(c) /\ UNCHANGED schedule_vars
ThreadStarts(w) == ThreadFunc(w) /\ UNCHANGED schedule_vars

SchNext ==
    \/ \E c \in Controllers : Control(c) \/ ControlContinues(c) \/ DeactivateScheduler(c)
    \/ \E u \in Users : schedule(u) \/ SignalNewEvent(u) \/ clear(u)
    \/ \E u \in Users, g \in Goals : unschedule(u, g)
    \/ \E w \in ThreadIds : ThreadStarts(w) \/ WorkStep(w) \/ SpuriousWakeup(w)
    \/ Tick

SchSpec == SchInit /\ [][SchNext]_scheduler_state

\* Time passes, threads run, and calls that were made go on; nobody schedules or
\* deactivates anything because he has to, and no wakeup is counted on that
\* nothing caused.
SchFairness ==
    /\ WF_scheduler_state(Tick)
    /\ \A c \in Controllers : WF_scheduler_state(ControlContinues(c))
    /\ \A u \in Users : WF_scheduler_state(SignalNewEvent(u))
    /\ \A w \in ThreadIds : WF_scheduler_state(ThreadStarts(w) \/ WorkStep(w))

FairSchSpec == SchSpec /\ SchFairness

-------------------------------------------------------------------------------
TimedMessage == [message : Messages, time : 0 .. MaxTime]

SchTypeOK ==
    /\ messages_ \in Seq(TimedMessage)
    /\ have_new_events_ \in BOOLEAN
    /\ delivery_time_adjustment_ \in Adjustments
    /\ delivery_time_shift_ \in Nat
    /\ at \in WorkStates
    /\ pending \in Seq(TimedMessage)
    /\ pabs_time \in 0 .. MaxTime \cup {Never}
    /\ signaling \subseteq Users
    /\ clock \in 0 .. MaxTime
    /\ fresh \subseteq Messages
    /\ delivered \subseteq Messages

\* The thread does not sleep past a message: while it waits, it waits for the
\* first message's time or less, or somebody is about to tell it better.
\* Messages come, go and change places between the moment it looks at the list
\* and the moment it waits.  Nor does it sleep through its termination, which is
\* not signaled again.
NoOversleep ==
    at = "wait" =>
      /\ ~terminating_
      /\ \/ messages_ = <<>>
         \/ pabs_time # Never /\ pabs_time <= abs_time(Head(messages_))
         \/ have_new_events_ /\ signaling # {}

Armed == ToSet(messages_) \cup ToSet(pending)

Scheduled == {x.message : x \in Armed}

Alarm == INSTANCE Alarms WITH
    armed <- Armed, rung <- delivered, now <- clock,
    adjusting <- delivery_time_adjustment_, ahead <- delivery_time_shift_

\* Every scheduled message is delivered once, and not before its time but for
\* the time shift, unless it was removed; what unschedule leaves is overdue.
ImplementsAlarms == Alarm!Spec

\* What was scheduled is delivered or removed, unless the scheduler is stopped.
GoalsDelivered ==
    \A m \in Messages :
      m \in Scheduled ~> m \notin Scheduled \/ active_state_ # "active"

-------------------------------------------------------------------------------
(***************************************************************************)
(* The inductive invariant.                                                *)
(***************************************************************************)

\* A message is in one place: not yet scheduled, once in one of the lists,
\* delivered or removed.
OnceIn(s) ==
    /\ \A i, j \in DOMAIN s : s[i].message = s[j].message => i = j
    /\ \A i \in DOMAIN s : s[i].message \notin fresh \cup delivered

ScheduledOnce ==
    /\ OnceIn(messages_) /\ OnceIn(pending)
    /\ \A i \in DOMAIN messages_, j \in DOMAIN pending :
         messages_[i].message # pending[j].message
    /\ fresh \cap delivered = {}

Sorted == \A i, j \in DOMAIN messages_ : i <= j => messages_[i].time <= messages_[j].time

\* What the thread has taken is due, and no shift is learned before it is delivered.
PendingDue ==
    /\ at = "svc3" <=> pending # <<>>
    /\ \A i \in DOMAIN pending : abs_time(pending[i]) <= clock

ShiftLearned == delivery_time_adjustment_ \/ delivery_time_shift_ = 0

\* From svc 1 to the wait the thread knows of the first message, or will be told.
WaitsForFirst ==
    \/ messages_ = <<>>
    \/ pabs_time # Never /\ pabs_time <= abs_time(Head(messages_))

WakesInTime ==
    /\ at = "svc2" => WaitsForFirst \/ have_new_events_
    /\ at = "wait" => WaitsForFirst \/ (have_new_events_ /\ signaling # {})

\* The thread finds an event from the moment the object is terminating.
StopNoticed == terminating_ => at # "wait" /\ (at = "svc2" => have_new_events_)

SchIndInv ==
    /\ SchTypeOK /\ ScheduledOnce /\ Sorted
    /\ PendingDue /\ ShiftLearned /\ WakesInTime /\ StopNoticed

===============================================================================
