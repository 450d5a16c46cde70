---------------------------- MODULE SchedulerProofs ----------------------------
(***************************************************************************)
(* Proofs about Scheduler, for any number of users, messages and goals, a  *)
(* clock with any bound, and whoever activates, deactivates and waits for  *)
(* it.  The scheduler is an active object; a message is in one place, the  *)
(* list is sorted, what the thread has taken is due, and it never waits    *)
(* past the first message.  From this follows that it implements Alarms.   *)
(***************************************************************************)
EXTENDS Scheduler, SequenceTheorems, FiniteSetTheorems, WellFoundedInduction, TLAPS

\* A set of numbers has a smallest one, and a set of places a first and a last.
LEMMA Least ==
    ASSUME NEW S, S \subseteq Nat, S # {} PROVE \E n \in S : \A m \in S : n <= m
<1>1. PICK n \in S : \A m \in S : <<m, n>> \notin OpToRel(<, Nat)
  BY NatLessThanWellFounded, WFMin
<1>2. \A m \in S : ~(m < n)
  BY <1>1 DEF OpToRel
<1>3. QED
  BY <1>2

LEMMA Greatest ==
    ASSUME NEW k \in Nat, NEW S, S \subseteq 1 .. k, S # {}
    PROVE  \E n \in S : \A m \in S : n >= m
<1> DEFINE T == {k - m : m \in S}
<1>1. T \subseteq Nat /\ T # {}
  <2>1. \A m \in S : k - m \in Nat
    OBVIOUS
  <2>2. QED
    BY <2>1
<1>2. PICK t \in T : \A m \in T : t <= m
  BY <1>1, Least
<1>3. PICK n \in S : t = k - n
  OBVIOUS
<1>4. \A m \in S : t <= k - m
  BY <1>2
<1>5. QED
  BY <1>3, <1>4

\* Where the first element with a property is, and where the last one is.
LEMMA FirstOf ==
    ASSUME NEW k \in Nat, NEW I, I \subseteq 1 .. k, I # {}
    PROVE  Min(I) \in I /\ \A m \in I : Min(I) <= m
<1>1. \E n \in I : \A m \in I : n <= m
  <2>1. I \subseteq Nat
    OBVIOUS
  <2>2. QED
    BY <2>1, Least
<1>2. QED
  BY <1>1 DEF Min

LEMMA LastOf ==
    ASSUME NEW k \in Nat, NEW I, I \subseteq 1 .. k, I # {}
    PROVE  Max(I) \in I /\ \A m \in I : Max(I) >= m
<1>1. \E n \in I : \A m \in I : n >= m
  BY Greatest
<1>2. QED
  BY <1>1 DEF Max

\* The steps of the active object that leave the schedule alone.
Outside ==
    /\ \/ \E c \in Controllers : Activate(c) \/ Wait(c) \/ Continue(c)
       \/ \E w \in ThreadIds : ThreadFunc(w)
       \/ UNCHANGED vars
    /\ UNCHANGED schedule_vars

SchedulerStep ==
    \/ Outside
    \/ \E c \in Controllers : DeactivateScheduler(c)
    \/ \E u \in Users : schedule(u) \/ SignalNewEvent(u) \/ clear(u)
    \/ \E u \in Users, g \in Goals : unschedule(u, g)
    \/ \E w \in ThreadIds : WorkStep(w) \/ SpuriousWakeup(w)
    \/ Tick

LEMMA SchedulerSteps == ASSUME [SchNext]_scheduler_state PROVE SchedulerStep
<1>1. ASSUME NEW c \in Controllers, Control(c) \/ ControlContinues(c) PROVE Outside
  BY <1>1 DEF Control, ControlContinues, Outside
<1>2. ASSUME NEW w \in ThreadIds, ThreadStarts(w) PROVE Outside
  BY <1>2 DEF ThreadStarts, Outside
<1>3. CASE UNCHANGED scheduler_state
  BY <1>3 DEF scheduler_state, Outside, SchedulerStep
<1>4. CASE SchNext
  BY <1>1, <1>2, <1>4 DEF SchNext, SchedulerStep
<1>5. QED
  BY <1>3, <1>4

\* A step of the scheduler is one of its active object, or none.
LEMMA SchedulerRefines == ASSUME SchedulerStep PROVE [Next]_vars
<1>1. ASSUME NEW c \in Controllers, DeactivateScheduler(c) PROVE [Next]_vars
  BY <1>1 DEF DeactivateScheduler, Next
<1>2. ASSUME NEW u \in Users, schedule(u) \/ SignalNewEvent(u) \/ clear(u) PROVE UNCHANGED vars
  BY <1>2 DEF schedule, SignalNewEvent, clear, Remaining
<1>3. ASSUME NEW u \in Users, NEW g \in Goals, unschedule(u, g) PROVE UNCHANGED vars
  BY <1>3 DEF unschedule, Remaining
<1>4. ASSUME NEW w \in ThreadIds, WorkStep(w) \/ SpuriousWakeup(w) PROVE [Next]_vars
  BY <1>4 DEF WorkStep, TakeOverdue, NothingOverdue, TimedWait, TimedOut, SpuriousWakeup,
     NewEvents, NoNewEvents, BreakWork, Deliver, Next
<1>5. CASE Outside \/ Tick
  BY <1>5 DEF Outside, Tick, Next
<1>6. QED
  BY <1>1, <1>2, <1>3, <1>4, <1>5 DEF SchedulerStep

\* A Scheduler is an active object: what is proved of ActiveObject holds for it.
THEOREM SchedulerIsActiveObject == SchSpec => Spec
<1>1. SchInit => Init
  BY DEF SchInit
<1>2. [SchNext]_scheduler_state => [Next]_vars
  BY SchedulerSteps, SchedulerRefines
<1>3. QED
  BY <1>1, <1>2, PTL DEF SchSpec, Spec

-------------------------------------------------------------------------------
(***************************************************************************)
(* Lists.                                                                  *)
(***************************************************************************)
LEMMA TimeIsInt == \A x \in TimedMessage : x.message \in Messages /\ x.time \in Nat
<1>1. MaxTime \in Nat
  BY SchedulerAssumption
<1>2. QED
  BY <1>1 DEF TimedMessage

LEMMA SetOfSeq ==
    ASSUME NEW s \in Seq(TimedMessage)
    PROVE  ToSet(s) = {s[i] : i \in 1 .. Len(s)} /\ DOMAIN s = 1 .. Len(s) /\ Len(s) \in Nat
BY DEF ToSet

\* a is the first n elements of s and b the others.
SplitAt(s, n, a, b) ==
    /\ a \in Seq(TimedMessage) /\ Len(a) = n /\ \A i \in 1 .. n : a[i] = s[i]
    /\ b \in Seq(TimedMessage) /\ Len(b) = Len(s) - n
    /\ \A i \in 1 .. Len(s) - n : b[i] = s[n + i]

LEMMA Split ==
    ASSUME NEW s \in Seq(TimedMessage), NEW k \in 0 .. Len(s)
    PROVE  SplitAt(s, k, SubSeq(s, 1, k), SubSeq(s, k + 1, Len(s)))
<1> DEFINE a == SubSeq(s, 1, k)
           b == SubSeq(s, k + 1, Len(s))
<1>1. /\ Len(s) \in Nat /\ k \in Nat /\ k <= Len(s)
      /\ \A i \in 1 .. Len(s) : s[i] \in TimedMessage
  OBVIOUS
<1>2. a \in Seq(TimedMessage) /\ Len(a) = k /\ \A i \in 1 .. k : a[i] = s[i]
  <2>1. \A i \in 1 .. k : s[i] \in TimedMessage
    BY <1>1
  <2>2. Len(a) = (IF 1 <= k THEN k - 1 + 1 ELSE 0) /\ a \in Seq(TimedMessage)
    BY <1>1, <2>1, SubSeqProperties
  <2>3. \A i \in 1 .. k - 1 + 1 : a[i] = s[1 + i - 1]
    BY <1>1, <2>1, SubSeqProperties
  <2>4. QED
    BY <1>1, <2>2, <2>3
<1>3. /\ b \in Seq(TimedMessage) /\ Len(b) = Len(s) - k
      /\ \A i \in 1 .. Len(s) - k : b[i] = s[k + i]
  <2>1. \A i \in k + 1 .. Len(s) : s[i] \in TimedMessage
    BY <1>1
  <2>2. /\ Len(b) = (IF k + 1 <= Len(s) THEN Len(s) - (k + 1) + 1 ELSE 0)
        /\ b \in Seq(TimedMessage)
        /\ \A i \in 1 .. Len(s) - (k + 1) + 1 : b[i] = s[(k + 1) + i - 1]
    BY <1>1, <2>1, SubSeqProperties
  <2>3. QED
    BY <1>1, <2>2
<1>4. QED
  BY <1>2, <1>3 DEF SplitAt

\* t is s with x after its first k elements.
SplicedAt(s, k, x, t) ==
    /\ t \in Seq(TimedMessage) /\ Len(t) = Len(s) + 1
    /\ \A i \in 1 .. k : t[i] = s[i]
    /\ t[k + 1] = x
    /\ \A i \in k + 1 .. Len(s) : t[i + 1] = s[i]

LEMMA Spliced ==
    ASSUME NEW s \in Seq(TimedMessage), NEW k \in 0 .. Len(s), NEW x \in TimedMessage,
           NEW t, t = InsertAt(s, 1 + k, x)
    PROVE  SplicedAt(s, k, x, t)
<1> DEFINE a == SubSeq(s, 1, k)
           b == SubSeq(s, k + 1, Len(s))
           c == a \o <<x>>
<1>1. /\ Len(s) \in Nat /\ k \in Nat /\ k <= Len(s)
      /\ \A i \in 1 .. Len(s) : s[i] \in TimedMessage
  OBVIOUS
<1>2. a \in Seq(TimedMessage) /\ Len(a) = k /\ \A i \in 1 .. k : a[i] = s[i]
  BY Split DEF SplitAt
<1>3. /\ b \in Seq(TimedMessage) /\ Len(b) = Len(s) - k
      /\ \A i \in 1 .. Len(s) - k : b[i] = s[k + i]
  BY Split DEF SplitAt
<1> HIDE DEF a, b
<1>4. <<x>> \in Seq(TimedMessage) /\ Len(<<x>>) = 1 /\ <<x>>[1] = x
  OBVIOUS
<1>5. /\ c \in Seq(TimedMessage) /\ Len(c) = k + 1
      /\ \A i \in 1 .. k + 1 : c[i] = IF i <= k THEN a[i] ELSE <<x>>[i - k]
  BY <1>1, <1>2, <1>4, ConcatProperties
<1>6. c[k + 1] = x /\ \A i \in 1 .. k : c[i] = s[i]
  BY <1>1, <1>2, <1>4, <1>5
<1> HIDE DEF c
<1>7. t = c \o b
  <2>1. (1 + k) - 1 = k /\ 1 + k = k + 1
    BY <1>1
  <2>2. QED
    BY <2>1 DEF InsertAt, a, b, c
<1>8. /\ t \in Seq(TimedMessage) /\ Len(t) = (k + 1) + (Len(s) - k)
      /\ \A i \in 1 .. (k + 1) + (Len(s) - k) :
           t[i] = IF i <= k + 1 THEN c[i] ELSE b[i - (k + 1)]
  <2>1. b \in Seq(TimedMessage) /\ c \in Seq(TimedMessage) /\ t = c \o b
    BY <1>3, <1>5, <1>7
  <2>2. /\ t \in Seq(TimedMessage) /\ Len(t) = Len(c) + Len(b)
        /\ \A i \in 1 .. Len(c) + Len(b) :
             t[i] = IF i <= Len(c) THEN c[i] ELSE b[i - Len(c)]
    BY ZenonT(40), <2>1, ConcatProperties
  <2>3. Len(c) = k + 1 /\ Len(b) = Len(s) - k
    BY <1>3, <1>5
  <2>4. QED
    BY <2>2, <2>3
<1>9. \A i \in k + 1 .. Len(s) : t[i + 1] = s[i]
  <2> SUFFICES ASSUME NEW i \in k + 1 .. Len(s) PROVE t[i + 1] = s[i]
    OBVIOUS
  <2>1. i + 1 \in 1 .. (k + 1) + (Len(s) - k) /\ ~(i + 1 <= k + 1)
    BY <1>1
  <2>2. t[i + 1] = b[(i + 1) - (k + 1)]
    BY <1>8, <2>1
  <2>3. (i + 1) - (k + 1) = i - k /\ i - k \in 1 .. Len(s) - k /\ k + (i - k) = i
    BY <1>1
  <2>4. QED
    BY <2>2, <2>3, <1>3
<1>10. \A i \in 1 .. k + 1 : t[i] = c[i]
  BY <1>1, <1>8
<1>11. QED
  BY <1>1, <1>6, <1>8, <1>9, <1>10 DEF SplicedAt

\* schedule puts the message between the earlier ones and the others.
InsertedAt(k, tm) ==
    /\ SplicedAt(messages_, k, tm, messages_')
    /\ \A i \in 1 .. k : messages_[i].time < tm.time
    /\ \A i \in k + 1 .. Len(messages_) : messages_[i].time >= tm.time

LEMMA InsertPlace ==
    ASSUME SchTypeOK, Sorted, NEW tm \in TimedMessage, messages_' = Insert(tm)
    PROVE  \E k \in 0 .. Len(messages_) : InsertedAt(k, tm)
<1> DEFINE s == messages_
           n == Len(messages_)
           Earlier(x) == x.time < tm.time
           I == {i \in 1 .. n : Earlier(s[i])}
           k == IF I # {} THEN Max(I) ELSE 0
<1>1. s \in Seq(TimedMessage) /\ n \in Nat /\ DOMAIN s = 1 .. n
  BY DEF SchTypeOK
<1>2. tm.time \in Int /\ \A i \in 1 .. n : s[i] \in TimedMessage /\ s[i].time \in Int
  BY <1>1, ElementOfSeq, TimeIsInt
<1>3. SelectLastInSeq(messages_, LAMBDA x : x.time < tm.time) = k
  BY DEF SelectLastInSeq
<1>4. \A i \in 1 .. n : i \in I <=> s[i].time < tm.time
  OBVIOUS
<1>5. I \subseteq 1 .. n
  OBVIOUS
<1> HIDE DEF I
<1>6. k \in 0 .. n /\ (\A i \in I : i <= k) /\ (k # 0 => k \in I)
  <2>1. CASE I = {}
    BY <2>1, <1>1
  <2>2. CASE I # {}
    <3>1. Max(I) \in I /\ \A m \in I : Max(I) >= m
      BY <2>2, <1>1, <1>5, LastOf
    <3>2. k = Max(I)
      BY <2>2
    <3>3. QED
      <4>1. k \in I /\ \A m \in I : k >= m
        BY <3>1, <3>2
      <4>2. k \in 1 .. n /\ \A m \in I : m \in 1 .. n
        BY <4>1, <1>5
      <4> HIDE DEF k
      <4>3. QED
        BY <4>1, <4>2, <1>1
  <2>3. QED
    BY <2>1, <2>2
<1> HIDE DEF k
<1>7. messages_' = InsertAt(s, 1 + k, tm)
  BY <1>3 DEF Insert
<1>8. SplicedAt(s, k, tm, messages_')
  BY <1>1, <1>6, <1>7, Spliced
<1>9. \A i \in 1 .. k : s[i].time < tm.time
  <2> SUFFICES ASSUME NEW i \in 1 .. k PROVE s[i].time < tm.time
    OBVIOUS
  <2>1. k \in 1 .. n /\ i \in 1 .. n /\ i <= k
    BY <1>1, <1>6
  <2>2. s[k].time < tm.time
    BY <1>4, <1>6, <2>1
  <2>3. s[i].time <= s[k].time
    BY <2>1, <1>1 DEF Sorted
  <2>4. QED
    BY <2>1, <2>2, <2>3, <1>2
<1>10. \A i \in k + 1 .. n : s[i].time >= tm.time
  <2> SUFFICES ASSUME NEW i \in k + 1 .. n PROVE s[i].time >= tm.time
    OBVIOUS
  <2>1. i \in 1 .. n /\ i \notin I
    BY <1>1, <1>6
  <2>2. QED
    BY <2>1, <1>2, <1>4
<1>11. InsertedAt(k, tm)
  BY <1>8, <1>9, <1>10 DEF InsertedAt
<1>12. QED
  BY <1>6, <1>11

\* svc 1 takes messages that are due.
LEMMA OverduePlace ==
    ASSUME SchTypeOK
    PROVE  /\ Overdue \in 0 .. Len(messages_)
           /\ \A i \in 1 .. Overdue : abs_time(messages_[i]) <= clock
<1> DEFINE n == Len(messages_)
           Later(x) == abs_time(x) > clock
           I == {i \in 1 .. n : Later(messages_[i])}
           later == IF I # {} THEN Min(I) ELSE 0
<1>1. n \in Nat /\ \A i \in 1 .. n : messages_[i] \in TimedMessage
  BY DEF SchTypeOK
<1>2. SelectInSeq(messages_, LAMBDA x : abs_time(x) > clock) = later
  BY DEF SelectInSeq
<1>3. Overdue = IF later = 0 THEN n ELSE later - 1
  BY <1>2 DEF Overdue
<1>4. \A x \in TimedMessage : abs_time(x) \in Nat /\ clock \in Nat
  <2>1. clock \in Nat /\ delivery_time_shift_ \in Nat
    BY SchedulerAssumption DEF SchTypeOK
  <2>2. QED
    BY <2>1, TimeIsInt DEF abs_time
<1>5. \A i \in 1 .. n : i \notin I => abs_time(messages_[i]) <= clock
  BY <1>1, <1>4
<1>6. I \subseteq 1 .. n
  OBVIOUS
<1> HIDE DEF I
<1>7. CASE I = {}
  BY <1>1, <1>3, <1>5, <1>7
<1>8. CASE I # {}
  <2>1. Min(I) \in I /\ \A m \in I : Min(I) <= m
    BY <1>1, <1>6, <1>8, FirstOf
  <2>2. Min(I) \in 1 .. n /\ later = Min(I)
    BY <1>6, <1>8, <2>1
  <2> HIDE DEF later
  <2>3. Overdue = later - 1 /\ later \in 1 .. n
    BY <1>3, <2>2
  <2>4. \A i \in 1 .. later - 1 : i \in 1 .. n /\ i \notin I
    <3> SUFFICES ASSUME NEW i \in 1 .. later - 1 PROVE i \in 1 .. n /\ i \notin I
      OBVIOUS
    <3>1. i \in 1 .. n /\ ~(later <= i)
      BY <2>3, <1>1
    <3>2. QED
      BY <3>1, <2>1, <2>2
  <2>5. QED
    BY <2>3, <2>4, <1>5, <1>1
<1>9. QED
  BY <1>7, <1>8

\* Every step but schedule leaves a part of the list, in its order.
Thinned(place) ==
    /\ messages_' \in Seq(TimedMessage)
    /\ place \in [DOMAIN messages_' -> DOMAIN messages_]
    /\ \A i, j \in DOMAIN messages_' : i < j => place[i] < place[j]
    /\ \A i \in DOMAIN messages_' : messages_'[i] = messages_[place[i]]

LEMMA Unchanged ==
    ASSUME SchTypeOK, messages_' = messages_ PROVE \E place : Thinned(place)
<1> DEFINE place == [i \in DOMAIN messages_ |-> i]
<1>1. Thinned(place)
  BY DEF Thinned, SchTypeOK
<1>2. QED
  BY <1>1

LEMMA Cleared ==
    ASSUME SchTypeOK, messages_' = <<>> PROVE \E place : Thinned(place)
<1> DEFINE place == [i \in {} |-> i]
<1>1. DOMAIN messages_' = {} /\ messages_' \in Seq(TimedMessage)
  OBVIOUS
<1>2. place \in [DOMAIN messages_' -> DOMAIN messages_]
  BY <1>1
<1>3. Thinned(place)
  BY <1>1, <1>2 DEF Thinned
<1>4. QED
  BY <1>3

LEMMA Taken ==
    ASSUME SchTypeOK, NEW w, TakeOverdue(w)
    PROVE  /\ SplitAt(messages_, Overdue, pending', messages_')
           /\ \E place : Thinned(place)
<1>1. messages_ \in Seq(TimedMessage) /\ Overdue \in 0 .. Len(messages_)
  BY OverduePlace DEF SchTypeOK
<1>2. /\ pending' = SubSeq(messages_, 1, Overdue)
      /\ messages_' = SubSeq(messages_, Overdue + 1, Len(messages_))
  BY DEF TakeOverdue
<1>3. SplitAt(messages_, Overdue, pending', messages_')
  BY <1>1, <1>2, Split
<1> DEFINE n == Overdue
           place == [i \in DOMAIN messages_' |-> n + i]
<1> HIDE DEF n
<1>4. /\ Len(messages_) \in Nat /\ DOMAIN messages_ = 1 .. Len(messages_)
      /\ DOMAIN messages_' = 1 .. Len(messages_) - n /\ n \in 0 .. Len(messages_)
      /\ messages_' \in Seq(TimedMessage)
      /\ \A i \in 1 .. Len(messages_) - n : messages_'[i] = messages_[n + i]
  BY <1>1, <1>3 DEF SplitAt, n
<1>5. place \in [DOMAIN messages_' -> DOMAIN messages_]
  BY <1>4
<1>6. Thinned(place)
  BY <1>4, <1>5 DEF Thinned
<1>7. QED
  BY <1>3, <1>6

LEMMA Unscheduled ==
    ASSUME SchTypeOK, NEW u, NEW g, unschedule(u, g)
    PROVE  \E place :
             /\ Thinned(place)
             /\ \A j \in DOMAIN messages_ :
                  goal[messages_[j].message] # g => \E i \in DOMAIN messages_' : place[i] = j
             /\ \A i \in DOMAIN messages_' : goal[messages_'[i].message] # g
<1> DEFINE others == {i \in DOMAIN messages_ : goal[messages_[i].message] # g}
           n == Cardinality(others)
<1>1. PICK place \in [1 .. n -> others] :
        /\ \A i, j \in DOMAIN place : i < j => place[i] < place[j]
        /\ Remaining([i \in DOMAIN place |-> messages_[place[i]]])
  BY DEF unschedule
<1>2. /\ DOMAIN messages_ = 1 .. Len(messages_) /\ Len(messages_) \in Nat
      /\ \A i \in DOMAIN messages_ : messages_[i] \in TimedMessage
  BY DEF SchTypeOK
<1>3. IsFiniteSet(others) /\ n \in Nat
  <2>1. IsFiniteSet(DOMAIN messages_)
    BY <1>2, FS_Interval
  <2>2. IsFiniteSet(others)
    BY <2>1, FS_Subset
  <2>3. QED
    BY <2>2, FS_CardinalityType
<1>4. messages_' = [i \in 1 .. n |-> messages_[place[i]]]
  BY <1>1 DEF Remaining
<1>5. \A i \in 1 .. n : place[i] \in DOMAIN messages_ /\ messages_[place[i]] \in TimedMessage
  BY <1>2
<1> HIDE DEF n
<1>6. messages_' \in [1 .. n -> TimedMessage] /\ DOMAIN messages_' = 1 .. n
  BY <1>4, <1>5
<1>7. messages_' \in Seq(TimedMessage)
  BY <1>3, <1>6, SeqDef
<1>8. Thinned(place)
  BY <1>1, <1>4, <1>5, <1>6, <1>7 DEF Thinned
<1>9. place \in Surjection(1 .. n, others)
  <2>1. \A i, j \in 1 .. n : i # j => place[i] # place[j]
    <3>1. \A i, j \in 1 .. n : i < j \/ j < i \/ i = j
      BY <1>3
    <3>2. \A i \in 1 .. n : place[i] \in Int
      BY <1>2
    <3>3. QED
      BY <1>1, <3>1, <3>2
  <2>2. place \in Injection(1 .. n, others)
    BY <1>1, <2>1 DEF Injection, IsInjective
  <2>3. Cardinality(1 .. n) = n
    BY <1>3, FS_Interval
  <2>4. QED
    BY <2>2, <2>3, <1>3, FS_Injection DEF n
<1>10. \A j \in others : \E i \in 1 .. n : place[i] = j
  BY <1>9 DEF Surjection
<1>11. \A i \in 1 .. n : goal[messages_'[i].message] # g
  BY <1>4
<1>12. QED
  BY <1>6, <1>8, <1>10, <1>11

\* Where the elements of the new list t were in the old list s.
Placed(s, k, x, t, place) ==
    /\ t \in Seq(TimedMessage) /\ DOMAIN t = 1 .. Len(s) + 1 /\ t[k + 1] = x
    /\ place \in [(DOMAIN t) \ {k + 1} -> DOMAIN s]
    /\ \A i \in (DOMAIN t) \ {k + 1} : /\ t[i] = s[place[i]]
                                       /\ i < k + 1 => place[i] \in 1 .. k
                                       /\ i > k + 1 => place[i] \in k + 1 .. Len(s)
    /\ \A i, j \in (DOMAIN t) \ {k + 1} : i < j => place[i] < place[j]
    /\ \A j \in DOMAIN s : \E i \in (DOMAIN t) \ {k + 1} : place[i] = j

LEMMA SplicedFrom ==
    ASSUME NEW s \in Seq(TimedMessage), NEW k \in 0 .. Len(s), NEW x, NEW t,
           SplicedAt(s, k, x, t)
    PROVE  \E place : Placed(s, k, x, t, place)
<1> DEFINE n == Len(s)
           P == (1 .. n + 1) \ {k + 1}
           place == [i \in P |-> IF i < k + 1 THEN i ELSE i - 1]
<1>1. /\ n \in Nat /\ k \in 0 .. n /\ DOMAIN s = 1 .. n
      /\ t \in Seq(TimedMessage) /\ DOMAIN t = 1 .. n + 1
      /\ t[k + 1] = x
      /\ \A i \in 1 .. k : t[i] = s[i]
      /\ \A i \in k + 1 .. n : t[i + 1] = s[i]
  <2>1. t \in Seq(TimedMessage) /\ Len(t) = n + 1
    BY DEF SplicedAt
  <2>2. n \in Nat /\ DOMAIN s = 1 .. n /\ DOMAIN t = 1 .. n + 1
    BY <2>1
  <2>3. QED
    BY <2>1, <2>2 DEF SplicedAt
<1> HIDE DEF n
<1>2. \A i \in P : \/ i < k + 1 /\ i \in 1 .. k /\ place[i] = i
                   \/ /\ i > k + 1 /\ i - 1 \in k + 1 .. n /\ place[i] = i - 1
                      /\ (i - 1) + 1 = i
  BY <1>1
<1>3. \A j \in 1 .. n : \E i \in P : place[i] = j
  <2> SUFFICES ASSUME NEW j \in 1 .. n PROVE \E i \in P : place[i] = j
    OBVIOUS
  <2>1. CASE j < k + 1
    <3>1. j \in P /\ place[j] = j
      BY <2>1, <1>1
    <3>2. QED
      BY <3>1
  <2>2. CASE ~(j < k + 1)
    <3>1. j + 1 \in P /\ ~(j + 1 < k + 1) /\ (j + 1) - 1 = j
      BY <2>2, <1>1
    <3>2. place[j + 1] = j
      BY <3>1
    <3>3. QED
      BY <3>1, <3>2
  <2>3. QED
    BY <2>1, <2>2
<1>4. place \in [P -> 1 .. n]
  BY <1>1
<1>5. \A i, j \in P : i < j => place[i] < place[j]
  BY <1>1
<1> HIDE DEF place
<1>6. \A i \in P : /\ t[i] = s[place[i]]
                   /\ i < k + 1 => place[i] \in 1 .. k
                   /\ i > k + 1 => place[i] \in k + 1 .. n
  <2> SUFFICES ASSUME NEW i \in P
               PROVE  /\ t[i] = s[place[i]]
                      /\ i < k + 1 => place[i] \in 1 .. k
                      /\ i > k + 1 => place[i] \in k + 1 .. n
    OBVIOUS
  <2>1. CASE i < k + 1
    BY <2>1, <1>1, <1>2
  <2>2. CASE i > k + 1
    <3>1. t[(i - 1) + 1] = s[i - 1]
      BY <2>2, <1>1, <1>2
    <3>2. (i - 1) + 1 = i /\ place[i] = i - 1 /\ ~(i < k + 1) /\ i - 1 \in k + 1 .. n
      BY <2>2, <1>1, <1>2
    <3>3. QED
      BY <3>1, <3>2
  <2>3. QED
    BY <2>1, <2>2, <1>1
<1>7. P = (DOMAIN t) \ {k + 1}
  BY <1>1
<1> HIDE DEF P
<1>8. Placed(s, k, x, t, place)
  BY <1>1, <1>3, <1>4, <1>5, <1>6, <1>7 DEF Placed, n
<1>9. QED
  BY <1>8

LEMMA ScheduleStep ==
    ASSUME SchTypeOK, Sorted, NEW u \in Users, schedule(u)
    PROVE  \E m \in fresh, t \in 0 .. MaxTime, k \in 0 .. Len(messages_) :
             /\ [message |-> m, time |-> t] \in TimedMessage
             /\ InsertedAt(k, [message |-> m, time |-> t])
             /\ fresh' = fresh \ {m}
             /\ have_new_events_' \in BOOLEAN /\ signaling' \subseteq Users
             /\ have_new_events_ => have_new_events_'
             /\ signaling \subseteq signaling'
             /\ k = 0 => have_new_events_' /\ u \in signaling'
<1>1. PICK m \in fresh, t \in 0 .. MaxTime :
        /\ messages_' = Insert([message |-> m, time |-> t])
        /\ fresh' = fresh \ {m}
        /\ Tell(u, [message |-> m, time |-> t])
  BY DEF schedule
<1> DEFINE tm == [message |-> m, time |-> t]
<1>2. tm \in TimedMessage
  BY DEF TimedMessage, SchTypeOK
<1> HIDE DEF tm
<1>3. PICK k \in 0 .. Len(messages_) : InsertedAt(k, tm)
  BY <1>1, <1>2, InsertPlace DEF tm
<1>4. k = 0 => Head(messages_') = tm
  <2>1. messages_' \in Seq(TimedMessage) /\ messages_'[k + 1] = tm
    BY <1>3 DEF InsertedAt, SplicedAt
  <2>2. Len(messages_') = Len(messages_) + 1 /\ Len(messages_) \in Nat
    BY <1>3 DEF InsertedAt, SplicedAt, SchTypeOK
  <2>3. messages_' # <<>>
    BY <2>1, <2>2
  <2>4. QED
    BY <2>1, <2>3
<1>5. /\ have_new_events_' \in BOOLEAN /\ signaling' \subseteq Users
      /\ have_new_events_ => have_new_events_'
      /\ signaling \subseteq signaling'
      /\ k = 0 => have_new_events_' /\ u \in signaling'
  BY <1>1, <1>4 DEF Tell, SchTypeOK, tm
<1>6. QED
  BY <1>1, <1>2, <1>3, <1>5 DEF tm

LEMMA ListStep ==
    ASSUME SchTypeOK, SchedulerStep
    PROVE  (\E u \in Users : schedule(u)) \/ (\E place : Thinned(place))
<1>1. ASSUME NEW u \in Users, NEW g \in Goals, unschedule(u, g)
      PROVE  \E place : Thinned(place)
  BY <1>1, Unscheduled
<1>2. ASSUME NEW u \in Users, clear(u) PROVE \E place : Thinned(place)
  BY <1>2, Cleared DEF clear, Remaining
<1>3. ASSUME NEW w \in ThreadIds, TakeOverdue(w) PROVE \E place : Thinned(place)
  BY <1>3, Taken
<1>4. ASSUME NEW w \in ThreadIds, WorkStep(w) \/ SpuriousWakeup(w), ~TakeOverdue(w)
      PROVE  messages_' = messages_
  BY <1>4 DEF WorkStep, NothingOverdue, TimedWait, TimedOut, SpuriousWakeup, NewEvents,
     NoNewEvents, BreakWork, Deliver
<1>5. ASSUME NEW u \in Users, SignalNewEvent(u) PROVE messages_' = messages_
  BY <1>5 DEF SignalNewEvent
<1>6. ASSUME NEW c \in Controllers, DeactivateScheduler(c) PROVE messages_' = messages_
  BY <1>6 DEF DeactivateScheduler
<1>7. CASE Outside \/ Tick
  BY <1>7, Unchanged DEF Outside, Tick, schedule_vars
<1>8. QED
  BY <1>1, <1>2, <1>3, <1>4, <1>5, <1>6, <1>7, Unchanged DEF SchedulerStep

-------------------------------------------------------------------------------
\* The list stays sorted.
LEMMA SortedStep == ASSUME SchTypeOK, Sorted, SchedulerStep PROVE Sorted'
<1>1. DOMAIN messages_ \subseteq Nat /\ \A i \in DOMAIN messages_ : messages_[i].time \in Nat
  <2>1. DOMAIN messages_ = 1 .. Len(messages_) /\ Len(messages_) \in Nat
    BY DEF SchTypeOK
  <2>2. \A i \in DOMAIN messages_ : messages_[i] \in TimedMessage
    BY DEF SchTypeOK
  <2>3. QED
    BY <2>1, <2>2, TimeIsInt
<1>2. ASSUME NEW u \in Users, schedule(u) PROVE Sorted'
  <2>1. PICK m \in fresh, t \in 0 .. MaxTime, k \in 0 .. Len(messages_) :
          /\ [message |-> m, time |-> t] \in TimedMessage
          /\ InsertedAt(k, [message |-> m, time |-> t])
    BY <1>2, ScheduleStep
  <2> DEFINE tm == [message |-> m, time |-> t]
             others == (DOMAIN messages_') \ {k + 1}
  <2>2. tm \in TimedMessage /\ InsertedAt(k, tm) /\ tm.time \in Nat
    BY <2>1, TimeIsInt
  <2> HIDE DEF tm
  <2>3. PICK place : Placed(messages_, k, tm, messages_', place)
    BY <2>2, SplicedFrom DEF InsertedAt, SchTypeOK
  <2>4. /\ messages_'[k + 1] = tm /\ DOMAIN messages_' \subseteq Int /\ k + 1 \in Int
        /\ place \in [others -> DOMAIN messages_]
        /\ \A i, j \in others : i < j => place[i] < place[j]
    BY <2>3 DEF Placed
  <2>5. \A i \in others : /\ messages_'[i] = messages_[place[i]]
                          /\ i < k + 1 => messages_[place[i]].time < tm.time
                          /\ i > k + 1 => messages_[place[i]].time >= tm.time
    BY <2>2, <2>3 DEF Placed, InsertedAt
  <2>6. ASSUME NEW i \in DOMAIN messages_', NEW j \in DOMAIN messages_', i < j
        PROVE  messages_'[i].time <= messages_'[j].time
    <3>1. CASE i = k + 1
      <4>1. j \in others /\ j > k + 1
        BY <2>4, <2>6, <3>1
      <4>2. place[j] \in DOMAIN messages_ /\ messages_'[j].time >= tm.time
        BY <4>1, <2>4, <2>5
      <4>3. messages_'[j].time \in Nat
        BY <4>1, <4>2, <2>4, <2>5, <1>1
      <4>4. QED
        BY <4>2, <4>3, <3>1, <2>2, <2>4
    <3>2. CASE j = k + 1
      <4>1. i \in others /\ i < k + 1
        BY <2>4, <2>6, <3>2
      <4>2. place[i] \in DOMAIN messages_ /\ messages_'[i].time < tm.time
        BY <4>1, <2>4, <2>5
      <4>3. messages_'[i].time \in Nat
        BY <4>1, <4>2, <2>4, <2>5, <1>1
      <4>4. QED
        BY <4>2, <4>3, <3>2, <2>2, <2>4
    <3>3. CASE i # k + 1 /\ j # k + 1
      <4>1. /\ i \in others /\ j \in others
            /\ place[i] \in DOMAIN messages_ /\ place[j] \in DOMAIN messages_
            /\ messages_'[i] = messages_[place[i]] /\ messages_'[j] = messages_[place[j]]
            /\ place[i] < place[j]
        BY <3>3, <2>4, <2>5, <2>6
      <4>2. place[i] <= place[j]
        BY <4>1, <1>1
      <4>3. QED
        BY <4>1, <4>2 DEF Sorted
    <3>4. QED
      BY <3>1, <3>2, <3>3
  <2>7. \A i \in DOMAIN messages_' : messages_'[i].time \in Nat
    <3>1. messages_' \in Seq(TimedMessage)
      BY <2>3 DEF Placed
    <3>2. QED
      BY <3>1, TimeIsInt
  <2>8. \A i, j \in DOMAIN messages_' : i <= j => i < j \/ i = j
    BY <2>4
  <2>9. QED
    BY <2>6, <2>7, <2>8 DEF Sorted
<1>3. ASSUME NEW place, Thinned(place) PROVE Sorted'
  <2>1. /\ place \in [DOMAIN messages_' -> DOMAIN messages_]
        /\ \A i, j \in DOMAIN messages_' : i < j => place[i] < place[j]
        /\ \A i \in DOMAIN messages_' : messages_'[i] = messages_[place[i]]
        /\ DOMAIN messages_' \subseteq Int
    BY <1>3 DEF Thinned
  <2>2. ASSUME NEW i \in DOMAIN messages_', NEW j \in DOMAIN messages_', i <= j
        PROVE  place[i] <= place[j]
    BY <2>1, <2>2, <1>1
  <2>3. QED
    BY <2>1, <2>2 DEF Sorted
<1>4. QED
  BY <1>2, <1>3, ListStep

\* Types.
LEMMA SchTypeStep ==
    ASSUME SchTypeOK, Sorted, PendingDue, SchedulerStep PROVE SchTypeOK'
<1>1. MaxTime \in Nat /\ Never \notin Nat /\ Adjustments \subseteq BOOLEAN
  BY SchedulerAssumption
<1>2. messages_' \in Seq(TimedMessage)
  <2>1. ASSUME NEW u \in Users, schedule(u) PROVE messages_' \in Seq(TimedMessage)
    BY <2>1, ScheduleStep DEF InsertedAt, SplicedAt
  <2>2. ASSUME NEW place, Thinned(place) PROVE messages_' \in Seq(TimedMessage)
    BY <2>2 DEF Thinned
  <2>3. QED
    BY <2>1, <2>2, ListStep
<1>3. ASSUME NEW u \in Users, schedule(u) PROVE SchTypeOK'
  BY <1>2, <1>3, ScheduleStep DEF schedule, SchTypeOK, vars
<1>4. ASSUME NEW u \in Users, SignalNewEvent(u) PROVE SchTypeOK'
  BY <1>2, <1>4 DEF SignalNewEvent, Signal, SchTypeOK, WorkStates
<1>5. ASSUME NEW u \in Users, clear(u) PROVE SchTypeOK'
  BY <1>2, <1>5 DEF clear, Remaining, SchTypeOK
<1>6. ASSUME NEW u \in Users, NEW g \in Goals, unschedule(u, g) PROVE SchTypeOK'
  BY <1>2, <1>6 DEF unschedule, Remaining, SchTypeOK
<1>7. ASSUME NEW w \in ThreadIds, TakeOverdue(w) PROVE SchTypeOK'
  <2>1. pending' \in Seq(TimedMessage)
    BY <1>7, Taken DEF SplitAt
  <2>2. QED
    BY <1>2, <1>7, <2>1 DEF TakeOverdue, WorkGoto, SchTypeOK, WorkStates
<1>8. ASSUME NEW w \in ThreadIds, NothingOverdue(w) PROVE SchTypeOK'
  <2>1. messages_ # <<>> => Head(messages_) \in TimedMessage
    BY DEF SchTypeOK
  <2>2. messages_ # <<>> => abs_time(Head(messages_)) \in 0 .. MaxTime
    BY <1>1, <2>1 DEF abs_time, SchTypeOK, TimedMessage
  <2>3. pabs_time' \in 0 .. MaxTime \cup {Never}
    BY <1>8, <2>2 DEF NothingOverdue
  <2>4. QED
    BY <1>2, <1>8, <2>3 DEF NothingOverdue, WorkGoto, SchTypeOK, WorkStates
<1>9. ASSUME NEW w \in ThreadIds, TimedWait(w) \/ TimedOut(w) \/ SpuriousWakeup(w)
      PROVE  SchTypeOK'
  BY <1>2, <1>9 DEF TimedWait, TimedOut, SpuriousWakeup, WorkGoto, SchTypeOK, WorkStates
<1>10. ASSUME NEW w \in ThreadIds, NewEvents(w) PROVE SchTypeOK'
  <2>1. pabs_time # Never => pabs_time \in 0 .. MaxTime
    BY DEF SchTypeOK
  <2>2. Late => (clock - pabs_time) \div 2 \in Nat
    BY <1>1, <2>1 DEF Late, SchTypeOK
  <2>3. delivery_time_shift_' \in Nat
    BY <1>10, <2>2 DEF NewEvents, SchTypeOK
  <2>4. QED
    BY <1>2, <1>10, <2>3 DEF NewEvents, WorkGoto, SchTypeOK, WorkStates
<1>11. ASSUME NEW w \in ThreadIds, NoNewEvents(w) \/ BreakWork(w) PROVE SchTypeOK'
  BY <1>2, <1>11 DEF NoNewEvents, BreakWork, WorkGoto, SchTypeOK, WorkStates
<1>12. ASSUME NEW w \in ThreadIds, Deliver(w) PROVE SchTypeOK'
  <2>1. pending \in Seq(TimedMessage) /\ pending # <<>> /\ Head(pending) \in TimedMessage
    <3>1. pending # <<>>
      BY <1>12 DEF PendingDue, Deliver, WorkGoto
    <3>2. QED
      BY <3>1 DEF SchTypeOK
  <2>2. pending' \in Seq(TimedMessage)
    BY <1>12, <2>1 DEF Deliver
  <2>3. delivered' \subseteq Messages
    BY <1>12, <2>1, TimeIsInt DEF Deliver, SchTypeOK
  <2>4. at' \in WorkStates
    BY <1>12 DEF Deliver, WorkGoto, WorkStates
  <2>5. QED
    BY <1>2, <1>12, <2>2, <2>3, <2>4 DEF Deliver, SchTypeOK
<1>13. ASSUME NEW c \in Controllers, DeactivateScheduler(c) PROVE SchTypeOK'
  BY <1>2, <1>13 DEF DeactivateScheduler, Signal, SchTypeOK, WorkStates
<1>14. CASE Tick
  BY <1>1, <1>2, <1>14 DEF Tick, SchTypeOK
<1>15. CASE Outside
  BY <1>15 DEF Outside, schedule_vars, SchTypeOK
<1>16. QED
  BY <1>3, <1>4, <1>5, <1>6, <1>7, <1>8, <1>9, <1>10, <1>11, <1>12, <1>13, <1>14, <1>15
  DEF SchedulerStep, WorkStep

\* What the thread has taken is due.
LEMMA PendingDueStep ==
    ASSUME SchTypeOK, PendingDue, SchedulerStep PROVE PendingDue'
<1>1. clock \in Nat /\ delivery_time_shift_ \in Nat
  BY SchedulerAssumption DEF SchTypeOK
<1>2. /\ DOMAIN pending = 1 .. Len(pending) /\ Len(pending) \in Nat
      /\ \A i \in DOMAIN pending : pending[i] \in TimedMessage
  BY DEF SchTypeOK
<1>3. \A x \in TimedMessage : abs_time(x) \in Nat
  BY <1>1, TimeIsInt DEF abs_time
<1>4. ASSUME NEW w \in ThreadIds, TakeOverdue(w) PROVE PendingDue'
  <2>1. SplitAt(messages_, Overdue, pending', messages_')
    BY <1>4, Taken
  <2>2. Overdue \in Nat \ {0}
    BY <1>4, OverduePlace DEF TakeOverdue, SchTypeOK
  <2>3. /\ DOMAIN pending' = 1 .. Overdue /\ pending' # <<>>
        /\ \A i \in 1 .. Overdue : pending'[i] = messages_[i]
    BY <2>1, <2>2 DEF SplitAt
  <2>4. \A i \in DOMAIN pending' : abs_time(pending'[i]) <= clock
    BY <2>3, OverduePlace
  <2>5. /\ at' = "svc3"
        /\ UNCHANGED <<clock, delivery_time_adjustment_, delivery_time_shift_>>
    BY <1>4 DEF TakeOverdue, WorkGoto
  <2>6. QED
    BY <2>3, <2>4, <2>5 DEF PendingDue, abs_time
<1>5. ASSUME NEW w \in ThreadIds, Deliver(w) PROVE PendingDue'
  <2>1. pending # <<>> /\ pending' = Tail(pending)
    BY <1>5 DEF Deliver, WorkGoto, PendingDue
  <2>2. /\ pending' \in Seq(TimedMessage) /\ Len(pending') = Len(pending) - 1
        /\ DOMAIN pending' = 1 .. Len(pending) - 1
        /\ \A i \in DOMAIN pending' : pending'[i] = pending[i + 1] /\ i + 1 \in DOMAIN pending
    BY <1>2, <2>1 DEF SchTypeOK
  <2>3. at' = "svc3" <=> pending' # <<>>
    <3>1. pending' = <<>> <=> Len(pending') = 0
      BY <2>2
    <3>2. at' = IF Len(pending) > 1 THEN "svc3" ELSE "svc1"
      BY <1>5 DEF Deliver, WorkGoto
    <3>3. QED
      BY <3>1, <3>2, <2>2, <1>2
  <2>4. \A i \in DOMAIN pending' : abs_time(pending'[i]) <= clock
    BY <2>2 DEF PendingDue
  <2>5. UNCHANGED <<clock, delivery_time_adjustment_, delivery_time_shift_>>
    BY <1>5 DEF Deliver
  <2>6. QED
    BY <2>3, <2>4, <2>5 DEF PendingDue, abs_time
<1>6. CASE Tick
  <2>1. clock' = clock + 1
        /\ UNCHANGED <<at, pending, delivery_time_adjustment_, delivery_time_shift_>>
    BY <1>6 DEF Tick
  <2>2. \A i \in DOMAIN pending : abs_time(pending[i]) <= clock + 1
    BY <1>1, <1>2, <1>3 DEF PendingDue
  <2>3. QED
    BY <2>1, <2>2 DEF PendingDue, abs_time
<1>7. ASSUME NEW w \in ThreadIds, NewEvents(w) PROVE PendingDue'
  <2>1. pending = <<>> /\ pending' = <<>> /\ at' = "svc1"
    BY <1>7 DEF NewEvents, WorkGoto, PendingDue
  <2>2. QED
    BY <2>1 DEF PendingDue
<1>8. ASSUME UNCHANGED <<pending, clock, delivery_time_adjustment_, delivery_time_shift_>>,
             at' = "svc3" <=> at = "svc3"
      PROVE  PendingDue'
  BY <1>8 DEF PendingDue, abs_time
<1>9. ASSUME NEW u \in Users,
             schedule(u) \/ SignalNewEvent(u) \/ clear(u) \/ \E g \in Goals : unschedule(u, g)
      PROVE  PendingDue'
  BY <1>8, <1>9 DEF schedule, SignalNewEvent, clear, unschedule, Remaining, Signal
<1>10. ASSUME NEW w \in ThreadIds,
              \/ NothingOverdue(w) \/ TimedWait(w) \/ TimedOut(w) \/ SpuriousWakeup(w)
              \/ NoNewEvents(w) \/ BreakWork(w)
       PROVE  PendingDue'
  BY <1>8, <1>10 DEF NothingOverdue, TimedWait, TimedOut, SpuriousWakeup, NoNewEvents,
     BreakWork, WorkGoto
<1>11. ASSUME NEW c \in Controllers, DeactivateScheduler(c) PROVE PendingDue'
  BY <1>8, <1>11 DEF DeactivateScheduler, Signal
<1>12. CASE Outside
  BY <1>8, <1>12 DEF Outside, schedule_vars
<1>13. QED
  BY <1>4, <1>5, <1>6, <1>7, <1>9, <1>10, <1>11, <1>12 DEF SchedulerStep, WorkStep

\* A message is in one place.
LEMMA ScheduledOnceStep ==
    ASSUME SchTypeOK, Sorted, PendingDue, ScheduledOnce, SchedulerStep PROVE ScheduledOnce'
<1>1. /\ DOMAIN messages_ = 1 .. Len(messages_) /\ Len(messages_) \in Nat
      /\ DOMAIN pending = 1 .. Len(pending) /\ Len(pending) \in Nat
  BY DEF SchTypeOK
<1>2. ASSUME NEW place, Thinned(place), UNCHANGED <<pending, fresh, delivered>>
      PROVE  ScheduledOnce'
  <2>1. /\ place \in [DOMAIN messages_' -> DOMAIN messages_]
        /\ \A i, j \in DOMAIN messages_' : i < j => place[i] < place[j]
        /\ \A i \in DOMAIN messages_' : messages_'[i] = messages_[place[i]]
        /\ DOMAIN messages_' \subseteq Int
    BY <1>2 DEF Thinned
  <2>2. \A i, j \in DOMAIN messages_' : place[i] = place[j] => i = j
    <3>1. \A i, j \in DOMAIN messages_' : i < j \/ j < i \/ i = j
      BY <2>1
    <3>2. \A i \in DOMAIN messages_' : place[i] \in Int
      BY <2>1, <1>1
    <3>3. QED
      BY <2>1, <3>1, <3>2
  <2>3. OnceIn(messages_)'
    BY <1>2, <2>1, <2>2 DEF OnceIn, ScheduledOnce
  <2>4. OnceIn(pending)'
    BY <1>2 DEF OnceIn, ScheduledOnce
  <2>5. \A i \in DOMAIN messages_', j \in DOMAIN pending' :
          messages_'[i].message # pending'[j].message
    BY <1>2, <2>1 DEF ScheduledOnce
  <2>6. QED
    BY <1>2, <2>3, <2>4, <2>5 DEF ScheduledOnce
<1>3. ASSUME NEW u \in Users, schedule(u) PROVE ScheduledOnce'
  <2>1. PICK m \in fresh, t \in 0 .. MaxTime, k \in 0 .. Len(messages_) :
          /\ InsertedAt(k, [message |-> m, time |-> t])
          /\ fresh' = fresh \ {m}
    BY <1>3, ScheduleStep
  <2> DEFINE tm == [message |-> m, time |-> t]
             others == (DOMAIN messages_') \ {k + 1}
  <2>2. InsertedAt(k, tm) /\ tm.message = m
    BY <2>1
  <2> HIDE DEF tm
  <2>3. PICK place : Placed(messages_, k, tm, messages_', place)
    BY <2>2, SplicedFrom DEF InsertedAt, SchTypeOK
  <2>4. /\ messages_'[k + 1] = tm /\ DOMAIN messages_' = 1 .. Len(messages_) + 1
        /\ place \in [others -> DOMAIN messages_]
        /\ \A i, j \in others : i < j => place[i] < place[j]
        /\ \A i \in others : messages_'[i] = messages_[place[i]]
    BY <2>3 DEF Placed
  <2>5. UNCHANGED <<pending, delivered>>
    BY <1>3 DEF schedule
  <2>6. /\ \A i \in DOMAIN messages_ : messages_[i].message # m
        /\ \A i \in DOMAIN pending : pending[i].message # m
        /\ m \notin delivered
    BY DEF ScheduledOnce, OnceIn
  <2>7. \A i, j \in others : place[i] = place[j] => i = j
    <3>1. \A i, j \in others : i < j \/ j < i \/ i = j
      BY <2>4, <1>1
    <3>2. \A i \in others : place[i] \in Int
      BY <2>4, <1>1
    <3>3. QED
      BY <2>4, <3>1, <3>2
  <2>8. \A i \in others : /\ messages_'[i].message # m
                          /\ messages_'[i].message \notin fresh \cup delivered
                          /\ \A j \in DOMAIN pending :
                               messages_'[i].message # pending[j].message
    BY <2>4, <2>6 DEF ScheduledOnce, OnceIn
  <2>9. \A i, j \in others : messages_'[i].message = messages_'[j].message => i = j
    BY <2>4, <2>7 DEF ScheduledOnce, OnceIn
  <2>10. \A i \in DOMAIN messages_' : i \in others \/ (i = k + 1 /\ messages_'[i].message = m)
    BY <2>2, <2>4
  <2> HIDE DEF others
  <2>11. OnceIn(messages_)'
    BY <2>1, <2>5, <2>6, <2>8, <2>9, <2>10 DEF OnceIn
  <2>12. OnceIn(pending)'
    BY <2>1, <2>5 DEF ScheduledOnce, OnceIn
  <2>13. \A i \in DOMAIN messages_', j \in DOMAIN pending' :
           messages_'[i].message # pending'[j].message
    BY <2>5, <2>6, <2>8, <2>10
  <2>14. (fresh \cap delivered)' = {}
    BY <2>1, <2>5 DEF ScheduledOnce
  <2>15. QED
    BY <2>11, <2>12, <2>13, <2>14 DEF ScheduledOnce
<1>4. ASSUME NEW w \in ThreadIds, TakeOverdue(w) PROVE ScheduledOnce'
  <2>1. SplitAt(messages_, Overdue, pending', messages_') /\ Overdue \in 0 .. Len(messages_)
    BY <1>4, Taken, OverduePlace
  <2>2. UNCHANGED <<fresh, delivered>>
    BY <1>4 DEF TakeOverdue
  <2> DEFINE n == Overdue
  <2> HIDE DEF n
  <2>3. /\ n \in 0 .. Len(messages_) /\ DOMAIN pending' = 1 .. n
        /\ DOMAIN messages_' = 1 .. Len(messages_) - n
        /\ \A i \in 1 .. n : pending'[i] = messages_[i] /\ i \in DOMAIN messages_
        /\ \A i \in 1 .. Len(messages_) - n : messages_'[i] = messages_[n + i]
    BY <2>1, <1>1 DEF SplitAt, n
  <2>4. \A i \in 1 .. Len(messages_) - n : n + i \in DOMAIN messages_
    BY <2>3, <1>1
  <2>5. OnceIn(pending)'
    BY <2>2, <2>3 DEF ScheduledOnce, OnceIn
  <2>6. OnceIn(messages_)'
    <3>1. \A i, j \in 1 .. Len(messages_) - n : n + i = n + j => i = j
      BY <2>3, <1>1
    <3>2. ASSUME NEW i \in 1 .. Len(messages_) - n, NEW j \in 1 .. Len(messages_) - n,
                 messages_'[i].message = messages_'[j].message
          PROVE  i = j
      <4>1. messages_[n + i].message = messages_[n + j].message
        BY <2>3, <3>2
      <4>2. n + i = n + j
        BY <2>4, <4>1 DEF ScheduledOnce, OnceIn
      <4>3. QED
        BY <3>1, <4>2
    <3>3. ASSUME NEW i \in 1 .. Len(messages_) - n
          PROVE  messages_'[i].message \notin fresh' \cup delivered'
      BY <2>2, <2>3, <2>4 DEF ScheduledOnce, OnceIn
    <3>4. QED
      BY <2>3, <3>2, <3>3 DEF OnceIn
  <2>7. \A i \in DOMAIN messages_', j \in DOMAIN pending' :
          messages_'[i].message # pending'[j].message
    <3>1. \A i \in 1 .. Len(messages_) - n, j \in 1 .. n : n + i # j
      BY <2>3, <1>1
    <3>2. ASSUME NEW i \in 1 .. Len(messages_) - n, NEW j \in 1 .. n
          PROVE  messages_'[i].message # pending'[j].message
      <4>1. messages_'[i] = messages_[n + i] /\ pending'[j] = messages_[j]
        BY <2>3
      <4>2. n + i \in DOMAIN messages_ /\ j \in DOMAIN messages_ /\ n + i # j
        BY <2>3, <2>4, <3>1
      <4>3. QED
        BY <4>1, <4>2 DEF ScheduledOnce, OnceIn
    <3>3. QED
      BY <2>3, <3>2
  <2>8. QED
    BY <2>2, <2>5, <2>6, <2>7 DEF ScheduledOnce
<1>5. ASSUME NEW w \in ThreadIds, Deliver(w) PROVE ScheduledOnce'
  <2>1. /\ pending # <<>> /\ pending' = Tail(pending) /\ messages_' = messages_
        /\ fresh' = fresh /\ delivered' = delivered \cup {Head(pending).message}
    BY <1>5 DEF Deliver, WorkGoto, PendingDue
  <2>2. /\ DOMAIN pending' = 1 .. Len(pending) - 1 /\ 1 \in DOMAIN pending
        /\ \A i \in DOMAIN pending' : pending'[i] = pending[i + 1] /\ i + 1 \in DOMAIN pending
        /\ Head(pending) = pending[1]
    BY <1>1, <2>1 DEF SchTypeOK
  <2>3. \A i, j \in DOMAIN pending' : i + 1 # 1 /\ (i + 1 = j + 1 => i = j)
    BY <1>1, <2>2
  <2>4. OnceIn(pending)'
    BY <2>1, <2>2, <2>3 DEF ScheduledOnce, OnceIn
  <2>5. OnceIn(messages_)'
    BY <2>1, <2>2 DEF ScheduledOnce, OnceIn
  <2>6. \A i \in DOMAIN messages_', j \in DOMAIN pending' :
          messages_'[i].message # pending'[j].message
    BY <2>1, <2>2 DEF ScheduledOnce
  <2>7. (fresh \cap delivered)' = {}
    BY <2>1, <2>2 DEF ScheduledOnce, OnceIn
  <2>8. QED
    BY <2>4, <2>5, <2>6, <2>7 DEF ScheduledOnce
<1>6. ASSUME NEW w \in ThreadIds, WorkStep(w) \/ SpuriousWakeup(w),
             ~TakeOverdue(w), ~Deliver(w)
      PROVE  UNCHANGED <<pending, fresh, delivered>>
  BY <1>6 DEF WorkStep, NothingOverdue, TimedWait, TimedOut, SpuriousWakeup, NewEvents,
     NoNewEvents, BreakWork
<1>7. ASSUME NEW u \in Users,
             SignalNewEvent(u) \/ clear(u) \/ \E g \in Goals : unschedule(u, g)
      PROVE  UNCHANGED <<pending, fresh, delivered>>
  BY <1>7 DEF SignalNewEvent, clear, unschedule, Remaining
<1>8. ASSUME NEW c \in Controllers, DeactivateScheduler(c)
      PROVE  UNCHANGED <<pending, fresh, delivered>>
  BY <1>8 DEF DeactivateScheduler
<1>9. CASE Outside \/ Tick
  BY <1>2, <1>9, Unchanged DEF Outside, Tick, schedule_vars
<1>10. QED
  BY <1>2, <1>3, <1>4, <1>5, <1>6, <1>7, <1>8, <1>9, ListStep DEF SchedulerStep

\* A shift is learned only if the scheduler was told to.
LEMMA ShiftLearnedStep == ASSUME ShiftLearned, SchedulerStep PROVE ShiftLearned'
<1>1. ASSUME UNCHANGED <<delivery_time_adjustment_, delivery_time_shift_>>
      PROVE  ShiftLearned'
  BY <1>1 DEF ShiftLearned
<1>2. ASSUME NEW w \in ThreadIds, NewEvents(w) PROVE ShiftLearned'
  BY <1>2 DEF NewEvents, Late, ShiftLearned
<1>3. ASSUME NEW w \in ThreadIds, WorkStep(w) \/ SpuriousWakeup(w), ~NewEvents(w)
      PROVE  ShiftLearned'
  BY <1>1, <1>3 DEF WorkStep, TakeOverdue, NothingOverdue, TimedWait, TimedOut,
     SpuriousWakeup, NoNewEvents, BreakWork, Deliver
<1>4. ASSUME NEW u \in Users,
             \/ schedule(u) \/ SignalNewEvent(u) \/ clear(u)
             \/ \E g \in Goals : unschedule(u, g)
      PROVE  ShiftLearned'
  BY <1>1, <1>4 DEF schedule, SignalNewEvent, clear, unschedule, Remaining
<1>5. ASSUME NEW c \in Controllers, DeactivateScheduler(c) PROVE ShiftLearned'
  BY <1>1, <1>5 DEF DeactivateScheduler
<1>6. CASE Outside \/ Tick
  BY <1>1, <1>6 DEF Outside, Tick, schedule_vars
<1>7. QED
  BY <1>2, <1>3, <1>4, <1>5, <1>6 DEF SchedulerStep

\* A list that lost messages has no earlier first message.
LEMMA WaitsKept ==
    ASSUME SchTypeOK, Sorted, WaitsForFirst, NEW place, Thinned(place),
           UNCHANGED <<pabs_time, delivery_time_adjustment_, delivery_time_shift_>>
    PROVE  WaitsForFirst'
<1> SUFFICES ASSUME messages_' # <<>>
             PROVE  pabs_time # Never /\ pabs_time <= abs_time(Head(messages_'))
  BY DEF WaitsForFirst, abs_time
<1>1. /\ messages_ \in Seq(TimedMessage) /\ messages_' \in Seq(TimedMessage)
      /\ place \in [DOMAIN messages_' -> DOMAIN messages_]
      /\ \A i \in DOMAIN messages_' : messages_'[i] = messages_[place[i]]
  BY DEF Thinned, SchTypeOK
<1>2. /\ 1 \in DOMAIN messages_' /\ Head(messages_') = messages_'[1]
  BY <1>1
<1>3. /\ DOMAIN messages_ = 1 .. Len(messages_) /\ Len(messages_) \in Nat
      /\ place[1] \in DOMAIN messages_ /\ Head(messages_') = messages_[place[1]]
  BY <1>1, <1>2
<1>4. 1 \in DOMAIN messages_ /\ 1 <= place[1] /\ messages_ # <<>>
  BY <1>1, <1>3
<1>5. Head(messages_) = messages_[1]
  BY <1>1, <1>4
<1>6. Head(messages_).time <= Head(messages_').time
  BY <1>3, <1>4, <1>5 DEF Sorted
<1>7. /\ Head(messages_).time \in Nat /\ Head(messages_').time \in Nat
      /\ delivery_time_shift_ \in Nat
  <2>1. Head(messages_) \in TimedMessage /\ Head(messages_') \in TimedMessage
    BY <1>1, <1>3, <1>4, <1>5
  <2>2. QED
    BY <2>1, TimeIsInt DEF SchTypeOK
<1>8. abs_time(Head(messages_)) <= abs_time(Head(messages_'))
  BY <1>6, <1>7 DEF abs_time
<1>9. abs_time(Head(messages_)) \in Nat /\ abs_time(Head(messages_')) \in Nat
  BY <1>7 DEF abs_time
<1>10. pabs_time # Never /\ pabs_time <= abs_time(Head(messages_))
  BY <1>4 DEF WaitsForFirst
<1>11. pabs_time \in Nat
  BY <1>10, SchedulerAssumption DEF SchTypeOK
<1>12. QED
  BY <1>8, <1>9, <1>10, <1>11

\* The thread does not miss the first message.
LEMMA WakesInTimeStep ==
    ASSUME SchTypeOK, Sorted, WakesInTime, SchedulerStep PROVE WakesInTime'
<1>1. ASSUME NEW u \in Users, schedule(u) PROVE WakesInTime'
  <2>1. PICK m \in fresh, t \in 0 .. MaxTime, k \in 0 .. Len(messages_) :
          /\ InsertedAt(k, [message |-> m, time |-> t])
          /\ have_new_events_ => have_new_events_'
          /\ signaling \subseteq signaling'
          /\ k = 0 => have_new_events_' /\ u \in signaling'
    BY <1>1, ScheduleStep
  <2>2. UNCHANGED <<at, pabs_time, delivery_time_adjustment_, delivery_time_shift_>>
    BY <1>1 DEF schedule
  <2>3. CASE k = 0
    BY <2>1, <2>3 DEF WakesInTime
  <2>4. CASE k # 0
    <3>1. /\ messages_ \in Seq(TimedMessage) /\ Len(messages_) \in Nat
          /\ messages_' \in Seq(TimedMessage) /\ Len(messages_') = Len(messages_) + 1
          /\ \A i \in 1 .. k : messages_'[i] = messages_[i]
      BY <2>1 DEF SchTypeOK, InsertedAt, SplicedAt
    <3>2. 1 \in 1 .. k /\ Len(messages_) # 0
      BY <2>4, <3>1
    <3>3. messages_ # <<>> /\ messages_' # <<>> /\ Head(messages_') = Head(messages_)
      BY <3>1, <3>2
    <3>4. WaitsForFirst => WaitsForFirst'
      BY <2>2, <3>3 DEF WaitsForFirst, abs_time
    <3>5. QED
      BY <2>1, <2>2, <3>4 DEF WakesInTime
  <2>5. QED
    BY <2>3, <2>4
<1>2. ASSUME NEW place, Thinned(place),
             UNCHANGED <<at, pabs_time, delivery_time_adjustment_, delivery_time_shift_,
                         have_new_events_, signaling>>
      PROVE  WakesInTime'
  BY <1>2, WaitsKept DEF WakesInTime
<1>3. ASSUME NEW u \in Users, clear(u) \/ \E g \in Goals : unschedule(u, g)
      PROVE  WakesInTime'
  <2>1. \E place : Thinned(place)
    BY <1>3, Cleared, Unscheduled DEF clear, Remaining
  <2>2. UNCHANGED <<at, pabs_time, delivery_time_adjustment_, delivery_time_shift_,
                    have_new_events_, signaling>>
    BY <1>3 DEF clear, unschedule, Remaining
  <2>3. QED
    BY <1>2, <2>1, <2>2
<1>4. CASE Outside \/ Tick
  <2>1. UNCHANGED <<messages_, at, pabs_time, delivery_time_adjustment_,
                    delivery_time_shift_, have_new_events_, signaling>>
    BY <1>4 DEF Outside, Tick, schedule_vars
  <2>2. QED
    BY <1>2, <2>1, Unchanged
<1>5. ASSUME NEW u \in Users, SignalNewEvent(u) PROVE WakesInTime'
  <2>1. /\ at' # "wait" /\ (at' = "svc2" => at = "svc2")
        /\ UNCHANGED <<messages_, pabs_time, delivery_time_adjustment_,
                       delivery_time_shift_, have_new_events_>>
    BY <1>5 DEF SignalNewEvent, Signal
  <2>2. WaitsForFirst => WaitsForFirst'
    BY <2>1 DEF WaitsForFirst, abs_time
  <2>3. QED
    BY <2>1, <2>2 DEF WakesInTime
<1>6. ASSUME NEW c \in Controllers, DeactivateScheduler(c) PROVE WakesInTime'
  BY <1>6 DEF DeactivateScheduler, Signal, WakesInTime
<1>7. ASSUME NEW w \in ThreadIds, NothingOverdue(w) PROVE WakesInTime'
  <2>1. /\ at' = "svc2"
        /\ pabs_time' = IF messages_ = <<>> THEN Never ELSE abs_time(Head(messages_))
        /\ UNCHANGED <<messages_, delivery_time_adjustment_, delivery_time_shift_>>
    BY <1>7 DEF NothingOverdue, WorkGoto
  <2>2. messages_ # <<>> => abs_time(Head(messages_)) \in Nat
    <3>1. messages_ # <<>> => Head(messages_) \in TimedMessage
      BY DEF SchTypeOK
    <3>2. QED
      BY <3>1, TimeIsInt DEF abs_time, SchTypeOK
  <2>3. WaitsForFirst'
    BY <2>1, <2>2, SchedulerAssumption DEF WaitsForFirst, abs_time
  <2>4. QED
    BY <2>1, <2>3 DEF WakesInTime
<1>8. ASSUME NEW w \in ThreadIds, TimedWait(w) PROVE WakesInTime'
  <2>1. /\ at = "svc2" /\ at' = "wait" /\ ~have_new_events_
        /\ UNCHANGED <<messages_, pabs_time, delivery_time_adjustment_, delivery_time_shift_>>
    BY <1>8 DEF TimedWait, WorkGoto
  <2>2. WaitsForFirst'
    BY <2>1 DEF WakesInTime, WaitsForFirst, abs_time
  <2>3. QED
    BY <2>1, <2>2 DEF WakesInTime
<1>9. ASSUME NEW w \in ThreadIds, WorkStep(w) \/ SpuriousWakeup(w),
             ~NothingOverdue(w), ~TimedWait(w)
      PROVE  WakesInTime'
  <2>1. at' \notin {"svc2", "wait"}
    BY <1>9 DEF WorkStep, TakeOverdue, TimedOut, SpuriousWakeup, NewEvents, NoNewEvents,
       BreakWork, Deliver, WorkGoto
  <2>2. QED
    BY <2>1 DEF WakesInTime
<1>10. QED
  BY <1>1, <1>3, <1>4, <1>5, <1>6, <1>7, <1>8, <1>9 DEF SchedulerStep

\* Only terminate() of the job begins a termination, and it tells the thread.
LEMMA StopNoticedStep == ASSUME StopNoticed, SchedulerStep PROVE StopNoticed'
<1>1. CASE Outside
  <2>1. terminating_' = terminating_ \/ ~terminating_'
    <3>1. ASSUME NEW c \in Controllers, Activate(c) \/ Wait(c) \/ Continue(c)
          PROVE  terminating_' = terminating_ \/ ~terminating_'
      BY <3>1 DEF Activate, Wait, Continue, StartRefused, Start, CreateThread, CreateFails, Started,
         StartThrows, WaitReadsState, WaitReadsRunning, Join, TakeToken, Terminated, WaitEnds
    <3>2. ASSUME NEW w \in ThreadIds, ThreadFunc(w) PROVE terminating_' = terminating_
      BY <3>2 DEF ThreadFunc, AcquireStart, ReleaseStart, BeginWork, SkipWork, ThreadGoto
    <3>3. QED
      BY <1>1, <3>1, <3>2 DEF Outside, vars
  <2>2. UNCHANGED <<at, have_new_events_>>
    BY <1>1 DEF Outside, schedule_vars
  <2>3. QED
    BY <2>1, <2>2 DEF StopNoticed
<1>2. ASSUME NEW c \in Controllers, DeactivateScheduler(c) PROVE StopNoticed'
  BY <1>2 DEF DeactivateScheduler, Signal, StopNoticed
<1>3. ASSUME NEW u \in Users, schedule(u) PROVE StopNoticed'
  <2>1. at' = at /\ terminating_' = terminating_ /\ (have_new_events_' \/ have_new_events_' = have_new_events_)
    BY <1>3 DEF schedule, Tell, vars
  <2>2. QED
    BY <2>1 DEF StopNoticed
<1>4. ASSUME NEW u \in Users, SignalNewEvent(u) PROVE StopNoticed'
  BY <1>4 DEF SignalNewEvent, Signal, StopNoticed, vars
<1>5. ASSUME NEW u \in Users, clear(u) \/ \E g \in Goals : unschedule(u, g) PROVE StopNoticed'
  BY <1>5 DEF clear, unschedule, Remaining, StopNoticed, vars
<1>6. ASSUME NEW w \in ThreadIds, WorkStep(w) \/ SpuriousWakeup(w) PROVE StopNoticed'
  <2>1. CASE TakeOverdue(w) \/ NothingOverdue(w) \/ NewEvents(w) \/ NoNewEvents(w)
    BY <2>1 DEF TakeOverdue, NothingOverdue, NewEvents, NoNewEvents, StopNoticed, vars
  <2>2. CASE TimedWait(w)
    BY <2>2 DEF TimedWait, WorkGoto, StopNoticed, vars
  <2>3. CASE TimedOut(w) \/ SpuriousWakeup(w) \/ Deliver(w)
    BY <2>3 DEF TimedOut, SpuriousWakeup, Deliver, WorkGoto, StopNoticed, vars
  <2>4. CASE BreakWork(w)
    BY <2>4 DEF BreakWork, StopNoticed
  <2>5. QED
    BY <1>6, <2>1, <2>2, <2>3, <2>4 DEF WorkStep
<1>7. CASE Tick
  BY <1>7 DEF Tick, StopNoticed, vars
<1>8. QED
  BY <1>1, <1>2, <1>3, <1>4, <1>5, <1>6, <1>7 DEF SchedulerStep

-------------------------------------------------------------------------------
\* The invariant of the schedule.
THEOREM SchedulerInvariance == SchSpec => []SchIndInv
<1>1. SchInit => SchIndInv
  <2> SUFFICES ASSUME SchInit PROVE SchIndInv
    OBVIOUS
  <2>1. SchTypeOK
    <3>1. messages_ \in Seq(TimedMessage) /\ pending \in Seq(TimedMessage)
      BY DEF SchInit
    <3>2. clock \in 0 .. MaxTime /\ delivery_time_shift_ \in Nat
      BY SchedulerAssumption DEF SchInit
    <3>3. QED
      BY <3>1, <3>2 DEF SchInit, SchTypeOK, WorkStates
  <2>2. DOMAIN messages_ = {} /\ DOMAIN pending = {}
    BY DEF SchInit
  <2>3. ScheduledOnce /\ Sorted
    BY <2>2 DEF SchInit, ScheduledOnce, OnceIn, Sorted
  <2>4. PendingDue /\ ShiftLearned /\ WakesInTime /\ StopNoticed
    BY <2>2 DEF SchInit, Init, PendingDue, ShiftLearned, WakesInTime, StopNoticed
  <2>5. QED
    BY <2>1, <2>3, <2>4 DEF SchIndInv
<1>2. SchIndInv /\ [SchNext]_scheduler_state => SchIndInv'
  <2> SUFFICES ASSUME SchIndInv, [SchNext]_scheduler_state PROVE SchIndInv'
    OBVIOUS
  <2>1. SchedulerStep
    BY SchedulerSteps
  <2>2. /\ SchTypeOK /\ ScheduledOnce /\ Sorted
        /\ PendingDue /\ ShiftLearned /\ WakesInTime /\ StopNoticed
    BY DEF SchIndInv
  <2>3. SchTypeOK' /\ ScheduledOnce' /\ Sorted'
    BY <2>1, <2>2, SchTypeStep, ScheduledOnceStep, SortedStep
  <2>4. PendingDue' /\ ShiftLearned' /\ WakesInTime' /\ StopNoticed'
    BY <2>1, <2>2, PendingDueStep, ShiftLearnedStep, WakesInTimeStep, StopNoticedStep
  <2>5. QED
    BY <2>3, <2>4 DEF SchIndInv
<1>3. QED
  BY <1>1, <1>2, PTL DEF SchSpec

\* The types of all variables of the scheduler.
THEOREM SchedulerTypes == SchSpec => []SchTypeOK
<1>1. SchIndInv => SchTypeOK
  BY DEF SchIndInv
<1>2. QED
  BY <1>1, SchedulerInvariance, PTL

\* The thread never waits past the first message of the list, unless somebody is
\* about to signal, nor through its termination: work(), schedule, unschedule,
\* clear and terminate(), in any order.
THEOREM NeverOversleeps == SchSpec => []NoOversleep
<1>1. SchIndInv => NoOversleep
  BY DEF SchIndInv, WakesInTime, WaitsForFirst, StopNoticed, NoOversleep
<1>2. QED
  BY <1>1, SchedulerInvariance, PTL

-------------------------------------------------------------------------------
(***************************************************************************)
(* The refinement of Alarms.                                               *)
(***************************************************************************)
LEMMA ElementsOf == \A s : ToSet(s) = {s[i] : i \in DOMAIN s}
BY DEF ToSet

\* What the thread has taken may ring.
LEMMA PendingRings ==
    ASSUME SchTypeOK, PendingDue, ShiftLearned
    PROVE  \A x \in ToSet(pending) : Alarm!Due(x)
<1> SUFFICES ASSUME NEW i \in DOMAIN pending
             PROVE  pending[i].time <= clock + delivery_time_shift_
  BY ElementsOf DEF Alarm!Due
<1>1. pending[i] \in TimedMessage
  BY DEF SchTypeOK
<1>2. pending[i].time \in Nat /\ clock \in Nat /\ delivery_time_shift_ \in Nat
  BY <1>1, TimeIsInt, SchedulerAssumption DEF SchTypeOK
<1>3. abs_time(pending[i]) <= clock
  BY DEF PendingDue
<1>4. QED
  BY <1>2, <1>3 DEF abs_time, ShiftLearned

LEMMA AlarmArms ==
    ASSUME SchIndInv, NEW u \in Users, schedule(u)
    PROVE  \E m \in Messages, t \in 0 .. MaxTime : Alarm!Arm(m, t)
<1>1. PICK m \in fresh, t \in 0 .. MaxTime, k \in 0 .. Len(messages_) :
        InsertedAt(k, [message |-> m, time |-> t])
  BY ScheduleStep DEF SchIndInv
<1> DEFINE tm == [message |-> m, time |-> t]
<1>2. PICK place : Placed(messages_, k, tm, messages_', place)
  BY <1>1, SplicedFrom DEF InsertedAt, SchIndInv, SchTypeOK
<1> HIDE DEF tm
<1>3. /\ DOMAIN messages_' = 1 .. Len(messages_) + 1 /\ Len(messages_) \in Nat
      /\ k + 1 \in DOMAIN messages_' /\ messages_'[k + 1] = tm
      /\ \A i \in (DOMAIN messages_') \ {k + 1} :
           messages_'[i] = messages_[place[i]] /\ place[i] \in DOMAIN messages_
      /\ \A j \in DOMAIN messages_ : \E i \in (DOMAIN messages_') \ {k + 1} : place[i] = j
  BY <1>2 DEF Placed, SchIndInv, SchTypeOK
<1>4. ToSet(messages_') = ToSet(messages_) \cup {tm}
  <2>1. \A i \in DOMAIN messages_' : messages_'[i] \in ToSet(messages_) \cup {tm}
    BY <1>3, ElementsOf
  <2>2. \A j \in DOMAIN messages_ : messages_[j] \in ToSet(messages_')
    <3> SUFFICES ASSUME NEW j \in DOMAIN messages_ PROVE messages_[j] \in ToSet(messages_')
      OBVIOUS
    <3>1. PICK i \in (DOMAIN messages_') \ {k + 1} : place[i] = j
      BY <1>3
    <3>2. messages_'[i] = messages_[j] /\ i \in DOMAIN messages_'
      BY <1>3, <3>1
    <3>3. QED
      BY <3>2, ElementsOf
  <2>3. tm \in ToSet(messages_')
    BY <1>3, ElementsOf
  <2>4. QED
    BY <2>1, <2>2, <2>3, ElementsOf
<1>5. UNCHANGED <<pending, delivered, clock, delivery_time_adjustment_, delivery_time_shift_>>
  BY DEF schedule
<1>6. Armed' = Armed \cup {tm}
  BY <1>4, <1>5 DEF Armed
<1>7. m \in Messages /\ m \notin delivered /\ \A x \in Armed : x.message # m
  BY ElementsOf DEF SchIndInv, SchTypeOK, ScheduledOnce, OnceIn, Armed
<1>8. Alarm!Arm(m, t)
  BY <1>5, <1>6, <1>7 DEF Alarm!Arm, tm
<1>9. QED
  BY <1>7, <1>8

LEMMA AlarmCancels ==
    ASSUME SchIndInv, NEW u \in Users, NEW g \in Goals, unschedule(u, g)
    PROVE  Alarm!Cancel({m \in Messages : goal[m] = g})
<1>1. PICK place :
        /\ Thinned(place)
        /\ \A j \in DOMAIN messages_ :
             goal[messages_[j].message] # g => \E i \in DOMAIN messages_' : place[i] = j
        /\ \A i \in DOMAIN messages_' : goal[messages_'[i].message] # g
  BY Unscheduled DEF SchIndInv
<1>2. UNCHANGED <<pending, delivered, clock, delivery_time_adjustment_, delivery_time_shift_>>
  BY DEF unschedule, Remaining
<1>3. \A i \in DOMAIN messages_' : /\ place[i] \in DOMAIN messages_
                                   /\ messages_'[i] = messages_[place[i]]
  BY <1>1 DEF Thinned
<1>4. ToSet(messages_') \subseteq ToSet(messages_)
  BY <1>3, ElementsOf
<1>5. \A x \in ToSet(messages_) \ ToSet(messages_') : goal[x.message] = g
  <2> SUFFICES ASSUME NEW j \in DOMAIN messages_, goal[messages_[j].message] # g
               PROVE  messages_[j] \in ToSet(messages_')
    BY ElementsOf
  <2>1. PICK i \in DOMAIN messages_' : place[i] = j
    BY <1>1
  <2>2. messages_'[i] = messages_[j]
    BY <1>3, <2>1
  <2>3. QED
    BY <2>2, ElementsOf
<1>6. \A x \in ToSet(messages_') : goal[x.message] # g
  BY <1>1, ElementsOf
<1>7. \A x \in ToSet(messages_) : x.message \in Messages
  <2>1. \A i \in DOMAIN messages_ : messages_[i] \in TimedMessage
    BY DEF SchIndInv, SchTypeOK
  <2>2. QED
    BY <2>1, ElementsOf, TimeIsInt
<1>8. \A x \in ToSet(pending) : Alarm!Due(x)
  BY PendingRings DEF SchIndInv
<1>9. Armed' \subseteq Armed /\ Armed \ Armed' \subseteq ToSet(messages_) \ ToSet(messages_')
  BY <1>2, <1>4 DEF Armed
<1>10. \A x \in Armed' : x \in ToSet(messages_') \/ x \in ToSet(pending)
  BY <1>2 DEF Armed
<1>11. QED
  BY <1>2, <1>5, <1>6, <1>7, <1>8, <1>9, <1>10 DEF Alarm!Cancel

LEMMA AlarmCleared ==
    ASSUME SchIndInv, NEW u \in Users, clear(u) PROVE Alarm!Cancel(Messages)
<1>1. /\ messages_' = <<>>
      /\ UNCHANGED <<pending, delivered, clock, delivery_time_adjustment_,
                     delivery_time_shift_>>
  BY DEF clear, Remaining
<1>2. ToSet(messages_') = {}
  BY <1>1, ElementsOf
<1>3. \A x \in ToSet(messages_) : x.message \in Messages
  <2>1. \A i \in DOMAIN messages_ : messages_[i] \in TimedMessage
    BY DEF SchIndInv, SchTypeOK
  <2>2. QED
    BY <2>1, ElementsOf, TimeIsInt
<1>4. \A x \in ToSet(pending) : Alarm!Due(x)
  BY PendingRings DEF SchIndInv
<1>5. Armed' = ToSet(pending) /\ Armed = ToSet(messages_) \cup ToSet(pending)
  BY <1>1, <1>2 DEF Armed
<1>6. QED
  BY <1>1, <1>3, <1>4, <1>5 DEF Alarm!Cancel

LEMMA AlarmRings ==
    ASSUME SchIndInv, NEW w \in ThreadIds, Deliver(w) PROVE \E x \in Armed : Alarm!Ring(x)
<1>1. /\ pending # <<>> /\ pending \in Seq(TimedMessage)
      /\ pending' = Tail(pending) /\ messages_' = messages_
      /\ delivered' = delivered \cup {Head(pending).message}
      /\ UNCHANGED <<clock, delivery_time_adjustment_, delivery_time_shift_>>
  BY DEF SchIndInv, SchTypeOK, PendingDue, Deliver, WorkGoto
<1> DEFINE x == pending[1]
<1>2. /\ DOMAIN pending = 1 .. Len(pending) /\ Len(pending) \in Nat \ {0}
      /\ 1 \in DOMAIN pending /\ Head(pending) = x
      /\ DOMAIN pending' = 1 .. Len(pending) - 1
      /\ \A i \in 1 .. Len(pending) - 1 : pending'[i] = pending[i + 1]
  BY <1>1
<1>3. \A i \in DOMAIN pending :
        i = 1 \/ (i - 1 \in DOMAIN pending' /\ pending'[i - 1] = pending[i])
  <2> SUFFICES ASSUME NEW i \in DOMAIN pending, i # 1
               PROVE  i - 1 \in DOMAIN pending' /\ pending'[i - 1] = pending[i]
    OBVIOUS
  <2>1. i - 1 \in 1 .. Len(pending) - 1 /\ (i - 1) + 1 = i
    BY <1>2
  <2>2. QED
    BY <1>2, <2>1
<1>4. \A i \in DOMAIN pending' : i + 1 \in DOMAIN pending /\ i + 1 # 1
  BY <1>2
<1>5. /\ \A i \in DOMAIN pending' : pending'[i] # x
      /\ \A i \in DOMAIN messages_ : messages_[i] # x
  BY <1>2, <1>4 DEF SchIndInv, ScheduledOnce, OnceIn
<1>6. ToSet(pending') = ToSet(pending) \ {x} /\ x \in ToSet(pending)
  <2>1. \A i \in DOMAIN pending' : pending'[i] \in ToSet(pending) \ {x}
    BY <1>2, <1>4, <1>5, ElementsOf
  <2>2. \A i \in DOMAIN pending : pending[i] = x \/ pending[i] \in ToSet(pending')
    BY <1>3, ElementsOf
  <2>3. QED
    BY SMTT(30), <1>2, <2>1, <2>2, ElementsOf
<1>7. x \notin ToSet(messages_)
  BY <1>5, ElementsOf
<1> HIDE DEF x
<1>8. Armed' = Armed \ {x} /\ x \in Armed
  BY <1>1, <1>6, <1>7 DEF Armed
<1>9. Alarm!Due(x)
  BY <1>6, PendingRings DEF SchIndInv
<1>10. Alarm!Ring(x)
  BY <1>1, <1>2, <1>8, <1>9 DEF Alarm!Ring
<1>11. QED
  BY <1>8, <1>10

LEMMA AlarmAdjusts ==
    ASSUME SchIndInv, NEW w \in ThreadIds, NewEvents(w)
    PROVE  Alarm!Adjust \/ UNCHANGED Alarm!alarm_vars
<1>1. /\ UNCHANGED <<messages_, pending, delivered, clock, delivery_time_adjustment_>>
      /\ delivery_time_shift_' =
           IF Late THEN (clock - pabs_time) \div 2 ELSE delivery_time_shift_
  BY DEF NewEvents
<1>2. Armed' = Armed
  BY <1>1 DEF Armed
<1>3. CASE Late
  <2>1. /\ clock \in Nat /\ pabs_time \in Nat /\ clock > pabs_time
        /\ delivery_time_adjustment_
    BY <1>3, SchedulerAssumption DEF Late, SchIndInv, SchTypeOK
  <2>2. 2 * ((clock - pabs_time) \div 2) <= clock /\ (clock - pabs_time) \div 2 >= 0
    BY <2>1
  <2>3. QED
    BY <1>1, <1>2, <1>3, <2>1, <2>2 DEF Alarm!Adjust
<1>4. CASE ~Late
  BY <1>1, <1>2, <1>4 DEF Alarm!alarm_vars
<1>5. QED
  BY <1>3, <1>4

LEMMA AlarmTakes ==
    ASSUME SchIndInv, NEW w \in ThreadIds, TakeOverdue(w) PROVE UNCHANGED Alarm!alarm_vars
<1> DEFINE n == Overdue
<1>1. SplitAt(messages_, n, pending', messages_') /\ n \in 0 .. Len(messages_)
  BY Taken, OverduePlace DEF SchIndInv
<1>2. /\ pending = <<>>
      /\ UNCHANGED <<delivered, clock, delivery_time_adjustment_, delivery_time_shift_>>
  BY DEF TakeOverdue, WorkGoto, SchIndInv, PendingDue
<1> HIDE DEF n
<1>3. /\ DOMAIN messages_ = 1 .. Len(messages_) /\ Len(messages_) \in Nat
      /\ DOMAIN pending' = 1 .. n /\ DOMAIN messages_' = 1 .. Len(messages_) - n
      /\ \A i \in 1 .. n : pending'[i] = messages_[i]
      /\ \A i \in 1 .. Len(messages_) - n : messages_'[i] = messages_[n + i]
  BY <1>1 DEF SplitAt, SchIndInv, SchTypeOK
<1>4. \A i \in DOMAIN messages_ : messages_[i] \in ToSet(pending') \cup ToSet(messages_')
  <2> SUFFICES ASSUME NEW i \in DOMAIN messages_
               PROVE  messages_[i] \in ToSet(pending') \cup ToSet(messages_')
    OBVIOUS
  <2>1. CASE i <= n
    <3>1. i \in 1 .. n
      BY <1>1, <1>3, <2>1
    <3>2. QED
      BY <1>3, <3>1, ElementsOf
  <2>2. CASE ~(i <= n)
    <3>1. i - n \in 1 .. Len(messages_) - n /\ n + (i - n) = i
      BY <1>1, <1>3, <2>2
    <3>2. messages_'[i - n] = messages_[i] /\ i - n \in DOMAIN messages_'
      BY <1>3, <3>1
    <3>3. QED
      BY <3>2, ElementsOf
  <2>3. QED
    BY <2>1, <2>2
<1>5. \A i \in DOMAIN pending' : pending'[i] \in ToSet(messages_)
  <2>1. \A i \in 1 .. n : i \in DOMAIN messages_
    BY <1>1, <1>3
  <2>2. QED
    BY <1>3, <2>1, ElementsOf
<1>6. \A i \in DOMAIN messages_' : messages_'[i] \in ToSet(messages_)
  <2>1. \A i \in 1 .. Len(messages_) - n : n + i \in DOMAIN messages_
    BY <1>1, <1>3
  <2>2. QED
    BY <1>3, <2>1, ElementsOf
<1>7. ToSet(pending) = {}
  BY <1>2, ElementsOf
<1>8. Armed' = Armed
  BY <1>4, <1>5, <1>6, <1>7, ElementsOf DEF Armed
<1>9. QED
  BY <1>2, <1>8 DEF Alarm!alarm_vars

\* Scheduler implements Alarms: every message that is scheduled is delivered once,
\* not before its time but for the shift, unless it is removed.
THEOREM Refinement == SchSpec => ImplementsAlarms
<1>1. SchInit => Alarm!Init
  <2> SUFFICES ASSUME SchInit PROVE Alarm!Init
    OBVIOUS
  <2>1. Armed = {}
    BY ElementsOf DEF SchInit, Armed
  <2>2. QED
    BY <2>1, SchedulerAssumption DEF SchInit, Alarm!Init
<1>2. SchIndInv /\ [SchNext]_scheduler_state => [Alarm!Next]_(Alarm!alarm_vars)
  <2> SUFFICES ASSUME SchIndInv, SchedulerStep PROVE [Alarm!Next]_(Alarm!alarm_vars)
    BY SchedulerSteps
  <2>1. ASSUME UNCHANGED <<messages_, pending, delivered, clock,
                           delivery_time_adjustment_, delivery_time_shift_>>
        PROVE  UNCHANGED Alarm!alarm_vars
    BY <2>1 DEF Alarm!alarm_vars, Armed
  <2>2. ASSUME NEW w \in ThreadIds,
               \/ NothingOverdue(w) \/ TimedWait(w) \/ TimedOut(w) \/ SpuriousWakeup(w)
               \/ NoNewEvents(w) \/ BreakWork(w)
        PROVE  UNCHANGED Alarm!alarm_vars
    BY <2>1, <2>2 DEF NothingOverdue, TimedWait, TimedOut, SpuriousWakeup, NoNewEvents,
       BreakWork
  <2>3. ASSUME NEW c \in Controllers, DeactivateScheduler(c)
        PROVE  UNCHANGED Alarm!alarm_vars
    BY <2>1, <2>3 DEF DeactivateScheduler
  <2>4. ASSUME NEW u \in Users, SignalNewEvent(u) PROVE UNCHANGED Alarm!alarm_vars
    BY <2>1, <2>4 DEF SignalNewEvent
  <2>5. CASE Outside
    BY <2>1, <2>5 DEF Outside, schedule_vars
  <2>6. CASE Tick
    BY <2>6 DEF Tick, Alarm!Tick, Alarm!Next, Armed
  <2>7. ASSUME NEW w \in ThreadIds, WorkStep(w) \/ SpuriousWakeup(w)
        PROVE  [Alarm!Next]_(Alarm!alarm_vars)
    BY <2>2, <2>7, AlarmRings, AlarmAdjusts, AlarmTakes DEF WorkStep, Alarm!Next
  <2>8. ASSUME NEW u \in Users, schedule(u) \/ clear(u) PROVE Alarm!Next
    BY <2>8, AlarmArms, AlarmCleared DEF Alarm!Next
  <2>9. ASSUME NEW u \in Users, NEW g \in Goals, unschedule(u, g) PROVE Alarm!Next
    BY <2>9, AlarmCancels DEF Alarm!Next
  <2>10. QED
    BY <2>3, <2>4, <2>5, <2>6, <2>7, <2>8, <2>9 DEF SchedulerStep
<1>3. QED
  BY <1>1, <1>2, SchedulerInvariance, PTL DEF SchSpec, ImplementsAlarms, Alarm!Spec
===============================================================================
