---------------------------- MODULE ThreadingProofs ----------------------------
(***************************************************************************)
(* Proofs about ActiveObject, for any number of threads and controllers,   *)
(* of which one, the owner o, activates the object and waits for it, while *)
(* any of them deactivates it, and for threads whose creation succeeds.    *)
(* Without these assumptions the theorems are false: ActiveObject.cfg and  *)
(* ActiveObjectFailedStart.cfg show what a failed creation leaves behind.  *)
(*                                                                         *)
(* Then about TaskRunner, for any number of threads, producers and tasks   *)
(* and any limit of the queue, under the same discipline.  The runner is   *)
(* an active object, so that the invariant of ActiveObject holds; on top   *)
(* of it every task is in one place, and tokens and tasks balance.         *)
(***************************************************************************)
EXTENDS TaskRunner, FiniteSetTheorems, TLAPS

Disciplined(o) ==
    /\ o \in Controllers
    /\ Activators = {o}
    /\ Waiters = {o}
    /\ "create" \notin MayFail

\* The steps of such an object: the owner's, those of a controller that
\* deactivates it, and those of its threads.
OwnerStep(o) ==
    \/ Activate(o) \/ StartRefused(o) \/ Start(o) \/ CreateThread(o) \/ Started(o)
    \/ Wait(o) \/ WaitReadsState(o) \/ WaitReadsRunning(o) \/ Join(o) \/ TakeToken(o)
    \/ Terminated(o) \/ WaitEnds(o)

OneStep(o) ==
    \/ OwnerStep(o)
    \/ \E c \in Controllers : Deactivate(c)
    \/ \E w \in ThreadIds : ThreadFunc(w) \/ EndWork(w)
    \/ UNCHANGED vars

LEMMA Steps ==
    ASSUME NEW o, Disciplined(o), IndInv(o), [Next]_vars
    PROVE  OneStep(o)
<1>1. ASSUME NEW c \in Controllers, Continue(c) PROVE c = o
  BY <1>1 DEF Continue, StartRefused, StartThrows, Start, CreateThread, CreateFails,
     Started,
     WaitReadsState, WaitReadsRunning, Join, TakeToken, Terminated, WaitEnds, Goto,
     IndInv, OneOwner
<1>2. \A c \in Controllers : ~CreateFails(c)
  BY DEF Disciplined, CreateFails
<1>3. \A c \in Controllers : Activate(c) \/ Wait(c) => c = o
  BY DEF Disciplined, Activate, Wait
<1>4. QED
  BY <1>1, <1>2, <1>3 DEF Next, Continue, OneStep, OwnerStep

\* Types.
LEMMA TypeOKStep ==
    ASSUME NEW o, Disciplined(o), IndInv(o), OneStep(o)
    PROVE  TypeOK'
<1> USE ConstantsAssumption DEF Disciplined, IndInv, TypeOK, CallStates, InWait,
        ThreadStates, Goto, StartThrows, ThreadGoto, mutex_vars, runner_vars, history,
        Slots, Starting, Running
<1>1. CASE Activate(o)
  BY <1>1 DEF Activate
<1>2. CASE StartRefused(o)
  BY <1>2 DEF StartRefused
<1>3. CASE Start(o)
  BY <1>3 DEF Start
<1>4. CASE CreateThread(o)
  BY <1>4 DEF CreateThread
<1>5. CASE Started(o)
  BY <1>5 DEF Started
<1>6. CASE Wait(o)
  BY <1>6 DEF Wait
<1>7. CASE WaitReadsState(o)
  BY <1>7 DEF WaitReadsState
<1>8. CASE WaitReadsRunning(o)
  BY <1>8 DEF WaitReadsRunning
<1>9. CASE Join(o)
  BY <1>9 DEF Join
<1>10. CASE TakeToken(o)
  <2>1. start_semaphore_' \in Nat
    BY <1>10 DEF TakeToken
  <2>2. pc' \in [Controllers -> CallStates]
    BY <1>10 DEF TakeToken
  <2>3. QED
    BY <1>10, <2>1, <2>2 DEF TakeToken
<1>11. CASE Terminated(o)
  BY <1>11 DEF Terminated
<1>12. CASE WaitEnds(o)
  BY <1>12 DEF WaitEnds
<1>13. CASE \E c \in Controllers : Deactivate(c)
  BY <1>13 DEF Deactivate
<1>14. ASSUME NEW w \in ThreadIds, AcquireStart(w) PROVE TypeOK'
  BY <1>14 DEF AcquireStart
<1>15. ASSUME NEW w \in ThreadIds, ReleaseStart(w) PROVE TypeOK'
  BY <1>15 DEF ReleaseStart
<1>16. ASSUME NEW w \in ThreadIds, BeginWork(w) PROVE TypeOK'
  BY <1>16 DEF BeginWork
<1>17. ASSUME NEW w \in ThreadIds, SkipWork(w) PROVE TypeOK'
  BY <1>17 DEF SkipWork
<1>18. ASSUME NEW w \in ThreadIds, EndWork(w) PROVE TypeOK'
  BY <1>18 DEF EndWork
<1>19. CASE UNCHANGED vars
  BY <1>19 DEF vars
<1>20. QED
  BY <1>1, <1>2, <1>3, <1>4, <1>5, <1>6, <1>7, <1>8, <1>9, <1>10, <1>11, <1>12,
     <1>13, <1>14, <1>15, <1>16, <1>17, <1>18, <1>19
     DEF OneStep, OwnerStep, ThreadFunc

\* Only the owner is ever inside a call.
LEMMA OneOwnerStep ==
    ASSUME NEW o, Disciplined(o), IndInv(o), OneStep(o)
    PROVE  OneOwner(o)'
<1> USE ConstantsAssumption DEF Disciplined, IndInv, TypeOK, CallStates, InWait,
        ThreadStates, Goto, StartThrows, ThreadGoto, mutex_vars, runner_vars, history,
        OneOwner
<1>1. CASE Activate(o)
  BY <1>1 DEF Activate
<1>2. CASE StartRefused(o)
  BY <1>2 DEF StartRefused
<1>3. CASE Start(o)
  BY <1>3 DEF Start
<1>4. CASE CreateThread(o)
  BY <1>4 DEF CreateThread
<1>5. CASE Started(o)
  BY <1>5 DEF Started
<1>6. CASE Wait(o)
  BY <1>6 DEF Wait
<1>7. CASE WaitReadsState(o)
  BY <1>7 DEF WaitReadsState
<1>8. CASE WaitReadsRunning(o)
  BY <1>8 DEF WaitReadsRunning
<1>9. CASE Join(o)
  BY <1>9 DEF Join
<1>10. CASE TakeToken(o)
  BY <1>10 DEF TakeToken
<1>11. CASE Terminated(o)
  BY <1>11 DEF Terminated
<1>12. CASE WaitEnds(o)
  BY <1>12 DEF WaitEnds
<1>13. CASE \E c \in Controllers : Deactivate(c)
  BY <1>13 DEF Deactivate
<1>14. ASSUME NEW w \in ThreadIds, AcquireStart(w) PROVE OneOwner(o)'
  BY <1>14 DEF AcquireStart
<1>15. ASSUME NEW w \in ThreadIds, ReleaseStart(w) PROVE OneOwner(o)'
  BY <1>15 DEF ReleaseStart
<1>16. ASSUME NEW w \in ThreadIds, BeginWork(w) PROVE OneOwner(o)'
  BY <1>16 DEF BeginWork
<1>17. ASSUME NEW w \in ThreadIds, SkipWork(w) PROVE OneOwner(o)'
  BY <1>17 DEF SkipWork
<1>18. ASSUME NEW w \in ThreadIds, EndWork(w) PROVE OneOwner(o)'
  BY <1>18 DEF EndWork
<1>19. CASE UNCHANGED vars
  BY <1>19 DEF vars
<1>20. QED
  BY <1>1, <1>2, <1>3, <1>4, <1>5, <1>6, <1>7, <1>8, <1>9, <1>10, <1>11, <1>12,
     <1>13, <1>14, <1>15, <1>16, <1>17, <1>18, <1>19
     DEF OneStep, OwnerStep, ThreadFunc

\* No creation fails.
LEMMA NothingFailedStep ==
    ASSUME NEW o, Disciplined(o), IndInv(o), OneStep(o)
    PROVE  NothingFailed'
<1> USE DEF Disciplined, IndInv, TypeOK, CallStates, InWait, ThreadStates, Goto,
        StartThrows, ThreadGoto, mutex_vars, runner_vars, history, NothingFailed
<1>1. CASE Activate(o)
  BY <1>1 DEF Activate
<1>2. CASE StartRefused(o)
  BY <1>2 DEF StartRefused
<1>3. CASE Start(o)
  BY <1>3 DEF Start
<1>4. CASE CreateThread(o)
  BY <1>4 DEF CreateThread
<1>5. CASE Started(o)
  BY <1>5 DEF Started
<1>6. CASE Wait(o)
  BY <1>6 DEF Wait
<1>7. CASE WaitReadsState(o)
  BY <1>7 DEF WaitReadsState
<1>8. CASE WaitReadsRunning(o)
  BY <1>8 DEF WaitReadsRunning
<1>9. CASE Join(o)
  BY <1>9 DEF Join
<1>10. CASE TakeToken(o)
  BY <1>10 DEF TakeToken
<1>11. CASE Terminated(o)
  BY <1>11 DEF Terminated
<1>12. CASE WaitEnds(o)
  BY <1>12 DEF WaitEnds
<1>13. CASE \E c \in Controllers : Deactivate(c)
  BY <1>13 DEF Deactivate
<1>14. ASSUME NEW w \in ThreadIds, AcquireStart(w) PROVE NothingFailed'
  BY <1>14 DEF AcquireStart
<1>15. ASSUME NEW w \in ThreadIds, ReleaseStart(w) PROVE NothingFailed'
  BY <1>15 DEF ReleaseStart
<1>16. ASSUME NEW w \in ThreadIds, BeginWork(w) PROVE NothingFailed'
  BY <1>16 DEF BeginWork
<1>17. ASSUME NEW w \in ThreadIds, SkipWork(w) PROVE NothingFailed'
  BY <1>17 DEF SkipWork
<1>18. ASSUME NEW w \in ThreadIds, EndWork(w) PROVE NothingFailed'
  BY <1>18 DEF EndWork
<1>19. CASE UNCHANGED vars
  BY <1>19 DEF vars
<1>20. QED
  BY <1>1, <1>2, <1>3, <1>4, <1>5, <1>6, <1>7, <1>8, <1>9, <1>10, <1>11, <1>12,
     <1>13, <1>14, <1>15, <1>16, <1>17, <1>18, <1>19
     DEF OneStep, OwnerStep, ThreadFunc

\* The object that is not active has no thread.
LEMMA StoppedStep ==
    ASSUME NEW o, Disciplined(o), IndInv(o), OneStep(o)
    PROVE  Stopped(o)'
<1> USE DEF Disciplined, IndInv, TypeOK, CallStates, InWait, ThreadStates, Goto,
        StartThrows, ThreadGoto, mutex_vars, runner_vars, history, OneOwner, Stopped,
        Starting, Running, Stopping, NoThread
<1>1. CASE Activate(o)
  BY <1>1 DEF Activate
<1>2. CASE StartRefused(o)
  BY <1>2 DEF StartRefused
<1>3. CASE Start(o)
  BY <1>3 DEF Start
<1>4. CASE CreateThread(o)
  BY <1>4 DEF CreateThread
<1>5. CASE Started(o)
  BY <1>5 DEF Started
<1>6. CASE Wait(o)
  BY <1>6 DEF Wait
<1>7. CASE WaitReadsState(o)
  BY <1>7 DEF WaitReadsState
<1>8. CASE WaitReadsRunning(o)
  BY <1>8 DEF WaitReadsRunning
<1>9. CASE Join(o)
  BY <1>9 DEF Join
<1>10. CASE TakeToken(o)
  BY <1>10 DEF TakeToken
<1>11. CASE Terminated(o)
  BY <1>11 DEF Terminated
<1>12. CASE WaitEnds(o)
  BY <1>12 DEF WaitEnds
<1>13. CASE \E c \in Controllers : Deactivate(c)
  BY <1>13 DEF Deactivate
<1>14. ASSUME NEW w \in ThreadIds, AcquireStart(w) PROVE Stopped(o)'
  BY <1>14 DEF AcquireStart
<1>15. ASSUME NEW w \in ThreadIds, ReleaseStart(w) PROVE Stopped(o)'
  BY <1>15 DEF ReleaseStart
<1>16. ASSUME NEW w \in ThreadIds, BeginWork(w) PROVE Stopped(o)'
  BY <1>16 DEF BeginWork
<1>17. ASSUME NEW w \in ThreadIds, SkipWork(w) PROVE Stopped(o)'
  BY <1>17 DEF SkipWork
<1>18. ASSUME NEW w \in ThreadIds, EndWork(w) PROVE Stopped(o)'
  BY <1>18 DEF EndWork
<1>19. CASE UNCHANGED vars
  BY <1>19 DEF vars
<1>20. QED
  BY <1>1, <1>2, <1>3, <1>4, <1>5, <1>6, <1>7, <1>8, <1>9, <1>10, <1>11, <1>12,
     <1>13, <1>14, <1>15, <1>16, <1>17, <1>18, <1>19
     DEF OneStep, OwnerStep, ThreadFunc

\* The threads are held back until all of them are created.
LEMMA StartingStep ==
    ASSUME NEW o, Disciplined(o), IndInv(o), OneStep(o)
    PROVE  Starting(o)'
<1> USE ConstantsAssumption DEF Disciplined, IndInv, TypeOK, CallStates, InWait,
        ThreadStates, Goto, StartThrows, ThreadGoto, mutex_vars, runner_vars, history,
        OneOwner, Stopped, Starting, Running, Stopping, NoThread
<1>1. CASE Activate(o)
  BY <1>1 DEF Activate
<1>2. CASE StartRefused(o)
  BY <1>2 DEF StartRefused
<1>3. CASE Start(o)
  BY <1>3 DEF Start
<1>4. CASE CreateThread(o)
  BY <1>4 DEF CreateThread
<1>5. CASE Started(o)
  BY <1>5 DEF Started
<1>6. CASE Wait(o)
  BY <1>6 DEF Wait
<1>7. CASE WaitReadsState(o)
  BY <1>7 DEF WaitReadsState
<1>8. CASE WaitReadsRunning(o)
  BY <1>8 DEF WaitReadsRunning
<1>9. CASE Join(o)
  BY <1>9 DEF Join
<1>10. CASE TakeToken(o)
  BY <1>10 DEF TakeToken
<1>11. CASE Terminated(o)
  BY <1>11 DEF Terminated
<1>12. CASE WaitEnds(o)
  BY <1>12 DEF WaitEnds
<1>13. CASE \E c \in Controllers : Deactivate(c)
  BY <1>13 DEF Deactivate
<1>14. ASSUME NEW w \in ThreadIds, AcquireStart(w) PROVE Starting(o)'
  BY <1>14 DEF AcquireStart
<1>15. ASSUME NEW w \in ThreadIds, ReleaseStart(w) PROVE Starting(o)'
  BY <1>15 DEF ReleaseStart
<1>16. ASSUME NEW w \in ThreadIds, BeginWork(w) PROVE Starting(o)'
  BY <1>16 DEF BeginWork
<1>17. ASSUME NEW w \in ThreadIds, SkipWork(w) PROVE Starting(o)'
  BY <1>17 DEF SkipWork
<1>18. ASSUME NEW w \in ThreadIds, EndWork(w) PROVE Starting(o)'
  BY <1>18 DEF EndWork
<1>19. CASE UNCHANGED vars
  BY <1>19 DEF vars
<1>20. QED
  BY <1>1, <1>2, <1>3, <1>4, <1>5, <1>6, <1>7, <1>8, <1>9, <1>10, <1>11, <1>12,
     <1>13, <1>14, <1>15, <1>16, <1>17, <1>18, <1>19
     DEF OneStep, OwnerStep, ThreadFunc

\* The object that is active or deactivating has its threads.
LEMMA RunningStep ==
    ASSUME NEW o, Disciplined(o), IndInv(o), OneStep(o)
    PROVE  Running(o)'
<1> USE DEF Disciplined, IndInv, TypeOK, CallStates, InWait, ThreadStates, Goto,
        StartThrows, ThreadGoto, mutex_vars, runner_vars, history, OneOwner, Stopped,
        Starting, Running, Stopping, NoThread
<1>1. CASE Activate(o)
  BY <1>1 DEF Activate
<1>2. CASE StartRefused(o)
  BY <1>2 DEF StartRefused
<1>3. CASE Start(o)
  BY <1>3 DEF Start
<1>4. CASE CreateThread(o)
  BY <1>4 DEF CreateThread
<1>5. CASE Started(o)
  BY <1>5 DEF Started
<1>6. CASE Wait(o)
  BY <1>6 DEF Wait
<1>7. CASE WaitReadsState(o)
  BY <1>7 DEF WaitReadsState
<1>8. CASE WaitReadsRunning(o)
  BY <1>8 DEF WaitReadsRunning
<1>9. CASE Join(o)
  BY <1>9 DEF Join
<1>10. CASE TakeToken(o)
  BY <1>10 DEF TakeToken
<1>11. CASE Terminated(o)
  BY <1>11 DEF Terminated
<1>12. CASE WaitEnds(o)
  BY <1>12 DEF WaitEnds
<1>13. CASE \E c \in Controllers : Deactivate(c)
  BY <1>13 DEF Deactivate
<1>14. ASSUME NEW w \in ThreadIds, AcquireStart(w) PROVE Running(o)'
  BY <1>14 DEF AcquireStart
<1>15. ASSUME NEW w \in ThreadIds, ReleaseStart(w) PROVE Running(o)'
  BY <1>15 DEF ReleaseStart
<1>16. ASSUME NEW w \in ThreadIds, BeginWork(w) PROVE Running(o)'
  BY <1>16 DEF BeginWork
<1>17. ASSUME NEW w \in ThreadIds, SkipWork(w) PROVE Running(o)'
  BY <1>17 DEF SkipWork
<1>18. ASSUME NEW w \in ThreadIds, EndWork(w) PROVE Running(o)'
  BY <1>18 DEF EndWork
<1>19. CASE UNCHANGED vars
  BY <1>19 DEF vars
<1>20. QED
  BY <1>1, <1>2, <1>3, <1>4, <1>5, <1>6, <1>7, <1>8, <1>9, <1>10, <1>11, <1>12,
     <1>13, <1>14, <1>15, <1>16, <1>17, <1>18, <1>19
     DEF OneStep, OwnerStep, ThreadFunc

\* A wait leads from the last join to the end of the deactivation.
LEMMA StoppingStep ==
    ASSUME NEW o, Disciplined(o), IndInv(o), OneStep(o)
    PROVE  Stopping(o)'
<1> USE ConstantsAssumption DEF Disciplined, IndInv, TypeOK, CallStates, InWait,
        ThreadStates, Goto, StartThrows, ThreadGoto, mutex_vars, runner_vars, history,
        OneOwner, Stopped, Starting, Running, Stopping, NoThread, SlotsHoldThreads,
        Live, DoneOnlyAtEnd, OneToken, Slots
<1>1. CASE Activate(o)
  BY <1>1 DEF Activate
<1>2. CASE StartRefused(o)
  BY <1>2 DEF StartRefused
<1>3. CASE Start(o)
  BY <1>3 DEF Start
<1>4. CASE CreateThread(o)
  BY <1>4 DEF CreateThread
<1>5. CASE Started(o)
  BY <1>5 DEF Started
<1>6. CASE Wait(o)
  BY <1>6 DEF Wait
<1>7. CASE WaitReadsState(o)
  BY <1>7 DEF WaitReadsState
<1>8. CASE WaitReadsRunning(o)
  BY <1>8 DEF WaitReadsRunning
<1>9. CASE Join(o)
  BY <1>9 DEF Join
<1>10. CASE TakeToken(o)
  BY <1>10 DEF TakeToken
<1>11. CASE Terminated(o)
  BY <1>11 DEF Terminated
<1>12. CASE WaitEnds(o)
  BY <1>12 DEF WaitEnds
<1>13. CASE \E c \in Controllers : Deactivate(c)
  BY <1>13 DEF Deactivate
<1>14. ASSUME NEW w \in ThreadIds, AcquireStart(w) PROVE Stopping(o)'
  BY <1>14 DEF AcquireStart
<1>15. ASSUME NEW w \in ThreadIds, ReleaseStart(w) PROVE Stopping(o)'
  BY <1>15 DEF ReleaseStart
<1>16. ASSUME NEW w \in ThreadIds, BeginWork(w) PROVE Stopping(o)'
  BY <1>16 DEF BeginWork
<1>17. ASSUME NEW w \in ThreadIds, SkipWork(w) PROVE Stopping(o)'
  BY <1>17 DEF SkipWork
<1>18. ASSUME NEW w \in ThreadIds, EndWork(w) PROVE Stopping(o)'
  BY <1>18 DEF EndWork
<1>19. CASE UNCHANGED vars
  BY <1>19 DEF vars
<1>20. QED
  BY <1>1, <1>2, <1>3, <1>4, <1>5, <1>6, <1>7, <1>8, <1>9, <1>10, <1>11, <1>12,
     <1>13, <1>14, <1>15, <1>16, <1>17, <1>18, <1>19
     DEF OneStep, OwnerStep, ThreadFunc

\* The slots not yet joined hold the threads that exist.
LEMMA SlotsStep ==
    ASSUME NEW o, Disciplined(o), IndInv(o), OneStep(o)
    PROVE  SlotsHoldThreads(o)'
<1> USE ConstantsAssumption DEF Disciplined, IndInv, TypeOK, CallStates, InWait,
        ThreadStates, Goto, StartThrows, ThreadGoto, mutex_vars, runner_vars, history,
        OneOwner, Stopped, Starting, Running, Stopping, NoThread, SlotsHoldThreads,
        Live, Slots
<1>1. CASE Activate(o)
  BY <1>1 DEF Activate
<1>2. CASE StartRefused(o)
  BY <1>2 DEF StartRefused
<1>3. CASE Start(o)
  BY <1>3 DEF Start
<1>4. CASE CreateThread(o)
  BY <1>4 DEF CreateThread
<1>5. CASE Started(o)
  BY <1>5 DEF Started
<1>6. CASE Wait(o)
  BY <1>6 DEF Wait
<1>7. CASE WaitReadsState(o)
  BY <1>7 DEF WaitReadsState
<1>8. CASE WaitReadsRunning(o)
  BY <1>8 DEF WaitReadsRunning
<1>9. CASE Join(o)
  <2>1. CASE joined[o] < number_of_jobs_
    <3> DEFINE i == joined[o] + 1
    <3>1. /\ i \in Live(o) /\ i \in Slots /\ jobs_[i] \in ThreadIds
          /\ thread' = [thread EXCEPT ![jobs_[i]] = "none"]
          /\ pc' = pc /\ joined'[o] = i
          /\ UNCHANGED <<number_of_jobs_, jobs_, is_running_>>
      BY <1>9, <2>1 DEF Join
    <3>2. Live(o)' = Live(o) \ {i} /\ Live(o) \subseteq Slots
      BY <1>9, <2>1, <3>1 DEF Join
    <3>3. \A j \in Live(o)' : jobs_[j] # jobs_[i] /\ thread'[jobs_[j]] = thread[jobs_[j]]
      BY <1>9, <3>1, <3>2 DEF Join
    <3>4. \A w \in ThreadIds : thread'[w] # "none" => thread[w] # "none" /\ w # jobs_[i]
      BY <3>1
    <3> HIDE DEF i
    <3>5. \A w \in ThreadIds : thread'[w] # "none" => \E j \in Live(o)' : jobs_'[j] = w
      <4> SUFFICES ASSUME NEW w \in ThreadIds, thread'[w] # "none"
                   PROVE  \E j \in Live(o)' : jobs_'[j] = w
        OBVIOUS
      <4>1. PICK j \in Live(o) : jobs_[j] = w
        BY <1>9, <3>4 DEF Join
      <4>2. QED
        BY <3>1, <3>2, <3>4, <4>1
    <3>6. QED
      <4>1. is_running_ /\ pc[o] # "sem"
        BY <1>9 DEF Join
      <4>2. \A j \in Live(o)' : thread'[jobs_'[j]] # "none"
        BY <3>1, <3>2, <3>3, <4>1
      <4>3. \A j, k \in Live(o)' : jobs_'[j] = jobs_'[k] => j = k
        BY <3>1, <3>2, <4>1
      <4> HIDE DEF Live
      <4>4. QED
        BY <3>5, <4>2, <4>3
  <2>2. CASE joined[o] >= number_of_jobs_
    BY <1>9, <2>2 DEF Join
  <2>3. QED
    BY <1>9, <2>1, <2>2 DEF Join
<1>10. CASE TakeToken(o)
  BY <1>10 DEF TakeToken
<1>11. CASE Terminated(o)
  BY <1>11 DEF Terminated
<1>12. CASE WaitEnds(o)
  BY <1>12 DEF WaitEnds
<1>13. CASE \E c \in Controllers : Deactivate(c)
  BY <1>13 DEF Deactivate
<1>14. ASSUME NEW w \in ThreadIds, AcquireStart(w) PROVE SlotsHoldThreads(o)'
  BY SMTT(30), <1>14 DEF AcquireStart
<1>15. ASSUME NEW w \in ThreadIds, ReleaseStart(w) PROVE SlotsHoldThreads(o)'
  BY <1>15 DEF ReleaseStart
<1>16. ASSUME NEW w \in ThreadIds, BeginWork(w) PROVE SlotsHoldThreads(o)'
  BY <1>16 DEF BeginWork
<1>17. ASSUME NEW w \in ThreadIds, SkipWork(w) PROVE SlotsHoldThreads(o)'
  BY <1>17 DEF SkipWork
<1>18. ASSUME NEW w \in ThreadIds, EndWork(w) PROVE SlotsHoldThreads(o)'
  BY <1>18 DEF EndWork
<1>19. CASE UNCHANGED vars
  BY <1>19 DEF vars
<1>20. QED
  BY <1>1, <1>2, <1>3, <1>4, <1>5, <1>6, <1>7, <1>8, <1>9, <1>10, <1>11, <1>12,
     <1>13, <1>14, <1>15, <1>16, <1>17, <1>18, <1>19
     DEF OneStep, OwnerStep, ThreadFunc

\* No thread ends before the deactivation.
LEMMA DoneStep ==
    ASSUME NEW o, Disciplined(o), IndInv(o), OneStep(o)
    PROVE  DoneOnlyAtEnd'
<1> USE DEF Disciplined, IndInv, TypeOK, CallStates, InWait, ThreadStates, Goto,
        StartThrows, ThreadGoto, mutex_vars, runner_vars, history, OneOwner, Stopped,
        Starting, Running, Stopping, NoThread, DoneOnlyAtEnd
<1>1. CASE Activate(o)
  BY <1>1 DEF Activate
<1>2. CASE StartRefused(o)
  BY <1>2 DEF StartRefused
<1>3. CASE Start(o)
  BY <1>3 DEF Start
<1>4. CASE CreateThread(o)
  BY <1>4 DEF CreateThread
<1>5. CASE Started(o)
  BY <1>5 DEF Started
<1>6. CASE Wait(o)
  BY <1>6 DEF Wait
<1>7. CASE WaitReadsState(o)
  BY <1>7 DEF WaitReadsState
<1>8. CASE WaitReadsRunning(o)
  BY <1>8 DEF WaitReadsRunning
<1>9. CASE Join(o)
  BY <1>9 DEF Join
<1>10. CASE TakeToken(o)
  BY <1>10 DEF TakeToken
<1>11. CASE Terminated(o)
  BY <1>11 DEF Terminated
<1>12. CASE WaitEnds(o)
  BY <1>12 DEF WaitEnds
<1>13. CASE \E c \in Controllers : Deactivate(c)
  BY <1>13 DEF Deactivate
<1>14. ASSUME NEW w \in ThreadIds, AcquireStart(w) PROVE DoneOnlyAtEnd'
  BY <1>14 DEF AcquireStart
<1>15. ASSUME NEW w \in ThreadIds, ReleaseStart(w) PROVE DoneOnlyAtEnd'
  BY <1>15 DEF ReleaseStart
<1>16. ASSUME NEW w \in ThreadIds, BeginWork(w) PROVE DoneOnlyAtEnd'
  BY <1>16 DEF BeginWork
<1>17. ASSUME NEW w \in ThreadIds, SkipWork(w) PROVE DoneOnlyAtEnd'
  BY <1>17 DEF SkipWork
<1>18. ASSUME NEW w \in ThreadIds, EndWork(w) PROVE DoneOnlyAtEnd'
  BY <1>18 DEF EndWork
<1>19. CASE UNCHANGED vars
  BY <1>19 DEF vars
<1>20. QED
  BY <1>1, <1>2, <1>3, <1>4, <1>5, <1>6, <1>7, <1>8, <1>9, <1>10, <1>11, <1>12,
     <1>13, <1>14, <1>15, <1>16, <1>17, <1>18, <1>19
     DEF OneStep, OwnerStep, ThreadFunc

\* There is at most one token.
LEMMA TokenStep ==
    ASSUME NEW o, Disciplined(o), IndInv(o), OneStep(o)
    PROVE  OneToken'
<1> USE DEF Disciplined, IndInv, TypeOK, CallStates, InWait, ThreadStates, Goto,
        StartThrows, ThreadGoto, mutex_vars, runner_vars, history, OneOwner, Stopped,
        Starting, Running, Stopping, NoThread, OneToken
<1>1. CASE Activate(o)
  BY <1>1 DEF Activate
<1>2. CASE StartRefused(o)
  BY <1>2 DEF StartRefused
<1>3. CASE Start(o)
  BY <1>3 DEF Start
<1>4. CASE CreateThread(o)
  BY <1>4 DEF CreateThread
<1>5. CASE Started(o)
  BY <1>5 DEF Started
<1>6. CASE Wait(o)
  BY <1>6 DEF Wait
<1>7. CASE WaitReadsState(o)
  BY <1>7 DEF WaitReadsState
<1>8. CASE WaitReadsRunning(o)
  BY <1>8 DEF WaitReadsRunning
<1>9. CASE Join(o)
  BY <1>9 DEF Join
<1>10. CASE TakeToken(o)
  BY <1>10 DEF TakeToken
<1>11. CASE Terminated(o)
  BY <1>11 DEF Terminated
<1>12. CASE WaitEnds(o)
  BY <1>12 DEF WaitEnds
<1>13. CASE \E c \in Controllers : Deactivate(c)
  BY <1>13 DEF Deactivate
<1>14. ASSUME NEW w \in ThreadIds, AcquireStart(w) PROVE OneToken'
  BY <1>14 DEF AcquireStart
<1>15. ASSUME NEW w \in ThreadIds, ReleaseStart(w) PROVE OneToken'
  BY <1>15 DEF ReleaseStart
<1>16. ASSUME NEW w \in ThreadIds, BeginWork(w) PROVE OneToken'
  BY <1>16 DEF BeginWork
<1>17. ASSUME NEW w \in ThreadIds, SkipWork(w) PROVE OneToken'
  BY <1>17 DEF SkipWork
<1>18. ASSUME NEW w \in ThreadIds, EndWork(w) PROVE OneToken'
  BY <1>18 DEF EndWork
<1>19. CASE UNCHANGED vars
  BY <1>19 DEF vars
<1>20. QED
  BY <1>1, <1>2, <1>3, <1>4, <1>5, <1>6, <1>7, <1>8, <1>9, <1>10, <1>11, <1>12,
     <1>13, <1>14, <1>15, <1>16, <1>17, <1>18, <1>19
     DEF OneStep, OwnerStep, ThreadFunc

LEMMA InitIndInv == ASSUME NEW o, Disciplined(o), Init PROVE IndInv(o)
<1>1. TypeOK
  <2>1. number_of_jobs_ \in 0 .. threads_number
    BY ConstantsAssumption DEF Init
  <2>2. joined \in [Controllers -> 0 .. threads_number] /\ failures \in 0 .. MaxFailures
    BY ConstantsAssumption DEF Init
  <2>3. QED
    BY <2>1, <2>2 DEF Init, TypeOK, CallStates, ThreadStates
<1>2. OneOwner(o) /\ NothingFailed /\ DoneOnlyAtEnd /\ OneToken /\ SlotsHoldThreads(o)
  BY DEF Init, Disciplined, OneOwner, NothingFailed, DoneOnlyAtEnd, OneToken,
     SlotsHoldThreads,
     InWait
<1>3. Stopped(o) /\ Starting(o) /\ Running(o) /\ Stopping(o)
  BY DEF Init, Disciplined, Stopped, Starting, Running, Stopping, NoThread
<1>4. QED
  BY <1>1, <1>2, <1>3 DEF IndInv

\* The inductive invariant holds in every reachable state.
THEOREM Invariance == ASSUME NEW o, Disciplined(o) PROVE Spec => []IndInv(o)
<1>1. Init => IndInv(o)
  BY InitIndInv
<1>2. IndInv(o) /\ [Next]_vars => IndInv(o)'
  <2> SUFFICES ASSUME IndInv(o), [Next]_vars PROVE IndInv(o)'
    OBVIOUS
  <2>1. OneStep(o)
    BY Steps
  <2>2. QED
    BY <2>1, TypeOKStep, OneOwnerStep, NothingFailedStep, StoppedStep, StartingStep,
       RunningStep, StoppingStep, SlotsStep, DoneStep, TokenStep DEF IndInv
<1>3. QED
  BY <1>1, <1>2, PTL DEF Spec

-------------------------------------------------------------------------------
(***************************************************************************)
(* What follows from it.                                                   *)
(***************************************************************************)
\* The types of all variables.
THEOREM TypeCorrect == ASSUME NEW o, Disciplined(o) PROVE Spec => []TypeOK
<1>1. IndInv(o) => TypeOK
  BY DEF IndInv
<1>2. QED
  BY <1>1, Invariance, PTL

\* An object that is not active has no thread and can be activated again:
\* wait_object of ActiveObjectCommonImpl loses no thread.
THEOREM StoppedIsStopped ==
    ASSUME NEW o, Disciplined(o) PROVE Spec => []StoppedMeansStopped
<1>1. IndInv(o) => StoppedMeansStopped
  <2> SUFFICES ASSUME IndInv(o), active_state_ = "not_active" PROVE StoppedMeansStopped
    BY DEF StoppedMeansStopped
  <2>1. stale = {} /\ failures = 0 /\ start_semaphore_ = 0 /\ NoThread
        /\ ~is_running_ /\ ~terminating_
    BY DEF IndInv, NothingFailed, Stopped
  <2>2. Cardinality({w \in stale : thread[w] = "woken"}) = 0
    <3>1. {w \in stale : thread[w] = "woken"} = {}
      BY <2>1
    <3>2. QED
      BY <3>1, FS_EmptySet
  <2>3. QED
    BY <2>1, <2>2 DEF StoppedMeansStopped, NoThread
<1>2. QED
  BY <1>1, Invariance, PTL

\* Nobody keeps the token of start.
LEMMA HandedOnStep ==
    ASSUME NEW o, Disciplined(o), IndInv(o), TokenHandedOn,
           OneStep(o)
    PROVE  TokenHandedOn'
<1> USE DEF Disciplined, IndInv, TypeOK, CallStates, InWait, ThreadStates, Goto,
        StartThrows, ThreadGoto, mutex_vars, runner_vars, history, OneOwner, Stopped,
        Starting, Running, Stopping, NoThread, OneToken,
        TokenHandedOn
<1>1. CASE Activate(o)
  BY <1>1 DEF Activate
<1>2. CASE StartRefused(o)
  BY <1>2 DEF StartRefused
<1>3. CASE Start(o)
  BY <1>3 DEF Start
<1>4. CASE CreateThread(o)
  BY <1>4 DEF CreateThread
<1>5. CASE Started(o)
  BY <1>5 DEF Started
<1>6. CASE Wait(o)
  BY <1>6 DEF Wait
<1>7. CASE WaitReadsState(o)
  BY <1>7 DEF WaitReadsState
<1>8. CASE WaitReadsRunning(o)
  BY <1>8 DEF WaitReadsRunning
<1>9. CASE Join(o)
  BY <1>9 DEF Join
<1>10. CASE TakeToken(o)
  BY <1>10 DEF TakeToken
<1>11. CASE Terminated(o)
  BY <1>11 DEF Terminated
<1>12. CASE WaitEnds(o)
  BY <1>12 DEF WaitEnds
<1>13. CASE \E c \in Controllers : Deactivate(c)
  BY <1>13 DEF Deactivate
<1>14. ASSUME NEW w \in ThreadIds, AcquireStart(w) PROVE TokenHandedOn'
  BY <1>14 DEF AcquireStart
<1>15. ASSUME NEW w \in ThreadIds, ReleaseStart(w) PROVE TokenHandedOn'
  BY <1>15 DEF ReleaseStart
<1>16. ASSUME NEW w \in ThreadIds, BeginWork(w) PROVE TokenHandedOn'
  BY <1>16 DEF BeginWork
<1>17. ASSUME NEW w \in ThreadIds, SkipWork(w) PROVE TokenHandedOn'
  BY <1>17 DEF SkipWork
<1>18. ASSUME NEW w \in ThreadIds, EndWork(w) PROVE TokenHandedOn'
  BY <1>18 DEF EndWork
<1>19. CASE UNCHANGED vars
  BY <1>19 DEF vars
<1>20. QED
  BY <1>1, <1>2, <1>3, <1>4, <1>5, <1>6, <1>7, <1>8, <1>9, <1>10, <1>11, <1>12,
     <1>13, <1>14, <1>15, <1>16, <1>17, <1>18, <1>19
     DEF OneStep, OwnerStep, ThreadFunc

\* The start semaphore holds every thread back until all of them are created and
\* then lets all of them go, and wait_for_completion joins only threads that
\* exist, each of them once.
THEOREM HeldBackAndJoined == ASSUME NEW o, Disciplined(o) PROVE Spec => []ThreadsInOrder
<1>1. IndInv(o) => NoWorkBeforeStarted
  BY DEF IndInv, OneOwner, Starting, NoThread, NoWorkBeforeStarted, Working
<1>2. IndInv(o) => JoinsExisting
  <2> SUFFICES ASSUME IndInv(o), NEW c \in Controllers, pc[c] = "join",
                      joined[c] < number_of_jobs_
               PROVE  thread[jobs_[joined[c] + 1]] # "none"
    BY DEF JoinsExisting
  <2>1. c = o
    BY DEF IndInv, OneOwner
  <2>2. is_running_
    BY <2>1 DEF IndInv, Running, Stopping
  <2>3. joined[c] + 1 \in Live(o)
    BY <2>1 DEF IndInv, TypeOK, Live, Disciplined
  <2>4. QED
    BY <2>1, <2>2, <2>3 DEF IndInv, SlotsHoldThreads
<1>3. Init => TokenHandedOn
  BY DEF Init, TokenHandedOn
<1>4. IndInv(o) /\ TokenHandedOn /\ [Next]_vars => TokenHandedOn'
  BY Steps, HandedOnStep
<1>5. Spec => []TokenHandedOn
  BY <1>3, <1>4, Invariance, PTL DEF Spec
<1>6. NoWorkBeforeStarted /\ JoinsExisting /\ TokenHandedOn => ThreadsInOrder
  BY DEF ThreadsInOrder
<1>7. QED
  BY <1>1, <1>2, <1>5, <1>6, Invariance, PTL

-------------------------------------------------------------------------------
\* There are at most threads_number threads.
LEMMA FewThreads ==
    ASSUME NEW o, Disciplined(o), IndInv(o), is_running_, pc[o] # "sem",
           NEW W \in SUBSET {w \in ThreadIds : thread[w] # "none"}
    PROVE  Cardinality(W) <= threads_number
<1> DEFINE f == [i \in Slots |-> jobs_[i]]
           T == {jobs_[i] : i \in Slots}
<1>1. IsFiniteSet(Slots) /\ Cardinality(Slots) = threads_number
  BY ConstantsAssumption, FS_Interval DEF Slots
<1>2. f \in Surjection(Slots, T)
  BY DEF Surjection
<1>3. IsFiniteSet(T) /\ Cardinality(T) <= Cardinality(Slots)
  <2> HIDE DEF f, T
  <2>1. QED
    BY <1>1, <1>2, FS_Surjection
<1>4. Live(o) \subseteq Slots
  <2>1. /\ joined[o] \in 0 .. threads_number
        /\ number_of_jobs_ \in 0 .. threads_number
        /\ threads_number \in Nat
    BY ConstantsAssumption DEF IndInv, TypeOK, Disciplined
  <2>2. QED
    BY <2>1 DEF Live, Slots
<1>5. W \subseteq T
  BY <1>4 DEF IndInv, SlotsHoldThreads
<1>6. IsFiniteSet(W) /\ Cardinality(W) <= Cardinality(T)
  <2> HIDE DEF T
  <2>1. QED
    BY <1>3, <1>5, FS_Subset
<1>7. Cardinality(W) \in Nat /\ Cardinality(T) \in Nat /\ threads_number \in Nat
  BY <1>3, <1>6, FS_CardinalityType, ConstantsAssumption
<1>8. QED
  <2> HIDE DEF T
  <2>1. QED
    BY <1>1, <1>3, <1>6, <1>7

\* Lifecycle counts as this module does.
LEMMA SameCardinality == \A S : Abstract!Cardinality(S) = Cardinality(S)
BY DEF Abstract!Cardinality, Cardinality

\* ActiveObjectCommonImpl and ThreadRunner keep the promise of Lifecycle.
THEOREM Refinement ==
    ASSUME NEW o, Disciplined(o)
    PROVE  Spec => ImplementsLifecycle
<1>1. Init => Abstract!Init
  BY DEF Init, Abstract!Init, Working
<1>2. ASSUME IndInv(o), IndInv(o)', [Next]_vars
      PROVE  Abstract!Next \/ UNCHANGED <<active_state_, Working \ stale>>
  <2>1. stale = {} /\ stale' = {} /\ OneStep(o)
    BY <1>2, Steps DEF IndInv, NothingFailed
  <2>2. Working \ stale = Working /\ (Working \ stale)' = Working'
    BY <2>1
  <2> USE <2>2
  <2>3. CASE UNCHANGED vars
    BY <2>3 DEF vars, runner_vars, Working
  <2>4. ASSUME NEW c \in Controllers, Deactivate(c)
        PROVE  Abstract!Next
    BY <2>4 DEF Deactivate, runner_vars, Working, Abstract!Next, Abstract!Deactivate
  <2>5. CASE Activate(o)
    <3>1. Working = {} /\ Working' = {}
      BY <1>2, <2>5 DEF Activate, runner_vars, IndInv, Stopped, NoThread, Working
    <3>2. QED
      BY <2>5, <3>1 DEF Activate, Abstract!Next, Abstract!Activate
  <2>6. CASE StartRefused(o)
    <3>1. Working = {} /\ Working' = {} /\ active_state_ = "active"
      BY <1>2, <2>6 DEF StartRefused, StartThrows, Goto, IndInv, Starting,
         NoThread, Working
    <3>2. QED
      BY <2>6, <3>1 DEF StartRefused, StartThrows, Abstract!Next, Abstract!ActivateFails
  <2>7. CASE WaitEnds(o)
    <3>1. CASE active_state_ = "deactivating"
      <4>1. Working = {} /\ Working' = {}
        BY <1>2, <2>7, <3>1
        DEF WaitEnds, Goto, runner_vars, IndInv, Stopping, NoThread, Working
      <4>2. QED
        BY <2>7, <3>1, <4>1 DEF WaitEnds, Abstract!Next, Abstract!Stop
    <3>2. CASE active_state_ # "deactivating"
      BY <2>7, <3>2 DEF WaitEnds, runner_vars, Working
    <3>3. QED
      BY <3>1, <3>2
  <2>8. CASE Start(o) \/ Started(o) \/ Wait(o) \/ WaitReadsState(o) \/ WaitReadsRunning(o)
             \/ TakeToken(o) \/ Terminated(o)
    BY <2>8 DEF Start, Started, Wait, WaitReadsState, WaitReadsRunning, TakeToken,
       Terminated,
       runner_vars, Working
  <2>9. CASE CreateThread(o)
    <3>1. active_state_' = active_state_
          /\ \A w \in ThreadIds : thread'[w] = "work" <=> thread[w] = "work"
      BY <1>2, <2>9 DEF CreateThread, IndInv, TypeOK
    <3>2. QED
      BY <3>1 DEF Working
  <2>10. CASE Join(o)
    <3>1. active_state_' = active_state_
          /\ \A w \in ThreadIds : thread'[w] = "work" <=> thread[w] = "work"
      BY <1>2, <2>10 DEF Join, IndInv, TypeOK
    <3>2. QED
      BY <3>1 DEF Working
  <2>11. ASSUME NEW w \in ThreadIds, AcquireStart(w) \/ ReleaseStart(w) \/ SkipWork(w)
         PROVE  UNCHANGED <<active_state_, Working \ stale>>
    <3>1. active_state_' = active_state_
          /\ \A v \in ThreadIds : thread'[v] = "work" <=> thread[v] = "work"
      BY <1>2, <2>11 DEF AcquireStart, ReleaseStart, SkipWork, ThreadGoto,
         IndInv, TypeOK
    <3>2. QED
      BY <3>1 DEF Working
  <2>12. ASSUME NEW w \in ThreadIds, BeginWork(w) PROVE Abstract!Next
    <3>1. /\ active_state_' = active_state_ /\ thread[w] = "check"
          /\ Working' = Working \cup {w}
      BY <1>2, <2>12 DEF BeginWork, ThreadGoto, IndInv, TypeOK, Working
    <3>2. is_running_ /\ pc[o] # "sem" /\ active_state_ # "not_active"
      BY <1>2, <2>12, <3>1 DEF BeginWork, IndInv, Stopped, Stopping, NoThread
    <3>3. Cardinality(Working \cup {w}) <= threads_number
      <4> DEFINE W == Working \cup {w}
      <4>1. W \in SUBSET {v \in ThreadIds : thread[v] # "none"}
        BY <3>1 DEF Working
      <4> HIDE DEF W
      <4>3. Cardinality(W) <= threads_number
        BY <1>2, <3>2, <4>1, FewThreads
      <4>4. QED
        BY <4>3 DEF W
    <3>4. QED
      <4>1. Abstract!Begin(w)
        <5> DEFINE W == Working \ stale
        <5>1. W = Working /\ W' = Working'
          BY <2>2
        <5> HIDE DEF W
        <5>2. /\ active_state_ # "not_active" /\ active_state_' = active_state_
              /\ Cardinality(W \cup {w}) <= threads_number
              /\ W' = W \cup {w}
          BY <3>1, <3>2, <3>3, <5>1
        <5>3. QED
          BY <5>2, SameCardinality DEF Abstract!Begin, W
      <4>2. QED
        BY <4>1 DEF Abstract!Next
  <2>13. ASSUME NEW w \in ThreadIds, EndWork(w) PROVE Abstract!Next
    <3>1. /\ active_state_' = active_state_ /\ w \in Working /\ terminating_
          /\ Working' = Working \ {w}
      BY <1>2, <2>13 DEF EndWork, ThreadGoto, IndInv, TypeOK, Working
    <3>2. active_state_ = "deactivating"
      BY <1>2, <3>1 DEF IndInv, TypeOK, CallStates, InWait, Disciplined,
         Stopped, Starting,
         Running, Stopping, NoThread, Working
    <3>3. QED
      BY <3>1, <3>2 DEF Abstract!Next, Abstract!End
  <2>14. QED
    BY <2>1, <2>3, <2>4, <2>5, <2>6, <2>7, <2>8, <2>9, <2>10, <2>11, <2>12, <2>13
       DEF OneStep, OwnerStep, ThreadFunc
<1>3. QED
  BY <1>1, <1>2, Invariance, PTL DEF Spec, ImplementsLifecycle, Abstract!Spec

-------------------------------------------------------------------------------
(* TaskRunner.                                                               *)

\* The steps of the active object that leave the queue alone.
Outside ==
    /\ \/ \E c \in Controllers : Activate(c) \/ Wait(c) \/ Continue(c)
       \/ \E w \in ThreadIds : ThreadFunc(w)
       \/ UNCHANGED vars
    /\ UNCHANGED queue_vars

RunnerStep ==
    \/ Outside
    \/ \E c \in Controllers : DeactivateRunner(c) \/ Clear(c)
    \/ \E p \in Producers : EnqueueTask(p) \/ EnqueueStep(p)
    \/ \E w \in ThreadIds : WorkStep(w)

LEMMA RunnerSteps == ASSUME [TRNext]_runner_state PROVE RunnerStep
<1>1. ASSUME NEW c \in Controllers, Control(c) \/ ControlContinues(c) PROVE Outside
  BY <1>1 DEF Control, ControlContinues, Outside
<1>2. ASSUME NEW w \in ThreadIds, ThreadStarts(w) PROVE Outside
  BY <1>2 DEF ThreadStarts, Outside
<1>3. CASE UNCHANGED runner_state
  BY <1>3 DEF runner_state, Outside, RunnerStep
<1>4. CASE TRNext
  BY <1>1, <1>2, <1>4 DEF TRNext, RunnerStep
<1>5. QED
  BY <1>3, <1>4

\* A step of the runner is one of its active object, or none.
LEMMA RunnerRefines == ASSUME RunnerStep PROVE [Next]_vars
<1>1. ASSUME NEW c \in Controllers, DeactivateRunner(c) \/ Clear(c) PROVE [Next]_vars
  BY <1>1 DEF DeactivateRunner, Clear, Next
<1>2. ASSUME NEW p \in Producers, EnqueueTask(p) \/ EnqueueStep(p) PROVE UNCHANGED vars
  BY <1>2 DEF EnqueueTask, EnqueueStep, Overflow, NoOverflow, PushFails, Rejected, Push,
     ReleaseToken
<1>3. ASSUME NEW w \in ThreadIds, WorkStep(w) PROVE [Next]_vars
  BY <1>3 DEF WorkStep, AcquireToken, BreakWork, Pop, ReleaseNotFull, Execute, Next
<1>4. CASE Outside
  BY <1>4 DEF Outside, Next
<1>5. QED
  BY <1>1, <1>2, <1>3, <1>4 DEF RunnerStep

\* A TaskRunner is an active object: what is proved of ActiveObject holds for it.
THEOREM RunnerIsActiveObject == TRSpec => Spec
<1>1. TRInit => Init
  BY DEF TRInit
<1>2. [TRNext]_runner_state => [Next]_vars
  BY RunnerSteps, RunnerRefines
<1>3. QED
  BY <1>1, <1>2, PTL DEF TRSpec, Spec

-------------------------------------------------------------------------------
LEMMA EmptySet == ToSet(<<>>) = {}
BY DEF ToSet

LEMMA AppendSet ==
    ASSUME NEW s \in Seq(Tasks), NEW x \in Tasks, x \notin ToSet(s),
           \A i, j \in DOMAIN s : s[i] = s[j] => i = j
    PROVE  LET t == Append(s, x)
           IN  /\ ToSet(t) = ToSet(s) \cup {x}
               /\ \A i, j \in DOMAIN t : t[i] = t[j] => i = j
<1> DEFINE t == Append(s, x)
<1>1. /\ Len(t) = Len(s) + 1 /\ Len(s) \in Nat
      /\ \A i \in 1 .. Len(s) : t[i] = s[i]
      /\ t[Len(s) + 1] = x
  OBVIOUS
<1>2. DOMAIN t = 1 .. Len(s) + 1 /\ DOMAIN s = 1 .. Len(s)
  OBVIOUS
<1>3. ToSet(t) = ToSet(s) \cup {x}
  BY <1>1, <1>2 DEF ToSet
<1>4. \A i \in 1 .. Len(s) : s[i] # x
  BY <1>2 DEF ToSet
<1>5. \A i, j \in DOMAIN t : t[i] = t[j] => i = j
  <2> HIDE DEF t
  <2>1. QED
    BY <1>1, <1>2, <1>4
<1>6. QED
  BY <1>3, <1>5

LEMMA TailSet ==
    ASSUME NEW s \in Seq(Tasks), s # <<>>,
           \A i, j \in DOMAIN s : s[i] = s[j] => i = j
    PROVE  /\ ToSet(Tail(s)) = ToSet(s) \ {Head(s)}
           /\ Head(s) \in ToSet(s)
           /\ \A i, j \in DOMAIN Tail(s) : Tail(s)[i] = Tail(s)[j] => i = j
<1>1. /\ Len(s) \in Nat \ {0} /\ Len(Tail(s)) = Len(s) - 1
      /\ \A i \in 1 .. Len(s) - 1 : Tail(s)[i] = s[i + 1]
      /\ Head(s) = s[1]
  OBVIOUS
<1>2. DOMAIN s = 1 .. Len(s) /\ DOMAIN Tail(s) = 1 .. Len(s) - 1
  OBVIOUS
<1>3. ToSet(Tail(s)) = {s[i] : i \in 2 .. Len(s)}
  <2>1. \A i \in 2 .. Len(s) : i - 1 \in 1 .. Len(s) - 1 /\ s[i] = Tail(s)[i - 1]
    <3>1. \A i \in 2 .. Len(s) : i - 1 \in 1 .. Len(s) - 1 /\ (i - 1) + 1 = i
      BY <1>1
    <3>2. QED
      BY <1>1, <3>1
  <2>2. \A i \in 1 .. Len(s) - 1 : i + 1 \in 2 .. Len(s) /\ Tail(s)[i] = s[i + 1]
    BY <1>1
  <2>3. ToSet(Tail(s)) = {Tail(s)[i] : i \in 1 .. Len(s) - 1}
    BY <1>2 DEF ToSet
  <2>4. ASSUME NEW x \in ToSet(Tail(s)) PROVE x \in {s[i] : i \in 2 .. Len(s)}
    <3>1. PICK i \in 1 .. Len(s) - 1 : x = Tail(s)[i]
      BY <2>3
    <3>2. i + 1 \in 2 .. Len(s) /\ x = s[i + 1]
      BY <2>2, <3>1
    <3>3. QED
      BY <3>2
  <2>5. ASSUME NEW x \in {s[i] : i \in 2 .. Len(s)} PROVE x \in ToSet(Tail(s))
    <3>1. PICK i \in 2 .. Len(s) : x = s[i]
      OBVIOUS
    <3>2. i - 1 \in 1 .. Len(s) - 1 /\ x = Tail(s)[i - 1]
      BY <2>1, <3>1
    <3>3. QED
      BY <2>3, <3>2
  <2>6. QED
    BY <2>4, <2>5
<1>4. \A i \in 1 .. Len(s) : i = 1 \/ i \in 2 .. Len(s)
  BY <1>1
<1>5. \A i \in 2 .. Len(s) : i \in 1 .. Len(s) /\ s[i] # s[1]
  BY <1>1, <1>2
<1>6. ToSet(s) = {s[i] : i \in 2 .. Len(s)} \cup {s[1]}
  BY <1>1, <1>2, <1>4, <1>5 DEF ToSet
<1>7. QED
  BY <1>1, <1>2, <1>3, <1>5, <1>6

LEMMA SetSize ==
    ASSUME NEW s \in Seq(Tasks), \A i, j \in DOMAIN s : s[i] = s[j] => i = j
    PROVE  IsFiniteSet(ToSet(s)) /\ Cardinality(ToSet(s)) = Len(s)
<1>1. Len(s) \in Nat /\ DOMAIN s = 1 .. Len(s)
  OBVIOUS
<1>2. IsFiniteSet(1 .. Len(s)) /\ Cardinality(1 .. Len(s)) = Len(s)
  BY <1>1, FS_Interval
<1>3. s \in Surjection(1 .. Len(s), ToSet(s))
  BY <1>1 DEF Surjection, ToSet
<1>4. s \in Injection(1 .. Len(s), ToSet(s))
  BY <1>1, <1>3 DEF Injection, IsInjective, Surjection
<1>5. QED
  BY <1>2, <1>3, <1>4, FS_Surjection

-------------------------------------------------------------------------------
\* Types.
LEMMA TRTypeStep ==
    ASSUME TypeOK, TRIndInv, RunnerStep
    PROVE  TRTypeOK'
<1> USE ConstantsAssumption, TaskRunnerAssumption
    DEF TypeOK, TRIndInv, TRTypeOK, WorkStates, EnqueueStates, WorkGoto, EnqueueGoto,
        queue_vars
<1>1. CASE Outside
  BY <1>1 DEF Outside
<1>2. ASSUME NEW c \in Controllers, DeactivateRunner(c) PROVE TRTypeOK'
  BY <1>2 DEF DeactivateRunner
<1>3. ASSUME NEW c \in Controllers, Clear(c) PROVE TRTypeOK'
  <2>1. ToSet(tasks_) \subseteq Tasks
    BY DEF ToSet
  <2>2. not_full_' \in Nat
    BY <1>3 DEF Clear
  <2>3. QED
    BY <1>3, <2>1, <2>2 DEF Clear
<1>4. ASSUME NEW p \in Producers, EnqueueTask(p) PROVE TRTypeOK'
  BY <1>4 DEF EnqueueTask
<1>5. ASSUME NEW p \in Producers, enqueue[p] \in {"limit", "push"} PROVE argument[p] \in Tasks
  BY <1>5 DEF OfferedOnce, Offering, Elsewhere
<1>6. ASSUME NEW p \in Producers, Overflow(p) PROVE TRTypeOK'
  BY <1>5, <1>6 DEF Overflow, Rejected
<1>7. ASSUME NEW p \in Producers, NoOverflow(p) PROVE TRTypeOK'
  BY <1>7 DEF NoOverflow
<1>8. ASSUME NEW p \in Producers, PushFails(p) PROVE TRTypeOK'
  BY <1>5, <1>8 DEF PushFails, Rejected
<1>9. ASSUME NEW p \in Producers, Push(p) PROVE TRTypeOK'
  BY <1>5, <1>9 DEF Push
<1>10. ASSUME NEW p \in Producers, ReleaseToken(p) PROVE TRTypeOK'
  BY <1>10 DEF ReleaseToken
<1>11. ASSUME NEW w \in ThreadIds, AcquireToken(w) PROVE TRTypeOK'
  BY <1>11 DEF AcquireToken
<1>12. ASSUME NEW w \in ThreadIds, BreakWork(w) PROVE TRTypeOK'
  BY <1>12 DEF BreakWork
<1>13. ASSUME NEW w \in ThreadIds, Pop(w) PROVE TRTypeOK'
  <2>1. Head(tasks_) \in Tasks /\ Tail(tasks_) \in Seq(Tasks)
    BY <1>13 DEF Pop
  <2>2. QED
    BY <1>13, <2>1 DEF Pop
<1>14. ASSUME NEW w \in ThreadIds, ReleaseNotFull(w) PROVE TRTypeOK'
  BY <1>14 DEF ReleaseNotFull
<1>15. ASSUME NEW w \in ThreadIds, Execute(w) PROVE TRTypeOK'
  <2>1. task[w] \in Tasks
    BY <1>15 DEF Execute, HeldOnce, InHands, Elsewhere
  <2>2. QED
    BY <1>15, <2>1 DEF Execute
<1>16. QED
  BY <1>1, <1>2, <1>3, <1>4, <1>6, <1>7, <1>8, <1>9, <1>10, <1>11, <1>12, <1>13, <1>14,
     <1>15 DEF RunnerStep, EnqueueStep, WorkStep

\* A task a thread has is nowhere else.
LEMMA HeldOnceStep ==
    ASSUME TypeOK, TRIndInv, RunnerStep
    PROVE  HeldOnce'
<1> USE TaskRunnerAssumption
    DEF TRIndInv, TRTypeOK, HeldOnce, OfferedOnce, Offering, QueuedOnce, InHands, Elsewhere,
        WorkGoto, EnqueueGoto, queue_vars
<1>1. CASE Outside
  BY <1>1 DEF Outside
<1>2. ASSUME NEW c \in Controllers, DeactivateRunner(c) PROVE HeldOnce'
  BY <1>2 DEF DeactivateRunner
<1>3. ASSUME NEW c \in Controllers, Clear(c) PROVE HeldOnce'
  BY <1>3, EmptySet DEF Clear
<1>4. ASSUME NEW p \in Producers, EnqueueTask(p) PROVE HeldOnce'
  BY <1>4 DEF EnqueueTask
<1>5. ASSUME NEW p \in Producers, Overflow(p) \/ PushFails(p) PROVE HeldOnce'
  BY <1>5 DEF Overflow, PushFails, Rejected
<1>6. ASSUME NEW p \in Producers, NoOverflow(p) PROVE HeldOnce'
  BY <1>6 DEF NoOverflow
<1>7. ASSUME NEW p \in Producers, Push(p) PROVE HeldOnce'
  <2>1. p \in Offering /\ Elsewhere(argument[p])
    BY <1>7 DEF Push, Offering, OfferedOnce
  <2>2. argument[p] \in Tasks /\ argument[p] \notin ToSet(tasks_)
    BY <2>1 DEF Elsewhere
  <2>3. ToSet(tasks_') = ToSet(tasks_) \cup {argument[p]}
    BY <1>7, <2>2, AppendSet DEF Push, QueuedOnce
  <2>4. QED
    BY <1>7, <2>1, <2>2, <2>3 DEF Push
<1>8. ASSUME NEW p \in Producers, ReleaseToken(p) PROVE HeldOnce'
  BY <1>8 DEF ReleaseToken
<1>9. ASSUME NEW w \in ThreadIds, AcquireToken(w) PROVE HeldOnce'
  BY <1>9 DEF AcquireToken
<1>10. ASSUME NEW w \in ThreadIds, BreakWork(w) PROVE HeldOnce'
  BY <1>10 DEF BreakWork
<1>11. ASSUME NEW w \in ThreadIds, Pop(w) PROVE HeldOnce'
  <2>1. /\ Head(tasks_) \in ToSet(tasks_)
        /\ ToSet(tasks_') = ToSet(tasks_) \ {Head(tasks_)}
        /\ \A i, j \in DOMAIN tasks_' : tasks_'[i] = tasks_'[j] => i = j
    BY <1>11, TailSet DEF Pop, QueuedOnce
  <2>2. Head(tasks_) \in Tasks
    BY <1>11 DEF Pop
  <2>3. QED
    BY <1>11, <2>1, <2>2 DEF Pop
<1>12. ASSUME NEW w \in ThreadIds, ReleaseNotFull(w) PROVE HeldOnce'
  BY <1>12 DEF ReleaseNotFull
<1>13. ASSUME NEW w \in ThreadIds, Execute(w) PROVE HeldOnce'
  BY <1>13 DEF Execute
<1>14. QED
  BY <1>1, <1>2, <1>3, <1>4, <1>5, <1>6, <1>7, <1>8, <1>9, <1>10, <1>11, <1>12, <1>13
     DEF RunnerStep, EnqueueStep, WorkStep

\* Nor is one that a producer has.
LEMMA OfferedOnceStep ==
    ASSUME TypeOK, TRIndInv, RunnerStep
    PROVE  OfferedOnce'
<1> USE TaskRunnerAssumption
    DEF TRIndInv, TRTypeOK, HeldOnce, QueuedOnce, OfferedOnce, Offering, InHands, Elsewhere,
        WorkGoto, EnqueueGoto, queue_vars
<1>1. CASE Outside
  BY <1>1 DEF Outside
<1>2. ASSUME NEW c \in Controllers, DeactivateRunner(c) PROVE OfferedOnce'
  BY <1>2 DEF DeactivateRunner
<1>3. ASSUME NEW c \in Controllers, Clear(c) PROVE OfferedOnce'
  BY <1>3, EmptySet DEF Clear
<1>4. ASSUME NEW p \in Producers, EnqueueTask(p) PROVE OfferedOnce'
  BY <1>4 DEF EnqueueTask
<1>5. ASSUME NEW p \in Producers, Overflow(p) \/ PushFails(p) PROVE OfferedOnce'
  BY SMTT(30), <1>5 DEF Overflow, PushFails, Rejected
<1>6. ASSUME NEW p \in Producers, NoOverflow(p) PROVE OfferedOnce'
  BY <1>6 DEF NoOverflow
<1>7. ASSUME NEW p \in Producers, Push(p) PROVE OfferedOnce'
  <2>1. p \in Offering /\ Elsewhere(argument[p])
    BY <1>7 DEF Push, Offering, OfferedOnce
  <2>2. argument[p] \in Tasks /\ argument[p] \notin ToSet(tasks_)
    BY <2>1 DEF Elsewhere
  <2>3. ToSet(tasks_') = ToSet(tasks_) \cup {argument[p]}
    BY <1>7, <2>2, AppendSet DEF Push, QueuedOnce
  <2>4. QED
    BY <1>7, <2>1, <2>2, <2>3 DEF Push
<1>8. ASSUME NEW p \in Producers, ReleaseToken(p) PROVE OfferedOnce'
  BY <1>8 DEF ReleaseToken
<1>9. ASSUME NEW w \in ThreadIds, AcquireToken(w) PROVE OfferedOnce'
  BY <1>9 DEF AcquireToken
<1>10. ASSUME NEW w \in ThreadIds, BreakWork(w) PROVE OfferedOnce'
  BY <1>10 DEF BreakWork
<1>11. ASSUME NEW w \in ThreadIds, Pop(w) PROVE OfferedOnce'
  <2>1. /\ Head(tasks_) \in ToSet(tasks_)
        /\ ToSet(tasks_') = ToSet(tasks_) \ {Head(tasks_)}
        /\ \A i, j \in DOMAIN tasks_' : tasks_'[i] = tasks_'[j] => i = j
    BY <1>11, TailSet DEF Pop, QueuedOnce
  <2>2. Head(tasks_) \in Tasks
    BY <1>11 DEF Pop
  <2>3. QED
    BY <1>11, <2>1, <2>2 DEF Pop
<1>12. ASSUME NEW w \in ThreadIds, ReleaseNotFull(w) PROVE OfferedOnce'
  BY <1>12 DEF ReleaseNotFull
<1>13. ASSUME NEW w \in ThreadIds, Execute(w) PROVE OfferedOnce'
  BY <1>13 DEF Execute
<1>14. QED
  BY <1>1, <1>2, <1>3, <1>4, <1>5, <1>6, <1>7, <1>8, <1>9, <1>10, <1>11, <1>12, <1>13
     DEF RunnerStep, EnqueueStep, WorkStep

\* The tasks of the queue are distinct, and only there.
LEMMA QueuedOnceStep ==
    ASSUME TypeOK, TRIndInv, RunnerStep
    PROVE  QueuedOnce'
<1> USE TaskRunnerAssumption
    DEF TRIndInv, TRTypeOK, HeldOnce, OfferedOnce, QueuedOnce, Offering, InHands, Elsewhere,
        WorkGoto, EnqueueGoto, queue_vars
<1>1. CASE Outside
  BY <1>1 DEF Outside
<1>2. ASSUME NEW c \in Controllers, DeactivateRunner(c) PROVE QueuedOnce'
  BY <1>2 DEF DeactivateRunner
<1>3. ASSUME NEW c \in Controllers, Clear(c) PROVE QueuedOnce'
  BY <1>3, EmptySet DEF Clear
<1>4. ASSUME NEW p \in Producers, EnqueueTask(p) PROVE QueuedOnce'
  BY <1>4 DEF EnqueueTask
<1>5. ASSUME NEW p \in Producers, Overflow(p) \/ PushFails(p) PROVE QueuedOnce'
  BY <1>5 DEF Overflow, PushFails, Rejected
<1>6. ASSUME NEW p \in Producers, NoOverflow(p) PROVE QueuedOnce'
  BY <1>6 DEF NoOverflow
<1>7. ASSUME NEW p \in Producers, Push(p) PROVE QueuedOnce'
  <2>1. argument[p] \in Tasks /\ argument[p] \notin ToSet(tasks_)
    BY <1>7 DEF Push
  <2>2. /\ ToSet(tasks_') = ToSet(tasks_) \cup {argument[p]}
        /\ \A i, j \in DOMAIN tasks_' : tasks_'[i] = tasks_'[j] => i = j
    BY <1>7, <2>1, AppendSet DEF Push
  <2>3. QED
    BY <1>7, <2>1, <2>2 DEF Push
<1>8. ASSUME NEW p \in Producers, ReleaseToken(p) PROVE QueuedOnce'
  BY <1>8 DEF ReleaseToken
<1>9. ASSUME NEW w \in ThreadIds, AcquireToken(w) PROVE QueuedOnce'
  BY <1>9 DEF AcquireToken
<1>10. ASSUME NEW w \in ThreadIds, BreakWork(w) PROVE QueuedOnce'
  BY <1>10 DEF BreakWork
<1>11. ASSUME NEW w \in ThreadIds, Pop(w) PROVE QueuedOnce'
  <2>1. /\ Head(tasks_) \in ToSet(tasks_)
        /\ ToSet(tasks_') = ToSet(tasks_) \ {Head(tasks_)}
        /\ \A i, j \in DOMAIN tasks_' : tasks_'[i] = tasks_'[j] => i = j
    BY <1>11, TailSet DEF Pop, QueuedOnce
  <2>2. Head(tasks_) \in Tasks
    BY <1>11 DEF Pop
  <2>3. QED
    BY <1>11, <2>1, <2>2 DEF Pop
<1>12. ASSUME NEW w \in ThreadIds, ReleaseNotFull(w) PROVE QueuedOnce'
  BY <1>12 DEF ReleaseNotFull
<1>13. ASSUME NEW w \in ThreadIds, Execute(w) PROVE QueuedOnce'
  BY <1>13 DEF Execute
<1>14. QED
  BY <1>1, <1>2, <1>3, <1>4, <1>5, <1>6, <1>7, <1>8, <1>9, <1>10, <1>11, <1>12, <1>13
     DEF RunnerStep, EnqueueStep, WorkStep

-------------------------------------------------------------------------------
\* Outside of the queue nothing ends the work of a thread, and while the object
\* is terminating no thread ends but by its own work().
LEMMA OutsideKeeps ==
    ASSUME NEW o, Disciplined(o), IndInv(o), Outside
    PROVE  /\ \A w \in ThreadIds : thread[w] = "work" => thread'[w] = "work"
           /\ TerminationTokens' = TerminationTokens
<1> DEFINE Goal == /\ \A w \in ThreadIds : thread[w] = "work" => thread'[w] = "work"
                   /\ TerminationTokens' = TerminationTokens
<1> SUFFICES Goal
  OBVIOUS
<1>1. CASE UNCHANGED <<thread, terminating_>>
  BY <1>1 DEF TerminationTokens, NotEnded
<1>2. CASE CreateThread(o)
  BY <1>2 DEF CreateThread, IndInv, TypeOK, Starting, TerminationTokens, Disciplined
<1>3. CASE Join(o)
  <2>1. NotEnded' = NotEnded
    BY <1>3 DEF Join, Goto, NotEnded, IndInv, TypeOK
  <2>2. \A w \in ThreadIds : thread[w] = "work" => thread'[w] = "work"
    BY <1>3 DEF Join, Goto, IndInv, TypeOK
  <2>3. QED
    BY <1>3, <2>1, <2>2 DEF Join, TerminationTokens
<1>4. CASE Terminated(o)
  <2>1. NotEnded = {}
    BY <1>4 DEF Terminated, Goto, IndInv, Stopping, NoThread, NotEnded
  <2>2. QED
    BY <1>4, <2>1, FS_EmptySet DEF Terminated, Goto, runner_vars, TerminationTokens
<1>5. ASSUME NEW w \in ThreadIds, ThreadFunc(w) PROVE Goal
  <2>1. ~SkipWork(w)
    BY DEF SkipWork, ThreadGoto, IndInv, TypeOK, Stopped, Starting, Running, Stopping,
       NoThread, CallStates, InWait, Disciplined
  <2>2. NotEnded' = NotEnded /\ UNCHANGED terminating_
    BY <1>5, <2>1 DEF ThreadFunc, AcquireStart, ReleaseStart, BeginWork, ThreadGoto, NotEnded,
       IndInv, TypeOK
  <2>3. \A v \in ThreadIds : thread[v] = "work" => thread'[v] = "work"
    BY <1>5, <2>1 DEF ThreadFunc, AcquireStart, ReleaseStart, BeginWork, ThreadGoto, IndInv,
       TypeOK
  <2>4. QED
    BY <2>2, <2>3 DEF TerminationTokens
<1>6. CASE UNCHANGED vars
  BY <1>1, <1>6 DEF vars, runner_vars
<1>7. ASSUME NEW c \in Controllers, Activate(c) \/ Wait(c) \/ Continue(c) PROVE Goal
  <2>1. c = o
    BY <1>7 DEF Disciplined, Activate, Wait, Continue, StartRefused, StartThrows, Start,
       CreateThread, CreateFails, Started, WaitReadsState, WaitReadsRunning, Join, TakeToken,
       Terminated, WaitEnds, Goto, IndInv, OneOwner
  <2>2. ~CreateFails(c)
    BY DEF Disciplined, CreateFails
  <2>3. CASE Activate(c) \/ Wait(c) \/ StartRefused(c) \/ Start(c) \/ Started(c)
    BY <1>1, <2>3 DEF Activate, Wait, StartRefused, StartThrows, Start, Started, runner_vars
  <2>4. CASE WaitReadsState(c) \/ WaitReadsRunning(c) \/ TakeToken(c) \/ WaitEnds(c)
    BY <1>1, <2>4 DEF WaitReadsState, WaitReadsRunning, TakeToken, WaitEnds, runner_vars
  <2>5. QED
    BY <1>2, <1>3, <1>4, <1>7, <2>1, <2>2, <2>3, <2>4 DEF Continue
<1>8. QED
  BY <1>5, <1>6, <1>7 DEF Outside

\* When an active object is told to stop, all of its threads exist, and a token
\* is released for each of them.
LEMMA AllThreads ==
    ASSUME NEW o, Disciplined(o), IndInv(o), active_state_ = "active", work_mutex_ = Nobody
    PROVE  ~terminating_ /\ Cardinality(NotEnded) = threads_number
<1>1. pc[o] \notin {"start", "create"}
  BY ConstantsAssumption DEF IndInv, OneOwner, Disciplined
<1>2. pc[o] \in {"idle", "state", "running", "join"}
  BY <1>1 DEF IndInv, TypeOK, Stopping, CallStates, InWait, Disciplined
<1>3. is_running_ /\ number_of_jobs_ = threads_number /\ ~terminating_
  BY <1>2 DEF IndInv, Running
<1>4. Live(o) = Slots
  BY <1>2, <1>3 DEF IndInv, TypeOK, Stopping, Live, Slots, Disciplined
<1>5. jobs_ \in Surjection(Slots, NotEnded) /\ jobs_ \in Injection(Slots, NotEnded)
  BY <1>2, <1>3, <1>4
  DEF IndInv, TypeOK, SlotsHoldThreads, DoneOnlyAtEnd, NotEnded, Surjection, Injection, IsInjective
<1>6. IsFiniteSet(Slots) /\ Cardinality(Slots) = threads_number
  BY ConstantsAssumption, FS_Interval DEF Slots
<1>7. QED
  BY <1>3, <1>5, <1>6, FS_Surjection

\* A thread leaves work() at its top.
LEMMA AtTopStep ==
    ASSUME NEW o, Disciplined(o), IndInv(o), TRIndInv, RunnerStep
    PROVE  AtTop'
<1> USE DEF TRIndInv, TRTypeOK, AtTop, WorkGoto, IndInv, TypeOK, queue_vars
<1>1. CASE Outside
  BY <1>1, OutsideKeeps DEF Outside
<1>2. ASSUME NEW c \in Controllers, DeactivateRunner(c) \/ Clear(c) PROVE AtTop'
  BY <1>2 DEF DeactivateRunner, Deactivate, Clear, vars, runner_vars
<1>3. ASSUME NEW p \in Producers, EnqueueTask(p) \/ EnqueueStep(p) PROVE AtTop'
  BY <1>3 DEF EnqueueTask, EnqueueStep, Overflow, NoOverflow, PushFails, Rejected, Push,
     ReleaseToken, vars, runner_vars
<1>4. ASSUME NEW w \in ThreadIds, WorkStep(w) PROVE AtTop'
  BY <1>4 DEF WorkStep, AcquireToken, BreakWork, EndWork, ThreadGoto, Pop, ReleaseNotFull,
     Execute, vars, runner_vars
<1>5. QED
  BY <1>1, <1>2, <1>3, <1>4 DEF RunnerStep

LEMMA Counting ==
    ASSUME TRIndInv
    PROVE  /\ IsFiniteSet(Releasing) /\ Cardinality(Releasing) \in Nat
           /\ IsFiniteSet(HoldingToken) /\ Cardinality(HoldingToken) \in Nat
           /\ IsFiniteSet(NotEnded) /\ Cardinality(NotEnded) \in Nat
           /\ IsFiniteSet(dropped) /\ Cardinality(dropped) \in Nat
           /\ TerminationTokens \in Nat
           /\ Len(tasks_) \in Nat /\ new_task_ \in Nat
<1>1. IsFiniteSet(Releasing) /\ IsFiniteSet(HoldingToken) /\ IsFiniteSet(NotEnded)
  BY ConstantsAssumption, TaskRunnerAssumption, FS_Subset DEF Releasing, HoldingToken, NotEnded
<1>2. IsFiniteSet(dropped) /\ tasks_ \in Seq(Tasks) /\ new_task_ \in Nat
  BY DEF TRIndInv, TRTypeOK, TokenBalance
<1>3. QED
  BY <1>1, <1>2, FS_CardinalityType DEF TerminationTokens

\* Tokens and tasks balance: no step makes or takes a token of a task, and a
\* thread that ends has taken one of terminate().
LEMMA TokenBalanceStep ==
    ASSUME NEW o, Disciplined(o), IndInv(o), TRIndInv, RunnerStep
    PROVE  TokenBalance'
<1>1. /\ IsFiniteSet(dropped)
      /\ new_task_ + Cardinality(Releasing) + Cardinality(HoldingToken) =
             Len(tasks_) + Cardinality(dropped) + TerminationTokens
      /\ tasks_ \in Seq(Tasks)
      /\ at \in [ThreadIds -> WorkStates] /\ enqueue \in [Producers -> EnqueueStates]
      /\ thread \in [ThreadIds -> ThreadStates]
  BY DEF TRIndInv, TRTypeOK, TokenBalance, IndInv, TypeOK
<1>2. CASE Outside
  <2>1. UNCHANGED queue_vars
    BY <1>2 DEF Outside
  <2>2. TerminationTokens' = TerminationTokens
    BY <1>2, OutsideKeeps
  <2>3. QED
    BY <1>1, <2>1, <2>2 DEF queue_vars, TokenBalance, Releasing, HoldingToken
<1>3. ASSUME NEW c \in Controllers, DeactivateRunner(c) PROVE TokenBalance'
  <2>1. /\ new_task_' = new_task_ + threads_number
        /\ terminating_' /\ UNCHANGED <<thread, tasks_, at, enqueue, dropped>>
        /\ active_state_ = "active" /\ work_mutex_ = Nobody
    BY <1>3 DEF DeactivateRunner, Deactivate, runner_vars
  <2>2. ~terminating_ /\ Cardinality(NotEnded) = threads_number
    BY <2>1, AllThreads
  <2>3. /\ TerminationTokens = 0 /\ TerminationTokens' = threads_number
        /\ Releasing' = Releasing /\ HoldingToken' = HoldingToken
    BY <2>1, <2>2 DEF TerminationTokens, NotEnded, Releasing, HoldingToken
  <2>4. QED
    BY <1>1, <2>1, <2>3, Counting, ConstantsAssumption DEF TokenBalance
<1>4. ASSUME NEW c \in Controllers, Clear(c) PROVE TokenBalance'
  <2>1. /\ tasks_' = <<>> /\ dropped' = dropped \cup ToSet(tasks_)
        /\ UNCHANGED <<thread, terminating_, new_task_, at, enqueue>>
    BY <1>4 DEF Clear, vars, runner_vars
  <2>2. /\ IsFiniteSet(ToSet(tasks_)) /\ Cardinality(ToSet(tasks_)) = Len(tasks_)
        /\ dropped \cap ToSet(tasks_) = {}
    BY <1>1, SetSize DEF TRIndInv, QueuedOnce
  <2>3. IsFiniteSet(dropped') /\ Cardinality(dropped') = Cardinality(dropped) + Len(tasks_)
    <3>1. Cardinality(dropped \cap ToSet(tasks_)) = 0
      BY <2>2, FS_EmptySet
    <3>2. /\ IsFiniteSet(dropped \cup ToSet(tasks_))
          /\ Cardinality(dropped \cup ToSet(tasks_)) =
                 Cardinality(dropped) + Cardinality(ToSet(tasks_))
                     - Cardinality(dropped \cap ToSet(tasks_))
      BY <1>1, <2>2, FS_Union
    <3>3. QED
      BY <2>1, <2>2, <3>1, <3>2, Counting
  <2>4. /\ Releasing' = Releasing /\ HoldingToken' = HoldingToken
        /\ TerminationTokens' = TerminationTokens
    BY <2>1 DEF TerminationTokens, NotEnded, Releasing, HoldingToken
  <2>5. Len(tasks_') = 0
    BY <2>1
  <2>6. QED
    BY <1>1, <2>1, <2>3, <2>4, <2>5, Counting DEF TokenBalance
<1>5. ASSUME NEW p \in Producers,
             EnqueueTask(p) \/ Overflow(p) \/ NoOverflow(p) \/ PushFails(p)
      PROVE  TokenBalance'
  <2>1. UNCHANGED <<thread, terminating_, new_task_, tasks_, at, dropped>>
    BY <1>5 DEF EnqueueTask, Overflow, NoOverflow, PushFails, Rejected, vars, runner_vars
  <2>2. Releasing' = Releasing
    BY <1>1, <1>5
    DEF EnqueueTask, Overflow, NoOverflow, PushFails, Rejected, EnqueueGoto, Releasing
  <2>3. QED
    BY <1>1, <2>1, <2>2 DEF TokenBalance, TerminationTokens, NotEnded, HoldingToken
<1>6. ASSUME NEW p \in Producers, Push(p) PROVE TokenBalance'
  <2>1. /\ tasks_' = Append(tasks_, argument[p])
        /\ UNCHANGED <<thread, terminating_, new_task_, at, dropped>>
    BY <1>6 DEF Push, vars, runner_vars
  <2>2. Len(tasks_') = Len(tasks_) + 1
    BY <1>1, <2>1
  <2>3. p \notin Releasing /\ Releasing' = Releasing \cup {p}
    BY <1>1, <1>6 DEF Push, EnqueueGoto, Releasing
  <2>4. Cardinality(Releasing') = Cardinality(Releasing) + 1
    BY <2>3, FS_AddElement, Counting
  <2>5. HoldingToken' = HoldingToken /\ TerminationTokens' = TerminationTokens
    BY <2>1 DEF TerminationTokens, NotEnded, HoldingToken
  <2>6. new_task_' = new_task_ /\ dropped' = dropped
    BY <2>1
  <2>7. QED
    BY SMTT(30), <1>1, <2>2, <2>4, <2>5, <2>6, Counting DEF TokenBalance
<1>7. ASSUME NEW p \in Producers, ReleaseToken(p) PROVE TokenBalance'
  <2>1. /\ new_task_' = new_task_ + 1
        /\ UNCHANGED <<thread, terminating_, tasks_, at, dropped>>
    BY <1>7 DEF ReleaseToken, vars, runner_vars
  <2>2. p \in Releasing /\ Releasing' = Releasing \ {p}
    BY <1>1, <1>7 DEF ReleaseToken, EnqueueGoto, Releasing
  <2>3. Cardinality(Releasing') = Cardinality(Releasing) - 1
    BY <2>2, FS_RemoveElement, Counting
  <2>4. HoldingToken' = HoldingToken /\ TerminationTokens' = TerminationTokens
    BY <2>1 DEF TerminationTokens, NotEnded, HoldingToken
  <2>5. QED
    BY <1>1, <2>1, <2>3, <2>4, Counting DEF TokenBalance
<1>8. ASSUME NEW w \in ThreadIds, AcquireToken(w) PROVE TokenBalance'
  <2>1. /\ new_task_' = new_task_ - 1
        /\ UNCHANGED <<thread, terminating_, tasks_, enqueue, dropped>>
    BY <1>8 DEF AcquireToken, vars, runner_vars
  <2>2. w \notin HoldingToken /\ HoldingToken' = HoldingToken \cup {w}
    BY <1>1, <1>8 DEF AcquireToken, WorkGoto, HoldingToken
  <2>3. Cardinality(HoldingToken') = Cardinality(HoldingToken) + 1
    BY <2>2, FS_AddElement, Counting
  <2>4. Releasing' = Releasing /\ TerminationTokens' = TerminationTokens
    BY <2>1 DEF TerminationTokens, NotEnded, Releasing
  <2>5. QED
    BY <1>1, <2>1, <2>3, <2>4, Counting DEF TokenBalance
<1>9. ASSUME NEW w \in ThreadIds, BreakWork(w) PROVE TokenBalance'
  <2>0. /\ new_task_ \in Nat /\ Len(tasks_) \in Nat /\ Cardinality(dropped) \in Nat
        /\ Cardinality(Releasing) \in Nat /\ Cardinality(HoldingToken) \in Nat
        /\ TerminationTokens \in Nat
        /\ new_task_ + Cardinality(Releasing) + Cardinality(HoldingToken) =
               Len(tasks_) + Cardinality(dropped) + TerminationTokens
    BY <1>1, Counting
  <2>1. /\ terminating_ /\ terminating_'
        /\ UNCHANGED <<new_task_, tasks_, enqueue, dropped>>
    BY <1>9 DEF BreakWork, EndWork, ThreadGoto
  <2>2. w \in HoldingToken /\ HoldingToken' = HoldingToken \ {w}
    BY <1>1, <1>9 DEF BreakWork, WorkGoto, HoldingToken
  <2>3. w \in NotEnded /\ NotEnded' = NotEnded \ {w}
    BY <1>1, <1>9 DEF BreakWork, EndWork, ThreadGoto, NotEnded
  <2>4. /\ Cardinality(HoldingToken') = Cardinality(HoldingToken) - 1
        /\ Cardinality(NotEnded') = Cardinality(NotEnded) - 1
    BY <2>2, <2>3, FS_RemoveElement, Counting
  <2>5. Releasing' = Releasing /\ TerminationTokens' = TerminationTokens - 1
    BY <2>1, <2>4 DEF TerminationTokens, Releasing
  <2>6. new_task_' = new_task_ /\ dropped' = dropped /\ tasks_' = tasks_
    BY <2>1
  <2>7. /\ Cardinality(Releasing') = Cardinality(Releasing)
        /\ Cardinality(dropped') = Cardinality(dropped)
        /\ Len(tasks_') = Len(tasks_)
    BY <2>5, <2>6
  <2>8. new_task_' + Cardinality(Releasing') + Cardinality(HoldingToken') =
            Len(tasks_') + Cardinality(dropped') + TerminationTokens'
    BY SMTT(30), <2>0, <2>4, <2>5, <2>6, <2>7
  <2>9. QED
    BY <1>1, <2>6, <2>8 DEF TokenBalance
<1>10. ASSUME NEW w \in ThreadIds, Pop(w) PROVE TokenBalance'
  <2>0. /\ new_task_ \in Nat /\ Len(tasks_) \in Nat /\ Cardinality(dropped) \in Nat
        /\ Cardinality(Releasing) \in Nat /\ Cardinality(HoldingToken) \in Nat
        /\ TerminationTokens \in Nat
        /\ new_task_ + Cardinality(Releasing) + Cardinality(HoldingToken) =
               Len(tasks_) + Cardinality(dropped) + TerminationTokens
    BY <1>1, Counting
  <2>1. /\ tasks_ # <<>> /\ tasks_' = Tail(tasks_)
        /\ UNCHANGED <<thread, terminating_, new_task_, enqueue, dropped>>
    BY <1>10 DEF Pop, vars, runner_vars
  <2>2. Len(tasks_') \in Nat /\ Len(tasks_) = Len(tasks_') + 1
    BY <1>1, <2>1
  <2>3. w \in HoldingToken /\ HoldingToken' = HoldingToken \ {w}
    BY <1>1, <1>10 DEF Pop, WorkGoto, HoldingToken
  <2>4. /\ Cardinality(HoldingToken') \in Nat
        /\ Cardinality(HoldingToken) = Cardinality(HoldingToken') + 1
    <3>1. IsFiniteSet(HoldingToken') /\ Cardinality(HoldingToken') = Cardinality(HoldingToken) - 1
      BY <2>3, FS_RemoveElement, Counting
    <3>2. Cardinality(HoldingToken') \in Nat
      BY <3>1, FS_CardinalityType
    <3>3. QED
      BY <3>1, <3>2, Counting
  <2>5. Releasing' = Releasing /\ TerminationTokens' = TerminationTokens
    BY <2>1 DEF TerminationTokens, NotEnded, Releasing
  <2>6. new_task_' = new_task_ /\ dropped' = dropped
    BY <2>1
  <2>7. /\ Cardinality(Releasing') = Cardinality(Releasing)
        /\ Cardinality(dropped') = Cardinality(dropped)
    BY <2>5, <2>6
  <2>8. new_task_' + Cardinality(Releasing') + Cardinality(HoldingToken') =
            Len(tasks_') + Cardinality(dropped') + TerminationTokens'
    BY SMTT(30), <2>0, <2>2, <2>4, <2>5, <2>6, <2>7
  <2>9. QED
    BY <1>1, <2>6, <2>8 DEF TokenBalance
<1>11. ASSUME NEW w \in ThreadIds, ReleaseNotFull(w) \/ Execute(w) PROVE TokenBalance'
  <2>1. UNCHANGED <<thread, terminating_, new_task_, tasks_, enqueue, dropped>>
    BY <1>11 DEF ReleaseNotFull, Execute, vars, runner_vars
  <2>2. HoldingToken' = HoldingToken
    BY <1>1, <1>11 DEF ReleaseNotFull, Execute, WorkGoto, HoldingToken
  <2>3. QED
    BY <1>1, <2>1, <2>2 DEF TokenBalance, TerminationTokens, NotEnded, Releasing
<1>12. QED
  BY <1>2, <1>3, <1>4, <1>5, <1>6, <1>7, <1>8, <1>9, <1>10, <1>11
  DEF RunnerStep, EnqueueStep, WorkStep

-------------------------------------------------------------------------------
LEMMA InitTRIndInv == ASSUME TRInit PROVE TRIndInv
<1>1. TRTypeOK
  BY TaskRunnerAssumption DEF TRInit, TRTypeOK, WorkStates, EnqueueStates
<1>2. HeldOnce /\ OfferedOnce /\ QueuedOnce /\ AtTop
  BY EmptySet
  DEF TRInit, HeldOnce, OfferedOnce, QueuedOnce, AtTop, InHands, Offering
<1>3. TokenBalance
  <2>1. Releasing = {} /\ HoldingToken = {}
    BY DEF TRInit, Releasing, HoldingToken
  <2>2. TerminationTokens = 0
    BY DEF TRInit, Init, TerminationTokens
  <2>3. QED
    BY <2>1, <2>2, FS_EmptySet DEF TRInit, TokenBalance
<1>4. QED
  BY <1>1, <1>2, <1>3 DEF TRIndInv

\* The invariant of the queue holds next to that of the active object.
THEOREM RunnerInvariance ==
    ASSUME NEW o, Disciplined(o) PROVE TRSpec => [](IndInv(o) /\ TRIndInv)
<1>1. TRSpec => []IndInv(o)
  BY RunnerIsActiveObject, Invariance, PTL
<1>2. TRInit => TRIndInv
  BY InitTRIndInv
<1>3. IndInv(o) /\ TRIndInv /\ [TRNext]_runner_state => TRIndInv'
  <2> SUFFICES ASSUME IndInv(o), TRIndInv, [TRNext]_runner_state PROVE TRIndInv'
    OBVIOUS
  <2>1. RunnerStep
    BY RunnerSteps
  <2>2. TypeOK
    BY DEF IndInv
  <2>3. TRTypeOK' /\ HeldOnce' /\ OfferedOnce' /\ QueuedOnce'
    BY <2>1, <2>2, TRTypeStep, HeldOnceStep, OfferedOnceStep, QueuedOnceStep
  <2>4. AtTop' /\ TokenBalance'
    BY <2>1, AtTopStep, TokenBalanceStep
  <2>5. QED
    BY <2>3, <2>4 DEF TRIndInv
<1>4. QED
  BY <1>1, <1>2, <1>3, PTL DEF TRSpec

\* A token finds a task, a stopped runner keeps the tokens of its tasks, no task
\* is without a token, none is executed twice, and a termination has a token for
\* every thread it has to reach: TaskRunner::work and enqueue_task, through any
\* number of stops and restarts.
THEOREM TokensAndTasks ==
    ASSUME NEW o, Disciplined(o) PROVE TRSpec => []TokensMatchTasks
<1>1. IndInv(o) /\ TRIndInv => TokensMatchTasks
  <2> SUFFICES ASSUME IndInv(o), TRIndInv PROVE TokensMatchTasks
    OBVIOUS
  <2>1. new_task_ + Cardinality(Releasing) + Cardinality(HoldingToken) =
            Len(tasks_) + Cardinality(dropped) + TerminationTokens
    BY DEF TRIndInv, TokenBalance
  <2>2. NoEmptyPop
    <3> SUFFICES ASSUME NEW w \in ThreadIds, at[w] = "token", ~terminating_, dropped = {}
                 PROVE  tasks_ # <<>>
      BY DEF NoEmptyPop
    <3>1. TerminationTokens = 0 /\ Cardinality(dropped) = 0
      BY FS_EmptySet DEF TerminationTokens
    <3>2. Cardinality(HoldingToken) # 0
      BY Counting, FS_EmptySet DEF HoldingToken
    <3>3. Len(tasks_) # 0
      BY <2>1, <3>1, <3>2, Counting
    <3>4. QED
      BY <3>3
  <2>3. TokensLeft
    <3> SUFFICES ASSUME active_state_ = "not_active"
                 PROVE  new_task_ + Cardinality(Releasing) =
                            Len(tasks_) + Cardinality(dropped)
      BY DEF TokensLeft
    <3>1. NoThread /\ ~terminating_
      BY DEF IndInv, Stopped
    <3>2. HoldingToken = {}
      BY <3>1 DEF HoldingToken, NoThread, TRIndInv, AtTop
    <3>3. Cardinality(HoldingToken) = 0 /\ TerminationTokens = 0
      BY <3>1, <3>2, FS_EmptySet DEF TerminationTokens
    <3>4. QED
      BY <2>1, <3>3, Counting
  <2>4. EveryTaskHasToken
    BY <2>1, Counting DEF EveryTaskHasToken
  <2>5. ExecutedOnce
    BY DEF TRIndInv, HeldOnce, QueuedOnce, Elsewhere, ExecutedOnce
  <2>6. TerminationReachesAll
    <3> DEFINE W == {w \in ThreadIds : thread[w] \notin {"none", "done"} /\ at[w] # "token"}
    <3> SUFFICES ASSUME terminating_
                 PROVE  Cardinality(W) <= new_task_ + Cardinality(Releasing)
      BY DEF TerminationReachesAll
    <3>1. W = NotEnded \ HoldingToken /\ HoldingToken = NotEnded \cap HoldingToken
      BY DEF NotEnded, HoldingToken, TRIndInv, AtTop
    <3>2. IsFiniteSet(NotEnded) /\ IsFiniteSet(HoldingToken)
      BY Counting
    <3>3. Cardinality(W) = Cardinality(NotEnded) - Cardinality(HoldingToken)
      <4>1. Cardinality(NotEnded \ HoldingToken) =
                Cardinality(NotEnded) - Cardinality(NotEnded \cap HoldingToken)
        BY <3>2, FS_Difference
      <4>2. QED
        BY <3>1, <4>1
    <3>4. TerminationTokens = Cardinality(NotEnded)
      BY DEF TerminationTokens
    <3>5. Len(tasks_) + Cardinality(dropped) >= 0
      BY Counting
    <3> HIDE DEF W
    <3>6. QED
      BY <2>1, <3>3, <3>4, <3>5, Counting
  <2>7. QED
    BY <2>2, <2>3, <2>4, <2>5, <2>6 DEF TokensMatchTasks
<1>2. QED
  BY <1>1, RunnerInvariance, PTL
===============================================================================
