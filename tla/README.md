# Verification of Gears and vanga

TLA+ models of the concurrent core of this repository, of what it keeps in files and of the training of decision trees,
checked with TLC, and theorems about them checked with TLAPS.

The repository holds two things. `src/gears` is a C++ library: threads and active objects, a task runner, a scheduler,
a persistent map of profiles built from levels of files, transactions on its keys, containers, strings, logging and a
small code generator. `src/vanga` uses it: decision trees and support vector machines are trained from libsvm files
(`DTreeTrainer`), and rows are collected into profiles (`SegmentUtil`). What is hard to get right, and what no test of
the repository reaches, is in `gears/Threading`, in `gears/ProfileStorage` and in the tree learner of `vanga`; the
models are of these.

Paths below are relative to `src/gears/src/Gears/` unless they begin with `vanga`.

- [Inventory](#inventory)
- [Modules and how they correspond to the code](#modules-and-how-they-correspond-to-the-code)
- [Runs](#runs), [bounds](#bounds), [fairness](#fairness)
- [What is proved](#what-is-proved)
- [Disagreements between code and comments](#disagreements-between-code-and-comments)
- [What is only model-checked, and what is not modelled](#what-is-only-model-checked-and-what-is-not-modelled)
- [Plan](#plan)

## Inventory

`PROJECT.json` lists every component with its files and status, and every hazard at its line.

### Threading

| Component | State | Operations | Hard behaviour | Correct when |
|---|---|---|---|---|
| `ThreadRunner` | `start_semaphore_`, `is_running_`, `number_of_jobs_`, `jobs_` with thread ids | `start`, `wait_for_completion`, the function of every thread | a thread begins before the last one is created; creation fails half way; no lock at all | no job runs before all threads exist, each is joined once, a failed start runs nothing |
| `ActiveObjectCommonImpl` | `active_state_`, `work_mutex_`, `termination_mutex_`, `terminating_` of the job | `activate_object`, `deactivate_object`, `wait_object`, `active` | `wait_object` reads the state and the runner without the lock the others hold | threads work between activation and the end of the wait and at no other time; the object can be used again |
| `TaskRunner` | `tasks_`, semaphores `new_task_` and `not_full_` | `enqueue_task`, the loop of a thread, `terminate`, `clear` | tokens are acquired before the mutex and released after it, and nothing says what a token is for | an accepted task is executed once, a token always finds a task, the runner stops |
| `Scheduler` | ordered `messages_`, `have_new_events_`, a time shift | `schedule`, `unschedule`, `clear`, the loop of its thread, `terminate` | signals sent without the mutex, timed waits, messages that come and go while the thread waits | goals are delivered once, not early, and the thread never sleeps past one |
| `CompositeActiveObject` | `child_objects_`, `active_state_` | the calls of an active object for all children, `add_child_object`, `clear_children` | children that fail, waits without the lock | children are started in order and stopped in reverse, whatever one of them throws |
| `Condition`, `Semaphore`, `ThreadKey`, `ThreadValue`, `TAlloc` | wrappers of POSIX objects; thread-local values | | | |

`TaskRunner` and `Scheduler` are `ActiveObjectCommonImpl`s and bring their job; `LevelProfileMap` is a
`CompositeActiveObject` with a `TaskRunner` and a `Scheduler` as children.

### ProfileStorage

| Component | State | Operations | Hard behaviour | Correct when |
|---|---|---|---|---|
| `TransactionMap` | raw pointers to holders by key; a holder's reference count, waiter count and mutex | `get_transaction`, the end of a transaction | the last reference erases the entry outside the section that found it; creation throws on five paths | one transaction per key, no holder used after its end, none left behind |
| `LevelProfileMap` | the map holder (level in memory and ordered levels), `undumped_size_`, `levels0_`, `merge_tasks_count_`, `active_`, `stop_merge_` | `save_profile`, `remove_profile`, `get_profile`, `wait_preconditions`, `dump`, tasks that dump and merge, the life of the map | four locks, threads that dump and merge copies of a state others change, failures that are retried, writers that wait for room | nothing written is lost or becomes old again, limits are what they count, writers and `dump()` come back |
| `RWMemLevel`, `ReadMemLevel` | profiles of a level in memory and their area | `save_profile`, `remove_profile`, `convert_to_read_mem_level` | area kept by differences | the area is what the limits subtract again |
| `MergeIterator`, `FilterIterator` | a list of iterators ordered by key | `get_next` | which entry of a key survives | the newest one, tombstones included |
| `FileLevel`, `FileController`, `FileReader/Writer` | index and body files; devices, descriptors | write, rename, load, remove | crash between two renames, files not truncated, descriptors reused | a directory loads after a crash, with nothing newer hidden by something older |
| `TransactionProfileMap` | the two maps above | `get_transaction`, and `get`, `save`, `remove` of a transaction | | a read, change and save of one key is not interleaved with another |

### The rest

| Component | Why it matters here |
|---|---|
| `Basic`, `String`, `Logging`, `Plain` of Gears | locks, buffers, time, text, output, a code generator: sequential, or what the models take as given |
| `vanga/src/DTree`: `TreeLearner` | searches every node of a tree for its best change with tasks of a `TaskRunner`, waits until the last one has reported, and keeps bags of rows divided along the tree; the numbers are floating point |
| `vanga/src/DTree`: `SVM`, `DTree` | tables of rows grouped by label, cut by features with set algorithms that need one order everywhere; trees that are predicted with, saved, loaded and pruned |
| `DTreeTrainer` | trains in steps on bags that carry the predictions of the model so far, and writes the model over its own file |
| gains, metrics, `LBFGS`, `FastFeatureSet`, `PredBuffer` | data and numerics |
| `SegmentUtil`, `SVMGenerator`, `SVMUtil`, scripts | command-line programs with one thread |

Further hazards, of components without a model, that are not in `PROJECT.json`: in `TransactionMap` an exception of
`open_transaction_map_.insert` destroys the transaction while the lock its destructor takes is held;
`FileController` may find the device of a closed descriptor, because `FileWriter::close` calls
`::close` itself; `FastFeatureSet` masks an id with `0xFFFFF` and indexes a table of that size; `max_levels0 = 1`
makes `wait_preconditions` wait until the map is deactivated, since its limit is half of that.

## Modules and how they correspond to the code

| Module | Models | Built on |
|---|---|---|
| `KeyMutex` | abstract: one mutex per key | |
| `TransactionMap` | `ProfileStorage/TransactionMap.hpp` | implements `KeyMutex` |
| `TransactionMapProofs` | theorems | `TransactionMap` |
| `Lifecycle` | abstract: threads that work between start and stop | |
| `ActiveObject` | `Threading/ActiveObjectCommonImpl`, `Threading/ThreadRunner` | implements `Lifecycle` |
| `TaskRunner` | `Threading/TaskRunner` | composed with `ActiveObject` |
| `ThreadingProofs` | theorems | `ActiveObject`, `TaskRunner` |
| `Alarms` | abstract: what rings once, and not before its time | |
| `Scheduler` | `Threading/Scheduler` | composed with `ActiveObject`, implements `Alarms` |
| `SchedulerProofs` | theorems | `Scheduler` |
| `CompositeActiveObject` | `Threading/CompositeActiveObject` | children that keep the promise of `Lifecycle` |
| `CompositeActiveObjectProofs` | theorems | `CompositeActiveObject` |
| `Levels` | levels and merges as operators: `ReadMemLevel`, `MergeIterator`, parts of `LevelProfileMap` | |
| `LevelProfileMap` | `ProfileStorage/LevelProfileMap.tpp`, `RWMemLevel.tpp` | `Levels` |
| `LevelsProofs` | lemmas: sums, what levels show, where a merge fits | `Levels` |
| `LevelProfileMapProofs` | theorems | `LevelProfileMap`, `LevelsProofs` |
| `FileLevels` | `ProfileStorage/FileLevel.tpp`, the loading of `LevelProfileMap`, crashes | `Levels` |
| `FileLevelsProofs` | theorems | `FileLevels`, `LevelsProofs` |
| `DecisionTree` | `DTree`, and the trees a `TreeLearner` grows, as operators | |
| `GroupedRows` | `SVM`: rows grouped by label, as operators | |
| `FeatureSearch` | `GetBestFeatureResult` and the search for a node's feature in `TreeLearner.tpp` | |
| `FeatureSearchProofs` | theorems | `FeatureSearch` |
| `TreeLearner` | `vanga/src/DTree/TreeLearner.tpp`: one call of `train` | `DecisionTree`, `GroupedRows`, `FeatureSearch` |
| `Trainer` | `vanga/src/DTreeTrainer`: commands over the life of a model file | composed with `TreeLearner`, implements `FeatureSearch` |
| `MC...` | constants that a `.cfg` cannot write, symmetry | |

Names are those of the code, with the trailing `_` of its members. `PROJECT.json` maps every definition to its lines.
An operator that a comment calls a mutant is a variant of the definition below it with a plausible bug; replacing the
one with the other must break a property, which shows that the property says something.

**What is one step.** A critical section of a mutex is one action, and so is every access outside of it to something
that another thread may see. A broadcast or an `enqueue_task` that directly follows an unlock is part of the section's
action where those it reaches test their condition again under the same mutex (`LevelProfileMap`); where the gap
matters (`Scheduler`'s signal, `TaskRunner`'s tokens) it is an action of its own.

**`TransactionMap`.** Variables are the map, the fields of the holder at each address, and each thread's place in
`get_transaction` and in its transaction's life with its locals. Addresses are reused, as an allocator does. A thread
calls `get_transaction`, finds or creates a holder, waits for its mutex, and closes its transaction in the order of
the destructors; `create_transaction_impl_`, which a subclass defines and which is declared to throw, fails for a new
holder (`FailNew`) or for one it found (`FailOpened`), as the constants say. `RemoveRef` erases the entry *by key*, as
the code does.

**`ActiveObject`.** `activate_object` holds `work_mutex_` while it starts thread after thread; `wait_object` holds
only `termination_mutex_` and reads the state, the runner's flag and its slots one by one. A thread is at one of the
points of `thread_func_`. The job is open: it works until the object is terminating, and modules that have a job
(`TaskRunner`, `Scheduler`) put theirs in its place: their `Next` composes the controller's actions and the thread's
start with the job's own steps, and the job may end only where `ActiveObject` lets it.

**`TaskRunner`.** The queue, both semaphores, the place of every thread in `work()` and of every producer in
`enqueue_task`. `clear()` drops tasks and not their tokens, and the test of `not_full_` is inverted, as in the code.

**`Scheduler`.** The list, the flag, the thread's three sections of `work()` (svc 1: take what is due; svc 2: wait;
svc 3: deliver without the mutex) and the clock. `pthread_cond_timedwait` returns on a signal, at its time, or for no
reason. A message with the time of others goes before them. `unschedule` does not see what svc 1 has taken; what it
leaves is written as the places of the messages that stay, which the proofs use. A goal that calls `schedule` from
`deliver` is like another user, since the mutex is free then.

**`LevelProfileMap`.** A profile is a number, so that the newest one of a key can be told from older ones; a tombstone
has area 1 and a profile 2. The map holder is `rw_level`, `area_size_` and `levels`; a reader's snapshot is the holder
it took, and becomes outdated when the level in memory is exchanged, because the exchange *moves* the contents; of the
levels, which never change, it keeps what the reader will find in them. A worker goes through `dump_mem_level_` and
`merge_levels_` section by section, with what it collected in one used in a later one. A dump fails when its file
cannot be written; the `planner_` then gives the task back. `area_size_` is a variable of its own, because
`RWMemLevel::remove_profile` swaps the replaced profile's body out before it evaluates its size: a tombstone in place
of a profile leaves the area as it was, and the excess stays until the level is exchanged. Nothing promises that it
equals the contents; that the limits come back to zero nevertheless is part of `SizesCounted`.

**`CompositeActiveObject`.** `lock_` stays with a user to the end of its operation, so that the steps inside of one are
the calls of the children, each of which may throw and leave its child as it was. `wait_object` takes the lock twice
and waits for a copy of the list in between. A child is reduced to the states of `Lifecycle`; one that belongs to
nobody may be started by others at any time, which is what `add_child_object` has to deal with. `synchronous_` is the
constructor's `synch_termination`.

**`FileLevels`.** The process is what `LevelProfileMap` does with files, with dumps and the merge cut into the system
calls a crash can fall between: the files of a merge are written, the index renamed, the body renamed, the sources
unlinked one after the other, index first. `FileWriter` opens without `O_TRUNC`; a file knows whether it has a `tail`
of what it was before. `Restart` is the constructor: the directory in any order, every check of `ReadFileLevel` and
`add_level_`, all or nothing. Contents and the choice of what to merge are those of `Levels`, so that a cell means the
same in both modules. History variables say where a crash fell.

**`DecisionTree`, `GroupedRows`.** Trees are records with sequences of branches; a node is named by its path. `Save`
gives the lines of a file, `Load` links them by id as the code does, whether or not the ids resolve. Reals are
integers, of which `Grid` make the last digit that `save` writes. A row keeps its address, because `SVM` sorts and
merges by it.

**`TreeLearner`.** A call of `train` fills the learner's tree from the model and divides the bags along it, searches
every node, applies the best change and releases a `DTree`. What a task computes is any member of `Finds`: a delta for its feature, a change for the node and a gain, so that tasks agree,
differ by less than `EPS`, or gain nothing. The search of a node is `FeatureSearch`: `GetBestFeatureResult` is a
counter, a condition and the best so far; tasks are counted as they are made and are executed by threads while the
maker goes on. `BeginSearch`, `MakeTask`, `ExecuteTask`, `WaitForTasks` and `Choose` conjoin its actions with what they
do to the learner.

**`Trainer`.** A session loads the model if the file is there, trains `left` steps, each on bags prepared with the
predictions of the model so far, and saves line by line over the same file; `filter` prunes the model by the cover of
its nodes. A crash may fall between any two lines.

## Runs

| Run | Question | Answer |
|---|---|---|
| `transaction_map` | Three threads on two keys, with and without the check of `max_waiters_`; creations fail for holders that exist and, for one key, for new ones | no dangling holder; `lock_count_` covers who is in line; at most `max_waiters_` checking callers in line; nothing left behind; implements `KeyMutex` for the other key; no thread waits for a mutex that nobody gets |
| `transaction_map_two_open` | New holders fail: one transaction per key? | violated: see below |
| `active_object` | Start, stop and wait by two threads, a thread whose creation fails | no thread outlives its cycle or works too early; every thread is let go and joined (`ThreadsInOrder`); implements `Lifecycle`; waits return |
| `active_object_failed_start` | Does a failed start run nothing? | violated: see below |
| `task_runner` | Two threads, two producers, a limited queue, failing `push_back`, `clear()`, stop and restart | tokens and tasks agree (`TokensMatchTasks`): a token finds a task unless `clear()` was called, the tokens a stopped runner is left with are those of its tasks, no task is without one, none is executed twice, and a termination has one for every thread it must reach; accepted tasks run; the runner stops |
| `scheduler` | Two users, times in past and future, with the adjustment of delivery times, stop and restart | no oversleeping, neither past a message nor through a termination; implements `Alarms`, goals are delivered, the scheduler stops |
| `level_profile_map` | Two writers, a reader, threads that dump and merge with a failure, shutdown, on an empty and a filled directory | contents, order, sizes and tasks are right in every state; who waits has missed nothing that ends the wait, and a dump or merge that will end it is on its way (`NobodyWaitsInVain`); when `dump()` has waited for `undumped_size_`, everything is in files |
| `level_profile_map_live` | Writers that fill the map to its limits, blocking or not, a `dump()` in mid-life, a failure | saves and `dump()` return |
| `level_profile_map_late_save` | Does `wait_object` stop operations that wait? | violated: see below |
| `composite` | Three children that belong to the composite or to others, one of which may throw once; an owner, a user that calls in between and a waiter; with `synch_termination` and without | children are started and stopped in order; a composite that says it is stopped is; nobody sleeps through a deactivation or waits for a child that was not told to stop (`NobodyWaitsInVain`); the waiter gets away |
| `file_levels` | Levels dumped two at a time and merged, two crashes, a rename that fails | what a crash leaves can be loaded, and holds what was written, but for the cases named below |
| `trainer` | Two steps of training in one session or in two, with a crash while saving, a load or a filter in between; with and without a task runner; one bag, and two of which one lacks a feature | a search waits for every task and takes the best; searches are made one at a time, as `FeatureSearch` has them; bags carry the predictions of the model; the changes applied, saved and loaded are those that were measured; a session ends |

Two properties state what the code does *not* guarantee as their exception. `ReadsLatest` excludes a reader whose
level in memory was exchanged under it: `get_profile` takes the holder before `rw_level_lock_`, and the moved contents
are then neither in its level in memory nor among its levels, so it finds an older value or nothing. `SaveGetsThrough`,
`NobodyWaitsInVain` and `MergesCounted`, a part of `EveryTaskOnce`, exclude what a `dump()` in mid-life leaves behind: it interrupts merges and nothing starts
them again before the next level is dumped, which never happens once `levels0_` is at its limit. Likewise `NoEmptyPop`,
a part of `TokensMatchTasks`, excludes runs in which `clear()` dropped tasks: their tokens lead a thread to an empty
queue, and to the assertion in `work()`.

`FileLevels` has three such exceptions, which history variables keep as small as they are, and without each of which TLC
finds the property violated. `AlwaysLoadable`: a crash (or a failed rename) between the renames of index and body
leaves an index without body, at which `add_level_` throws for the whole directory; and since files are not truncated
when they are opened, and the check for emptiness counts only what was written since, `merge.index` and `merge.data`
of an earlier crash or failure may leave their tails on the files of a later merge. `FindsNewest` and `NothingLost`: a
crash among the unlinks of a merge, which go from the newest source to the oldest, leaves an older source that hides
the merged level if that is in a later cell, and the next merge makes the old value the only one.

`StoppedMeansStopped` of `CompositeActiveObject` is for one user that ends deactivations and for one failure. With a
second waiter, one that was slow to come back from its children ends the *next* deactivation, whose children still
work; with two failures, a child that throws while a failed activation is taken back stays active in a composite that
is not.

`Trainer` does not train a model again that `filter` has left with missing subtrees (`TrainPruned = FALSE`). With
`TRUE`, `SearchesOnModel` is violated: `fill_learn_tree_` takes the whole bags for a missing child, not the part of
the rows that reaches it.

With a second waiter `ActiveObject`'s `StoppedMeansStopped` does not hold: a `wait_object` that read `AS_NOT_ACTIVE` and is overtaken by an
activation and a deactivation sets `AS_NOT_ACTIVE` with no thread joined. With levels that cannot be opened
(`MaxCorrupted = 1`), `SizesCounted` of `LevelProfileMap` does not hold: they are subtracted from `levels0_` and stay. Nothing in the
repository promises otherwise, so neither is a run; the constants allow both.

`CHECK_DEADLOCK FALSE` is given where the system may stop: a stopped active object that nobody starts again, a map
that is closed, or a `wait_object` that hangs as described under `UnfinishedInterrupted`. `TransactionMap` and
`ActiveObject`'s main run check deadlock.

### Bounds

- `transaction_map`: three threads are needed for the last reference to be given up while one thread is in
  `get_transaction` and another one waits. With two addresses an address comes back for the other key, and a thread that
  would need a third one waits for it; `transaction_map_two_open` has three, one for every thread. With
  `max_waiters_ = 2` a third caller is refused.
- `active_object`: one thread more than `threads_number`, so that one a failed start left behind meets the threads of
  the next; `MaxFailures = 1` failed creation; activation, deactivation and wait repeat without bound.
- `task_runner`: two tasks and two threads with a queue of one put a task, a token and a thread in every order; a task
  is enqueued once, which bounds the run.
- `scheduler`: two messages with times in 0..3, and a clock that stops at 3: earlier, equal, later and past times, a
  message in front of the one waited for, and lateness of two, whose half shifts later deliveries. `Adjustments =
  {FALSE}`, where nothing is shifted, holds as well.
- `level_profile_map`: `MaxCalls = 3` saves and removes on two keys, with a level of area 3: a profile and a tombstone
  in its place stay in memory, a second profile makes a level; limits of 4 and of 3 levels 0 are reached; with the
  filled directory there is a gap that a small merge stops at and a big one passes. `MaxFailures = 1` dump or merge
  fails. `max_levels0_` threads run tasks, as the constructor makes them.
- `level_profile_map_live`: one key, levels of area 2, so that every save makes one, at most two levels 0 and an area
  of 4: writers wait for both limits. `MaxDumps = 1` call of `dump()` in mid-life.
- `composite`: three children are the fewest of which one has a neighbour on both sides; an owner and another user that
  call anything but `wait_object` and `clear_children`, and a waiter that calls everything, so that somebody works on
  the children and somebody calls while the waiter is between its two sections; calls repeat without bound.
- `file_levels`: three levels of two keys, at most two in memory, so that they are dumped in any order, and six files:
  two merges, the second of which has the first one's leftovers and result before it. A second crash falls into what
  the first one left.
- `trainer`: three training rows over two features, every one of which two rows share, and two test rows; `Finds` has two
  finds within `EPS` of each other and one too small for a branch. Two steps let the second one search on a branched
  tree and under ids that were loaded. The tasks of one search are as many as its bag has features, two.
- Symmetry is used for the threads and keys, and only in runs without liveness properties.

### Fairness

Weak fairness of threads that are in the middle of something, and of nothing else: no user has to call anything, no
object has to be deactivated, and nothing has to fail.

- `TransactionMap`: every thread that is inside goes on and closes the transaction it has, as users of a lock do. A
  mutex is given to somebody; which of the waiters gets it is open, and so `SomebodyGetsIn` promises progress of the
  key, not of a thread.
- `ActiveObject`, `TaskRunner`, `Scheduler`: begun calls and threads go on. The job of `ActiveObject` ends when the
  object is terminating. For the scheduler time passes, and a user that has unlocked the mutex sends its signal; a
  spurious wakeup is never counted on.
- `LevelProfileMap`: users in a call, workers and an owner inside `dump()` go on, and the planner delivers. That a
  dump is retried after ten seconds and finally succeeds is `MaxFailures`: files that can never be written let writers
  wait for ever.
- `CompositeActiveObject`: users in an operation go on, and the threads of a child that was told to stop end.
- `Trainer`: its main thread and the threads of the task runner go on (`MainStep`, `TaskStep`); it asks
  for no command and for no crash. The condition is written out, since TLC evaluates `ENABLED`
  of such large actions slowly; it is the guards of the actions, and the same formula.

Condition variables in `LevelProfileMap` wake nobody without a broadcast; that is the harder case for liveness, and a
spurious wakeup only leads to another test of the condition.

## What is proved

`TransactionMapProofs`, from `ConstantsAssumption` alone (finitely many threads; any keys, addresses and limit):

- `Invariance`: `Spec => []IndInv`. The invariant ties `ref_count_` to the threads that point to a holder
  (`RefCountExact`), the map to live holders of the right key (`MapToLive`, `KeysAgree`), a mutex to the transaction
  that has it locked (`LockOwned`), and, when the creation of a new holder does not fail, a thread's holder to the one
  in the map (`Registered`). None of the properties is inductive without the first: whether a holder may be deleted
  depends on how many others point to it.
- `TypeCorrect`, `HoldersAlive`, `WaitersCounted`, `NoLeak`, `WaitersBounded` follow from it, the last with a second
  induction over who is in line.
- `BlockedByTransaction` is the safety half of `SomebodyGetsIn`: a thread that finds a mutex locked waits for another
  thread's transaction on its own key, open or about to be closed, so no mutex is left locked when creations fail.
- `Refinement`: `TransactionMap` implements `KeyMutex` for the keys whose new holders do not fail, and `MutualExclusion`,
  when that is every key; `transaction_map_two_open` shows that they have to be excepted.

`ThreadingProofs`, about `ActiveObject`, from `ConstantsAssumption` and `Disciplined(o)`: one owner `o` activates the object and waits
for it, and creations of threads do not fail; other controllers may deactivate it at any time. (With a second waiter
`StoppedMeansStopped` is false, and after a failed start `FailedStartRunsNothing` is.)

- `Invariance`: `Spec => []IndInv(o)`. The invariant says, for every place the owner can be at, what the state, the
  flags, the threads, the slots and the token of start are (`Stopped`, `Starting`, `Running`, `Stopping`,
  `SlotsHoldThreads`, `OneToken`).
- `TypeCorrect` and `StoppedIsStopped` follow, and `Refinement`: the object implements `Lifecycle` for every number of
  threads.
- `HeldBackAndJoined`: `ThreadsInOrder`. Its last part needs an induction of its own: `OneToken` says that there is at
  most one token of start, `TokenHandedOn` that there is one until `wait_for_completion` has taken it back, so that a
  thread that is held back, and that call, always find it in the semaphore or with a thread about to release it.

The same module, about `TaskRunner`, from `TaskRunnerAssumption` (finitely many producers; any tasks and limit) and `Disciplined(o)`:

- `RunnerIsActiveObject`: every behaviour of the runner is one of `ActiveObject`, whose invariant therefore holds.
- `RunnerInvariance`: next to it holds `TRIndInv`. A task is in one place: not accepted yet, with one producer, once in
  the queue, with one thread, executed or dropped (`HeldOnce`, `OfferedOnce`, `QueuedOnce`); and tokens balance
  (`TokenBalance`): those in `new_task_`, about to be released and acquired by threads are as many as the tasks in the
  queue and the dropped ones, and, while the object terminates, one more for every thread that has not ended. The last
  part is where `ActiveObject`'s invariant is needed: `terminate` releases one token per job, and the balance holds
  because there is a thread for every slot then and none left when `wait_object` resets the state.
- `TokensAndTasks`: `TokensMatchTasks`, for any number of threads, producers and tasks. By the same balance there are as
  many tokens as threads that have not heard of a termination (`TerminationReachesAll`), whatever tasks are in the queue
  or were dropped.

`SchedulerProofs`, from `SchedulerAssumption` alone (any users, messages, goals, adjustments and bound of the clock,
and whoever activates and deactivates):

- `SchedulerIsActiveObject`: every behaviour of the scheduler is one of `ActiveObject`.
- `SchedulerInvariance`: a message is in one place (`ScheduledOnce`), the list is sorted (`Sorted`), what the thread has
  taken is due and stays due until it is delivered (`PendingDue`, `ShiftLearned`), and from the moment it has looked at
  the list until it waits, the thread knows of the first message or has new events announced (`WakesInTime`). It starts
  with lemmas about lists: where `schedule` inserts, what the thread's first section takes, and that every other step leaves a part of the
  list in its order (`Thinned`). The greatest and least place with a property exist because the natural numbers are
  well-founded.
- `NeverOversleeps` (`NoOversleep`) follows: without `Sorted` a removal could put an earlier message first. That the
  thread does not sleep through a termination either is `StopNoticed`: `terminate` sets the flag, announces the event
  and signals in one section, and the thread looks for events before it waits.
- `Refinement`: the scheduler implements `Alarms`.

`CompositeActiveObjectProofs`, from `ConstantsAssumption` (any users and children) and, but for `WaitInvariance` and
`NobodyOversleeps`, from `OneWaiter` (one user calls `wait_object` and `clear_children`):

- `CompositeInvariance`: `Spec => []IndInv`, which is about the time until a child throws. The invariant says who holds `lock_` and where every user is then
  (`LockHeld`), for each of these places how far the user has come with its list and which children are started,
  stopped or joined so far (`Starting`, `Stopping`, `Joining`, `Adopting`), what the state says while nobody works on
  the children (`AtRest`), and that they are in order (`InOrder`). The order alone is not inductive: that the next child
  to stop is the last active one follows from the loop's place in the reversed list, and that nobody changes the list
  meanwhile from the lock. The waiter joins without it, on a copy; that nothing but the end of a child happens then
  holds because the composite is deactivating, and only a waiter ends that. With a second waiter this is false.
- `ChildrenInOrder` follows: `AddedOrder`.
- `SoundInvariance`: until a second child has thrown, `Sound`. A child that throws breaks the order, so this invariant
  is about sets: while a user starts, stops or joins children, whatever may still work, or was not waited for, is on its
  list (`Activating`, `Deactivating`, `Waiting`), unless it has seen a child throw, which it will report. An activation
  that fails must not report another failure, for it ends as not active whatever happens; that it cannot is because the
  one failure is spent (`Work`), and where two failures break the property.
- `NothingLeftRunning` follows: `StoppedMeansStopped` until a second child throws; `OneFailureStops`: always, where one
  may.
- `WaitInvariance`: `Spec => []Awaiting`, without a bound on waiters and on children that throw. The state of the
  composite and its order say little then, so the invariant is about each user alone (`Task`): who is about to wait for
  a child, with `lock_` or without, has told it to stop or found it stopped, and of the children that a user still has
  to tell, all are on its list. The list of a wait is a copy made in another section, so that
  what is on it must also stay told (`ToldToStop`): in a composite that is deactivating no child of it is active,
  unless an activation is being taken back. `Sleepers` is about the one broadcast of a stop: it comes before the
  state is changed, under the same lock.
- `NobodyOversleeps` follows (`NobodySleepsOn`), and with one waiter `WaitsEnd`: `NobodyWaitsInVain`. With a second waiter
  a user that copied the list, and was overtaken by the end of that deactivation and a new activation, waits for
  children that are active.

`LevelProfileMapProofs`, from `LevelProfileMapAssumption` and `InitialLevelsAssumption` (any finite set of keys, users,
readers, background users, threads, limits, numbers of failures and of levels that cannot be opened; the levels found
in the directory are files in the order of the map, one in a cell):

- `MapInvariance`: `Spec => []IndInv`. The invariant says where the tasks are: each is once in the queue, with the
  planner or in the hands of a thread (`HeldOnce`), a merge is among them when `merge_tasks_count_` is 1, and a dump
  for every level in memory and for nothing else (`Needed`). What a thread has taken must still be there: the level it
  writes is still in memory, and the levels 0 it merges are still files of the map (`Current`), although others
  exchange, dump and merge meanwhile. For this the levels 0 have to stay in front and in the order of their sub
  indexes (`ZeroFirst`), so that a sub index finds one level and a merge, which takes files after the last level in
  memory and gives its result the cell of the first of them or one of a greater index, replaces none of the others.
- `TasksAlwaysOnce` follows: `EveryTaskOnce`. A level in memory has one task, and as to merges, a thread that publishes a second level 0 asks for a merge, a
  thread that publishes a merge holds the only one, and the last look at the levels in `MergeEnds` is under the lock of
  the counter.
- `MapContents`: `Spec => []ContentsKept`, on top of `MapInvariance`. As long as every level could be opened for its
  merge (`corrupted = 0`), the map is in order, shows what was written last and counts what it has (`LevelsOrdered`,
  `LatestWins`, `SizesCounted`), a file has the area of its contents and memory at most the area it is taken to have
  (`AreasKnown`), and a reader's older value is that of the current levels (`ReadersFind`). Inductive it becomes by what
  it says of a running merge (`Mergeable`): its levels are in order, in files and still among the levels, and every
  other level comes before all of them and their result, or after (`Apart`). New levels come before all others, a dump
  leaves a level its cell, and `MergeLevels` stops at a gap that the result fits in, however many levels fill the cell,
  because the result is no larger than the sum of its sources. The condition is needed: a merge goes over a level that
  it could not open, and its result may then be on the wrong side of it.
- `LatestAlwaysWins`, `LevelsAlwaysOrdered`, `SizesAlwaysCounted` and `ReadersAlwaysFind` follow: `LatestWins`,
  `LevelsOrdered`, `SizesCounted` and `ReadsLatest` while `corrupted = 0`, which is always so in the run.
- `DumpAlwaysSaves`, with `MaxCorrupted = 0`: `DumpSaves`. Only `AllDumped` ends the wait, when `undumped_size_` is 0;
  the sum of the areas it counts is then 0, so that no level is in memory, and the level for writing is empty because
  `AreasKnown` bounds its contents by its area, although `area_size_` may be too large.
- `Wakeups`: `Spec => []Told`, on top of `MapInvariance` and without a condition on levels. `save_profile` and
  `remove_profile` change `undumped_size_` and signal nothing; that who waits for room nevertheless finds none, on an
  active map, holds because a change that makes room can only be made by one that found room, while `dump_mem_level_`,
  `merge_levels_` and the end of the map signal when a size leaves its limit.
- `WaitsEnd`: `NobodyWaitsInVain` while `corrupted = 0`, the safety half of `SaveGetsThrough` and `DumpReturns`. A full
  map has a dump or a merge that is queued, planned or running (`RoomIsMade`), because the sum that `undumped_size_` counts
  contains a level in memory, which `Needed` gives a task, or because `levels0_` counts two files, which are to be merged.
  With `max_levels0_ = 1` the first level 0 fills the map for good, so the property is about greater limits.

`LevelsProofs` has the lemmas both invariants need about the operators of `Levels`, from `LevelsAssumption` (finitely
many keys, a positive size of the level in memory). A sum is the number of its units (`Total`), so that it can be reasoned about with
the theorems about cardinalities and no induction: how one changed summand changes it, its bounds, sums over a list in order
and over the set of its levels (`TotalMoved`). What a list in order shows is a matter of its set (`Shows`,
`OverlaySame`), so that a merge that replaces a set of levels by one which shows the same in the same place changes
nothing (`MergedShows`, `MergePlaces`, `MergeCounts`).

`FileLevelsProofs`, from `LevelsAssumption` alone (any finite set of keys, any sizes, and any number of exchanges, files,
failed renames and crashes), for what `FileLevels` takes as given: numbers of files do not repeat, and a system call
that was made has its effect.

- `FilesInvariance`: `Spec => []IndInv`, in two halves that are proved one after the other.
  `FilesInv` is about names: no file has a number that is still to be given (`Numbered`), an index without body is
  that of a dump or merge under way or of one that was torn, and of a source that is being unlinked the index is gone before
  the body (`Paired`), and while nothing has crashed or failed the sizes of `merge.index` and `merge.data` are what
  the merge under way has written to them (`TailsExplained`).
  `ContentsInv` is about the whole files that stay, which are those with a body but the sources of a merge that is
  unlinking (`Kept`): what the map would have if it were loaded now. Every level
  that is a file has one of them (`Backed`), a dump under way has the level in memory that it writes
  (`Dumping`), and every one of them is a level of the map or has been dumped and is about to be published (`Found`).
  They are in cells of their own (`Differ`) and show what was written last (`Newest`). A merge replaces its sources by what shows the same, as in `LevelProfileMap`
  (`Merging` with `Apart` and `MergedShows`), in the moment its body is renamed; unlinking then takes only files that
  are not kept any more.
- A crash leaves `Kept` as it is, unless it falls among unlinks: then the sources that are left are kept files again,
  which is why `FindsNewest` ends there. That nothing is lost needs less and goes on (`Preserved`): the merged level is among them, and nothing is
  unlinked before the next merge. `Placed` is what is left of the order of the levels then: two files may be in one cell.
- `EveryFileLoads` (`AlwaysLoadable`), `NewestAlwaysFound` (`FindsNewest`) and `NothingEverLost` (`NothingLost`) follow.
  The first needs `FilesInv` only, the others both.

`FeatureSearchProofs`, from `SearchAssumption` (any positive `EPS`, any gain to start a search that allows negative
gains with), for any features and any outcomes whose gains are integers:

- `SearchesExactly`: `SearchSpec => []SearchExact`. The invariant says that a feature is in one place (`Tried`), where the
  search is by its counter (`Stages`), and how far the best gain may be from the least one (`Close`): `set` gives
  the best up for one that is worse by less than `EPS`, so that with every task it may move away by as much, and what was
  chosen earlier stays as long as no step is a whole `EPS`. While nothing is chosen, every gain seen was
  `EPS` over the start, which is not below `-EPS`; that is why no negative gain is passed over.
- The theorem is about `SearchSpec`, the searches of `FeatureSearch` with anything between them. `TreeLearner`'s actions are
  conjunctions of `FeatureSearch`'s with what they do to the learner, and the `trainer` run checks that the whole trainer
  implements it (`ImplementsSearch`); that step cannot be proved: `DecisionTree` declares `RECURSIVE` operators, and
  that the features of a bag are those of the training rows is an induction over the folds of `GroupedRows`.

The proofs have one lemma per conjunct of the invariant with one step per action in it, or, for `LevelProfileMap`
and `FileLevels`, one lemma per action; a lemma cites only the conjuncts it needs.

## Disagreements between code and comments

Three runs are expected to find what a comment excludes; `PROJECT.json` quotes the lines.

1. `TransactionMap`: a holder whose first transaction could not be created was never inserted, but erases the entry of
   its key when it dies, after the lock was given up. Another thread's holder may be there by then, and a third thread
   then opens a second transaction on the key.
2. `ThreadRunner::start`: after a failed creation `is_running_` is reset before `wait_for_completion`, which looks at
   it and joins nothing. A thread that did not run yet executes the job in the next activation.
3. `LevelProfileMap::save_profile`: `active_` is looked at only while there is no room, so that an operation that
   waits may write after `wait_object` has reset it; `wait_object` may then never return.

One more is seen without a run: `TaskRunner::enqueue_task` takes the result of `try_acquire` for its opposite, so that
with a limit tasks are refused when there is room and accepted when there is none. The model has the test as it is.

## What is only model-checked, and what is not modelled

- Liveness, in all modules: fairness and `ENABLED` are not in the prover's reach. What can be proved of it is its
  safety half, that nobody waits for something that does not come: `BlockedByTransaction`, `HeldBackAndJoined`,
  `TokensAndTasks`, `NeverOversleeps`, and `WaitsEnd` of the composite and of the map. That those who are waited for go
  on is the fairness of the runs.
- `SearchesOnModel`, `ScoredAsPredicted`, `ModelsLoadBack`, `PredictionsAdd` and `ImplementsSearch` of the `trainer`
  run, for the reason given below.
- `LevelProfileMap` with levels that cannot be opened: what `ContentsKept` says holds only without them.
- `DecisionTree`, `GroupedRows`, `TreeLearner` and `Trainer` but for `SearchExact`: contents are folds and recursive
  functions over data, about which induction over an operator would be needed. `DecisionTree` and its users declare
  `RECURSIVE` operators, which the prover's SMT backend does not take.
- In the modelled components: destructors, constructors with several jobs, `wait_for_queue_exhausting`, null tasks and
  goals, errors of POSIX calls other than the creation of threads, a clock that is set back; expiry, `PO_INSERT` (the
  map writes `PO_REWRITE` and `PO_ERASE` only; older files may hold it), `check_profile` (as `get_profile`),
  `copy_keys`, sizes that are only reported, and the contents of files. `DumpRWLevelTask` is never created, and
  `ClearExpiredTask` belongs to expiry.
- A background caller of `wait_preconditions` is not told when a remove takes `undumped_size_` under its limit: the
  condition of the broadcast cannot hold there. The model has this; no property promises anything about it.
- The tree learner with strategies other than `FSS_BEST`, with deeper digs, and its numbers: deltas at the minimum of a
  loss and gains are any members of `Finds`. The forest commands of `DTreeTrainer`, and the reading of its input.
- `FileController` and file access: offsets, devices and buffers decide about the order and speed of writes.
  `FileLevels` takes a write as done when the next system call is made: a loss of power, which may reorder them, is not
  modelled, and nothing in the code calls `fsync`.
- `TransactionProfileMap` has no state of its own: it forwards to `LevelProfileMap` under a transaction of
  `TransactionMap`.
- Components with status `not_modelled` in `PROJECT.json`, with the reason.

## Plan

Done are the modules above. What is left, in this order:

1. `MergeIterators`: `MergeIterator`, `OperationPackIterator` and the access time filter as functions, `PO_INSERT`
   included, against `Overlay` and against the effect of applying operations one after the other.
2. `TransactionProfileMap`: `KeyMutex` over the promise of a profile map, for transactions that read, change and save.
