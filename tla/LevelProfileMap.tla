----------------------------- MODULE LevelProfileMap -----------------------------
(***************************************************************************)
(* Gears::LevelProfileMap: profiles saved to a level in memory, which is   *)
(* exchanged for an empty one when it is full, dumped to files by threads  *)
(* of a task runner, and merged with older files, while other threads read,*)
(* save and remove.                                                        *)
(*                                                                         *)
(* One action is one critical section of rw_level_lock_,                   *)
(* map_holder_change_lock_, map_holder_lock_ or merge_tasks_count_lock_,   *)
(* with the broadcast or the enqueue_task that follows its unlock: both    *)
(* only matter to threads that test their condition under the lock again.  *)
(* Condition variables wake nobody without a broadcast.                    *)
(***************************************************************************)
EXTENDS Levels

CONSTANTS
    Users,              \* threads that save and remove
    Readers,            \* threads that get
    BackgroundUsers,    \* those that call wait_preconditions and pass OP_BACKGROUND
    Workers,            \* threads of task_runner_
    Modes,              \* values of traits.mode
    InitialLevels,      \* the levels the constructor may find in the directory
    max_undumped_size_,
    max_levels0_,
    MaxDumps,           \* bound: calls of dump() by the owner
    MaxFailures,        \* bound: dumps and merges that fail
    MaxCorrupted        \* bound: levels that cannot be opened for a merge

ASSUME LevelProfileMapAssumption ==
    /\ BackgroundUsers \subseteq Users
    /\ Modes \subseteq {"BLOCK_RUNTIME", "NONBLOCK_RUNTIME"}
    /\ max_undumped_size_ \in Nat \ {0}
    /\ rwlevel_max_size_ \in 1 .. max_undumped_size_
    /\ Cardinality(Workers) = max_levels0_
    /\ max_levels0_ \in Nat \ {0}
    /\ IsFiniteSet(Workers)
    /\ {MaxCalls, MaxDumps, MaxFailures, MaxCorrupted} \subseteq Nat

\* Files in the order of the map, one in a cell.  FileLevels shows how a crash
\* may leave two.
ASSUME InitialLevelsAssumption ==
    \A ls \in InitialLevels :
        /\ ls \in Seq(LevelType)
        /\ \A i \in DOMAIN ls : ls[i].file /\ ls[i].area = Area(ls[i].map)
        /\ Ordered(ls)

max_background_undumped_size_ == max_undumped_size_ \div 2
max_background_levels0_ == max_levels0_ \div 2

VARIABLES
    mode_, active_, undumped_size_, levels0_,
    rw_level,           \* contents of map_holder_->rw_level
    area_size_,         \* and its area_size_
    levels,             \* map_holder_->levels
    tasks,              \* queue of task_runner_
    planned,            \* tasks that planner_ will give to it
    merge_tasks_count_, stop_merge_,
    at,                 \* where a user is
    snapshot,           \* the map holder a reader has taken
    work,               \* what a worker does
    owner, dumping,     \* life of the map, and where its owner is in dump()
    written,            \* history: the last value written to every key
    profiles,           \* history: the last profile that was saved
    interrupted,        \* history: has dump() left levels 0 unmerged?
    calls, dumps, failures, corrupted

content_vars == <<rw_level, area_size_, levels, snapshot, written, profiles>>
account_vars == <<undumped_size_, levels0_>>
task_vars == <<tasks, planned, work>>
merge_vars == <<merge_tasks_count_, stop_merge_, interrupted>>
owner_vars == <<owner, dumping, active_, mode_>>
bound_vars == <<calls, dumps, failures, corrupted>>
vars == <<content_vars, account_vars, task_vars, merge_vars, at, owner_vars, bound_vars>>

NoSnapshot == [taken |-> FALSE]
Idle == [job |-> "idle"]
MergeTask == [task |-> "merge"]
DumpTask(sub_index) == [task |-> "dump", sub_index |-> sub_index]

Init ==
    /\ mode_ \in Modes
    /\ active_ = FALSE
    /\ levels \in InitialLevels
    /\ levels0_ = Levels0(levels)
    /\ undumped_size_ = 0
    /\ rw_level = Empty
    /\ area_size_ = 0
    /\ merge_tasks_count_ = IF merge_check_(levels) THEN 1 ELSE 0
    /\ tasks = IF merge_check_(levels) THEN <<MergeTask>> ELSE <<>>
    /\ planned = {}
    /\ stop_merge_ = FALSE
    /\ at = [u \in Users |-> "idle"]
    /\ snapshot = [r \in Readers |-> NoSnapshot]
    /\ work = [w \in Workers |-> Idle]
    /\ owner = "new"
    /\ dumping = "no"
    /\ written = Overlay(levels)
    /\ profiles = 2
    /\ interrupted = FALSE
    /\ calls = 0 /\ dumps = 0 /\ failures = 0 /\ corrupted = 0

-------------------------------------------------------------------------------
(***************************************************************************)
(* undumped_size_change_ has users and the owner as its waiters.           *)
(***************************************************************************)
Woken(place) == CASE place = "waitBackground" -> "background"
                  [] place = "waitRoom" -> "room"
                  [] OTHER -> place

WakeUsers(signal, places) == IF signal THEN [u \in Users |-> Woken(places[u])] ELSE places

WakeOwner(signal) ==
    dumping' = IF signal /\ dumping = "waitUndumped" THEN "undumped" ELSE dumping

\* Mutant: off by one.
CrossesAbove(prev, new, limit) == prev > limit /\ new < limit

Crosses(prev, new, limit) == prev >= limit /\ new < limit

\* Mutant: nobody is told of an empty map.
SignalByLimitsOnly(prev, new) ==
    \/ Crosses(prev, new, max_undumped_size_)
    \/ Crosses(prev, new, max_background_undumped_size_)

signal_by_undumped_size_(prev, new) ==
    \/ Crosses(prev, new, max_undumped_size_)
    \/ Crosses(prev, new, max_background_undumped_size_)
    \/ prev # 0 /\ new = 0

signal_by_levels_change_(prev, new) ==
    \/ Crosses(prev, new, max_levels0_)
    \/ Crosses(prev, new, max_background_levels0_)

Full == undumped_size_ >= max_undumped_size_ \/ levels0_ >= max_levels0_

BackgroundFull ==
    \/ undumped_size_ >= max_background_undumped_size_
    \/ levels0_ >= max_background_levels0_

(***************************************************************************)
(* The level in memory, with contents map and the area it is taken to have, *)
(* becomes the first level.  The                                            *)
(* contents are moved, not copied: a reader that already has the old map   *)
(* holder finds its level in memory empty.                                 *)
(***************************************************************************)
\* Mutant: the sub index of the first level again.
SameSubIndex == IF levels = <<>> THEN 0 ELSE Head(levels).sub_index

NewSubIndex == IF levels = <<>> THEN 0 ELSE Head(levels).sub_index + 1

exchange_rw_level_i_(map, area) ==
    IF area > 0
    THEN /\ levels' = <<MemLevel(NewSubIndex, map, area)>> \o levels
         /\ rw_level' = Empty
         /\ area_size_' = 0
         /\ levels0_' = levels0_ + 1
         /\ tasks' = Append(tasks, DumpTask(NewSubIndex))
         /\ snapshot' = [r \in Readers |-> IF snapshot[r].taken THEN [snapshot[r] EXCEPT !.current = FALSE]
                                                     ELSE NoSnapshot]
    ELSE UNCHANGED <<rw_level, area_size_, levels, levels0_, tasks, snapshot>>

-------------------------------------------------------------------------------
(* save_profile, remove_profile and wait_preconditions *)

Goto(u, place) == at' = [at EXCEPT ![u] = place]

Priority(u) == IF u \in BackgroundUsers THEN "OP_BACKGROUND" ELSE "OP_RUNTIME"

Call(u) ==
    /\ at[u] = "idle"
    /\ calls < MaxCalls
    /\ calls' = calls + 1
    /\ owner \notin {"waiting", "drained", "closed"}
    /\ Goto(u, IF u \in BackgroundUsers THEN "background" ELSE "room")
    /\ UNCHANGED <<content_vars, account_vars, task_vars, merge_vars, owner_vars,
                   dumps, failures, corrupted>>

Leave(u, from, to) ==
    /\ at[u] = from
    /\ Goto(u, to)
    /\ UNCHANGED <<content_vars, account_vars, task_vars, merge_vars, owner_vars, bound_vars>>

WaitBackground(u) == BackgroundFull /\ active_ /\ Leave(u, "background", "waitBackground")
BackgroundNotActive(u) == ~active_ /\ Leave(u, "background", "idle")
PreconditionsHold(u) == ~BackgroundFull /\ active_ /\ Leave(u, "background", "room")

Nonblocking(u) == Priority(u) = "OP_RUNTIME" /\ mode_ = "NONBLOCK_RUNTIME"

WaitRoom(u) == Full /\ active_ /\ ~Nonblocking(u) /\ Leave(u, "room", "waitRoom")
NotActive(u) == Full /\ ~active_ /\ Leave(u, "room", "idle")
Blocked(u) == Full /\ active_ /\ Nonblocking(u) /\ Leave(u, "room", "idle")

\* Mutant: the former area of the level in memory is not subtracted.
AreaAdded(area) == area

\* What a new area of the level in memory adds to undumped_size_.
AreaChange(area) == area - area_size_

\* The loop ends when there is room, without a look at active_.
Change(u, k, entry, area) ==
    LET map == [rw_level EXCEPT ![k] = entry]
        undumped == undumped_size_ + AreaChange(area)
        signal == \/ Crosses(undumped_size_, undumped, max_undumped_size_)
                  \/ undumped_size_ # 0 /\ undumped = 0
    IN /\ at[u] = "room"
       /\ ~Full
       /\ undumped_size_' = undumped
       /\ written' = [written EXCEPT ![k] = entry]
       /\ IF area >= rwlevel_max_size_
          THEN exchange_rw_level_i_(map, area)
          ELSE /\ rw_level' = map
               /\ area_size_' = area
               /\ UNCHANGED <<levels, levels0_, tasks, snapshot>>
       /\ at' = WakeUsers(signal, [at EXCEPT ![u] = "idle"])
       /\ WakeOwner(signal)
       /\ UNCHANGED <<planned, work, merge_vars, owner, active_, mode_, bound_vars>>

\* What an operation writes does not depend on how long it waits.
save_profile(u) ==
    /\ profiles' = profiles + 1
    /\ \E k \in Keys :
         Change(u, k, profiles + 1, area_size_ - Size(rw_level[k]) + Size(profiles + 1))

\* The body of the profile it replaces is swapped out before its size is
\* taken, so that a tombstone in place of an entry leaves area_size_ as it is.
remove_profile(u) ==
    /\ \E k \in Keys :
         Change(u, k, ERASE,
                IF rw_level[k] = NOT_FOUND THEN area_size_ + Size(ERASE) ELSE area_size_)
    /\ UNCHANGED profiles

-------------------------------------------------------------------------------
(***************************************************************************)
(* get_profile: the map holder is taken before rw_level_lock_.  Levels do  *)
(* not change, and a reader keeps those it has alive, so that what it will *)
(* find in them is known when it takes the holder.                         *)
(***************************************************************************)

TakeSnapshot(r) ==
    /\ ~snapshot[r].taken
    /\ \E k \in Keys :
         snapshot' = [snapshot EXCEPT ![r] =
                        [taken |-> TRUE, key |-> k, current |-> TRUE, older |-> Overlay(levels)[k]]]
    /\ UNCHANGED <<rw_level, area_size_, levels, written, profiles, account_vars, task_vars, merge_vars, at,
                   owner_vars, bound_vars>>

\* Mutant: a tombstone in memory does not end the search.
GetPastTombstone(r) ==
    LET s == snapshot[r]
    IN IF s.current /\ rw_level[s.key] \in Profiles
       THEN rw_level[s.key]
       ELSE s.older

get_profile(r) ==
    LET s == snapshot[r]
    IN IF s.current /\ rw_level[s.key] # NOT_FOUND
       THEN rw_level[s.key]
       ELSE s.older

EndGet(r) ==
    /\ snapshot[r].taken
    /\ snapshot' = [snapshot EXCEPT ![r] = NoSnapshot]
    /\ UNCHANGED <<rw_level, area_size_, levels, written, profiles, account_vars, task_vars, merge_vars, at,
                   owner_vars, bound_vars>>

UserStep(u) ==
    \/ WaitBackground(u) \/ BackgroundNotActive(u) \/ PreconditionsHold(u)
    \/ WaitRoom(u) \/ NotActive(u) \/ Blocked(u)
    \/ save_profile(u) \/ remove_profile(u)

-------------------------------------------------------------------------------
(* Threads of task_runner_ *)

Running == owner \notin {"new", "closed"}

Do(w, next) == work' = [work EXCEPT ![w] = next]

NextTask(w, kind) ==
    /\ Running
    /\ work[w] = Idle
    /\ tasks # <<>>
    /\ Head(tasks).task = kind
    /\ tasks' = Tail(tasks)

FindLevel(sub_index) ==
    SelectInSeq(levels, LAMBDA l : l.index = 0 /\ l.sub_index = sub_index)

\* dump_mem_level_ looks the level up and writes it to a temporary file.
TakeDump(w) ==
    /\ NextTask(w, "dump")
    /\ LET i == FindLevel(Head(tasks).sub_index)
       IN Do(w, IF i # 0
                THEN [job |-> "write", level |-> levels[i]]
                ELSE [job |-> "account", area |-> 0, merge |-> FALSE])
    /\ UNCHANGED <<content_vars, account_vars, planned, merge_vars, at, owner_vars, bound_vars>>

\* Mutant: the task is not planned again.
DumpFailsForever(w) ==
    /\ work[w].job = "write"
    /\ failures < MaxFailures
    /\ failures' = failures + 1
    /\ Do(w, Idle)
    /\ UNCHANGED <<content_vars, account_vars, tasks, planned, merge_vars, at, owner_vars,
                   calls, dumps, corrupted>>

\* Mutant: the level is taken for dumped although it will be dumped again.
DumpFailsCounted(w) ==
    /\ work[w].job = "write"
    /\ failures < MaxFailures
    /\ failures' = failures + 1
    /\ planned' = planned \cup {DumpTask(work[w].level.sub_index)}
    /\ Do(w, [job |-> "account", area |-> work[w].level.area, merge |-> FALSE])
    /\ UNCHANGED <<content_vars, account_vars, tasks, merge_vars, at, owner_vars,
                   calls, dumps, corrupted>>

\* The file cannot be written or renamed: the planner runs the task again.
DumpFails(w) ==
    /\ work[w].job = "write"
    /\ failures < MaxFailures
    /\ failures' = failures + 1
    /\ planned' = planned \cup {DumpTask(work[w].level.sub_index)}
    /\ Do(w, Idle)
    /\ UNCHANGED <<content_vars, account_vars, tasks, merge_vars, at, owner_vars,
                   calls, dumps, corrupted>>

\* The file takes the place of the level in the current map holder.
DumpPublishes(w) ==
    /\ work[w].job = "write"
    /\ LET i == FindLevel(work[w].level.sub_index)
           new_levels == [levels EXCEPT ![i] = FileLevel(0, @.sub_index, work[w].level.map)]
       IN /\ levels' = new_levels
          /\ Do(w, [job |-> "account", area |-> work[w].level.area, merge |-> merge_check_(new_levels)])
    /\ UNCHANGED <<rw_level, area_size_, snapshot, written, profiles, account_vars, tasks, planned, merge_vars, at,
                   owner_vars, bound_vars>>

DumpAccounts(w) ==
    /\ work[w].job = "account"
    /\ undumped_size_' = undumped_size_ - work[w].area
    /\ LET signal == signal_by_undumped_size_(undumped_size_, undumped_size_')
       IN at' = WakeUsers(signal, at) /\ WakeOwner(signal)
    /\ Do(w, IF work[w].merge THEN [job |-> "request"] ELSE Idle)
    /\ UNCHANGED <<content_vars, levels0_, tasks, planned, merge_vars, owner, active_, mode_,
                   bound_vars>>

RequestMerge(w) ==
    /\ work[w].job = "request"
    /\ IF merge_tasks_count_ >= 1
       THEN UNCHANGED <<merge_tasks_count_, tasks, interrupted>>
       ELSE /\ merge_tasks_count_' = merge_tasks_count_ + 1
            /\ tasks' = Append(tasks, MergeTask)
            /\ interrupted' = FALSE
    /\ Do(w, Idle)
    /\ UNCHANGED <<content_vars, account_vars, planned, stop_merge_, at, owner_vars, bound_vars>>

\* Levels that cannot be opened are left out of the merge.
TakeMerge(w) ==
    /\ NextTask(w, "merge")
    /\ LET all == MergeLevels(levels)
       IN IF Len(all) > 1
          THEN \E opened \in (SUBSET DOMAIN all) \ {{}} : \E p \in Ascending(opened) :
                 /\ corrupted' = corrupted + Cardinality(DOMAIN all \ opened)
                 /\ corrupted' <= MaxCorrupted
                 /\ Do(w, [job |-> "merge",
                           levels |-> Select(all, p),
                           levels0 |-> Levels0(all)])
          ELSE /\ Do(w, [job |-> "recheck", again |-> FALSE, failed |-> FALSE])
               /\ UNCHANGED corrupted
    /\ UNCHANGED <<content_vars, account_vars, planned, merge_vars, at, owner_vars,
                   calls, dumps, failures>>

\* The files of the merge are left behind when stop_merge_ is seen.
MergeInterrupted(w) ==
    /\ work[w].job = "merge"
    /\ stop_merge_
    /\ Do(w, [job |-> "recheck", again |-> FALSE, failed |-> FALSE])
    /\ UNCHANGED <<content_vars, account_vars, tasks, planned, merge_vars, at, owner_vars, bound_vars>>

MergeFails(w) ==
    /\ work[w].job = "merge"
    /\ failures < MaxFailures
    /\ failures' = failures + 1
    /\ Do(w, [job |-> "recheck", again |-> FALSE, failed |-> TRUE])
    /\ UNCHANGED <<content_vars, account_vars, tasks, planned, merge_vars, at, owner_vars,
                   calls, dumps, corrupted>>

MergePublishes(w) ==
    /\ work[w].job = "merge"
    /\ \E p \in Ascending(Unmerged(levels, work[w].levels)) :
         levels' = InsertLevel(Select(levels, p), MergedLevel(work[w].levels))
    /\ Do(w, [job |-> "recount",
              added |-> IF MergedLevel(work[w].levels).index = 0 THEN 1 ELSE 0,
              removed |-> work[w].levels0,
              again |-> merge_check_(levels')])
    /\ UNCHANGED <<rw_level, area_size_, snapshot, written, profiles, account_vars, tasks, planned, merge_vars, at,
                   owner_vars, bound_vars>>

MergeAccounts(w) ==
    /\ work[w].job = "recount"
    /\ levels0_' = levels0_ + work[w].added - work[w].removed
    /\ LET signal == signal_by_levels_change_(levels0_, levels0_')
       IN at' = WakeUsers(signal, at) /\ WakeOwner(signal)
    /\ Do(w, [job |-> "recheck", again |-> work[w].again, failed |-> FALSE])
    /\ UNCHANGED <<content_vars, undumped_size_, tasks, planned, merge_vars, owner, active_,
                   mode_, bound_vars>>

\* Mutant: no second look at the levels.
AgainAsPublished(w) == ~stop_merge_ /\ work[w].again

\* Under merge_tasks_count_lock_, so that a RequestMerge that found a merge
\* in progress is not forgotten.
Again(w) == ~stop_merge_ /\ (work[w].again \/ merge_check_(levels))

MergeAgain(w) ==
    /\ work[w].job = "recheck"
    /\ Again(w)
    /\ IF work[w].failed
       THEN planned' = planned \cup {MergeTask} /\ UNCHANGED tasks
       ELSE tasks' = Append(tasks, MergeTask) /\ UNCHANGED planned
    /\ Do(w, Idle)
    /\ UNCHANGED <<content_vars, account_vars, merge_vars, at, owner_vars, bound_vars>>

MergeEnds(w) ==
    /\ work[w].job = "recheck"
    /\ ~Again(w)
    /\ merge_tasks_count_' = merge_tasks_count_ - 1
    /\ dumping' = IF merge_tasks_count_' = 0 /\ dumping = "waitMerges" THEN "merges" ELSE dumping
    /\ interrupted' = (stop_merge_ /\ merge_check_(levels))
    /\ Do(w, Idle)
    /\ UNCHANGED <<content_vars, account_vars, tasks, planned, stop_merge_, at, owner, active_,
                   mode_, bound_vars>>

WorkerStep(w) ==
    \/ TakeDump(w) \/ DumpFails(w) \/ DumpPublishes(w) \/ DumpAccounts(w) \/ RequestMerge(w)
    \/ TakeMerge(w) \/ MergeInterrupted(w) \/ MergeFails(w) \/ MergePublishes(w) \/ MergeAccounts(w)
    \/ MergeAgain(w) \/ MergeEnds(w)

\* planner_ delivers a task: TaskGoal::deliver gives it to task_runner_.
Deliver ==
    /\ Running
    /\ \E x \in planned :
         /\ planned' = planned \ {x}
         /\ tasks' = Append(tasks, x)
    /\ UNCHANGED <<content_vars, account_vars, work, merge_vars, at, owner_vars, bound_vars>>

-------------------------------------------------------------------------------
(* The owner: activate_object, dump, deactivate_object and wait_object *)

activate_object ==
    /\ owner = "new"
    /\ owner' = "active"
    /\ active_' = TRUE
    /\ UNCHANGED <<content_vars, account_vars, task_vars, merge_vars, at, dumping, mode_, bound_vars>>

deactivate_object ==
    /\ owner = "active"
    /\ dumping = "no"
    /\ owner' = "deactivated"
    /\ exchange_rw_level_i_(rw_level, area_size_)
    /\ UNCHANGED <<written, profiles, undumped_size_, planned, work, merge_vars, at, dumping, active_, mode_,
                   bound_vars>>

\* wait_object up to its call of dump().  No operation begins any more; the
\* unfinished ones are those that wait for room.
wait_object ==
    /\ owner = "deactivated"
    /\ \A u \in Users : at[u] \in {"idle", "waitRoom", "waitBackground"}
    /\ owner' = "waiting"
    /\ active_' = FALSE
    /\ at' = WakeUsers(TRUE, at)
    /\ UNCHANGED <<content_vars, account_vars, task_vars, merge_vars, dumping, mode_, bound_vars>>

\* dump() by the owner, or by wait_object.
dump ==
    /\ dumping = "no"
    /\ \/ owner = "waiting" /\ UNCHANGED dumps
       \/ owner = "active" /\ dumps < MaxDumps /\ dumps' = dumps + 1
    /\ dumping' = "undumped"
    /\ exchange_rw_level_i_(rw_level, area_size_)
    /\ UNCHANGED <<written, profiles, undumped_size_, planned, work, merge_vars, at, owner, active_, mode_,
                   calls, failures, corrupted>>

DumpGoto(from, to) ==
    /\ dumping = from
    /\ dumping' = to
    /\ UNCHANGED <<content_vars, account_vars, task_vars, at, active_, mode_, bound_vars>>

WaitUndumped ==
    /\ undumped_size_ > 0
    /\ DumpGoto("undumped", "waitUndumped")
    /\ UNCHANGED <<merge_vars, owner>>

AllDumped ==
    /\ undumped_size_ = 0
    /\ DumpGoto("undumped", "merges")
    /\ stop_merge_' = TRUE
    /\ UNCHANGED <<merge_tasks_count_, interrupted, owner>>

WaitMerges ==
    /\ merge_tasks_count_ > 0
    /\ DumpGoto("merges", "waitMerges")
    /\ UNCHANGED <<merge_vars, owner>>

MergesStopped ==
    /\ merge_tasks_count_ = 0
    /\ DumpGoto("merges", "no")
    /\ stop_merge_' = FALSE
    /\ owner' = IF owner = "waiting" THEN "drained" ELSE owner
    /\ UNCHANGED <<merge_tasks_count_, interrupted>>

\* The children of the composite are deactivated, waited for and cleared.
Close ==
    /\ owner = "drained"
    /\ \A w \in Workers : work[w] = Idle
    /\ owner' = "closed"
    /\ tasks' = <<>>
    /\ planned' = {}
    /\ UNCHANGED <<content_vars, account_vars, work, merge_vars, at, dumping, active_, mode_, bound_vars>>

DumpStep == dump \/ WaitUndumped \/ AllDumped \/ WaitMerges \/ MergesStopped

Next ==
    \/ \E u \in Users : Call(u) \/ UserStep(u)
    \/ \E r \in Readers : TakeSnapshot(r) \/ EndGet(r)
    \/ \E w \in Workers : WorkerStep(w)
    \/ Deliver
    \/ activate_object \/ deactivate_object \/ wait_object \/ DumpStep \/ Close

Spec == Init /\ [][Next]_vars

\* Threads run, tasks are delivered, and dump() goes on once it has begun.
Fairness ==
    /\ \A u \in Users : WF_vars(UserStep(u))
    /\ \A w \in Workers : WF_vars(WorkerStep(w))
    /\ WF_vars(Deliver)
    /\ WF_vars(dumping # "no" /\ DumpStep)

FairSpec == Spec /\ Fairness

-------------------------------------------------------------------------------
(***************************************************************************)
(* Properties                                                              *)
(***************************************************************************)
\* The map holder always has, for every key, what was written last: exchanges,
\* dumps and merges, each done while others write and merge, change nothing of
\* it (exchange_rw_level_i_, dump_mem_level_, merge_levels_).
LatestWins ==
    Overlay(<<MemLevel(0, rw_level, area_size_)>> \o levels) = written

\* A reader finds what was written last, however long ago it took the map
\* holder and whatever was dumped and merged since, unless the level in memory
\* was exchanged under it (get_profile).
ReadsLatest ==
    \A r \in Readers : snapshot[r].taken
        => (snapshot[r].current => get_profile(r) = written[snapshot[r].key])

\* The levels are in order and no two have the same place, so that the
\* place of the result of a merge, found by its index alone, is the right one.
LevelsOrdered == Ordered(levels)

Pending == ToSet(tasks) \cup planned

Dumping(w, sub_index) == work[w].job = "write" /\ work[w].level.sub_index = sub_index

\* Every level in memory has exactly one task that will dump it, in the queue,
\* in a thread or with the planner after a failure, and no task is for a level
\* that is a file or is gone: the two assertions of dump_mem_level_.  Close
\* drops the tasks of what was saved too late.
EveryLevelDumpedOnce ==
    owner # "closed" =>
        /\ \A x \in Pending \ {MergeTask} : FindLevel(x.sub_index) # 0 /\ ~levels[FindLevel(x.sub_index)].file
        /\ \A i \in DOMAIN levels : ~levels[i].file =>
             Cardinality({n \in DOMAIN tasks : tasks[n] = DumpTask(levels[i].sub_index)})
             + Cardinality(planned \cap {DumpTask(levels[i].sub_index)})
             + Cardinality({w \in Workers : Dumping(w, levels[i].sub_index)}) = 1
        /\ \A w \in Workers : work[w].job = "write"
             => LET i == FindLevel(work[w].level.sub_index)
                IN i # 0 /\ levels[i] = work[w].level

\* What a thread has still to count.
DumpedArea(x) == IF x.job = "account" THEN x.area ELSE 0
Added(x) == IF x.job = "recount" THEN x.added ELSE 0
Removed(x) == IF x.job = "recount" THEN x.removed ELSE 0

\* undumped_size_ is the area of what is in memory, as area_size_ has it, and of
\* what a thread has dumped and not yet subtracted, and so comes back to 0
\* although area_size_ may be more than the contents: the limit of save_profile and the wait of dump() depend on it.
UndumpedCounted ==
    undumped_size_ = area_size_ + MemoryArea(levels) + Total([w \in Workers |-> DumpedArea(work[w])])

\* levels0_ is the number of levels 0, but for the merge that is published and
\* not yet counted.
Levels0Counted ==
    levels0_ + Total([w \in Workers |-> Added(work[w])])
        = Levels0(levels) + Total([w \in Workers |-> Removed(work[w])])

MergeJobs == {"merge", "recount", "recheck"}

\* At most one merge is queued, planned or running, and merge_tasks_count_
\* counts it: two would take the same levels.
OneMerge ==
    /\ merge_tasks_count_ <= 1
    /\ owner # "closed" =>
         merge_tasks_count_ = Cardinality({n \in DOMAIN tasks : tasks[n] = MergeTask})
                              + Cardinality(planned \cap {MergeTask})
                              + Cardinality({w \in Workers : work[w].job \in MergeJobs})

Asks(x) == x.job = "request" \/ (x.job = "account" /\ x.merge)

\* When two files of index 0 exist, a merge is under way or about to be asked
\* for, whatever the order in which threads dump, merge and look at the
\* counter; only dump() may leave them unmerged.
MergeNotForgotten ==
    merge_check_(levels) /\ ~interrupted =>
        \/ merge_tasks_count_ > 0
        \/ \E w \in Workers : Asks(work[w])

\* The two sizes by which writers, dump() and the merges decide what to do are
\* right whenever they are read.
SizesCounted == UndumpedCounted /\ Levels0Counted

MergesCounted == OneMerge /\ MergeNotForgotten

\* What is to be done is in one place, whatever fails and however the threads
\* overtake each other: every level in memory is dumped once, and the merge of
\* two files is neither doubled nor forgotten.
EveryTaskOnce == EveryLevelDumpedOnce /\ MergesCounted

DumpUnderway ==
    \/ \E x \in Pending : x.task = "dump"
    \/ \E w \in Workers : work[w].job = "write" \/ DumpedArea(work[w]) > 0

MergeUnderway == merge_tasks_count_ > 0 \/ \E w \in Workers : Asks(work[w])

\* Who waits was told of everything that happened: a thread that waits for room
\* finds none, on a map that is active, and dump() waits for something.  So the
\* broadcasts that changes do not make are not missed.
NobodyForgotten ==
    /\ \A u \in Users : at[u] = "waitRoom" => Full /\ active_
    /\ dumping = "waitUndumped" => undumped_size_ > 0
    /\ dumping = "waitMerges" => merge_tasks_count_ > 0

\* What they wait for is under way: a dump for every limit of undumped_size_, a
\* dump or a merge for that of levels0_.  It takes two levels 0 to make a merge,
\* so that with a limit of 1 the first of them fills the map for good; so does
\* what dump() has left unmerged, and dump() waits in vain for what is saved
\* after its exchange.
RoomIsMade ==
    owner # "closed" =>
        /\ undumped_size_ >= max_undumped_size_ => DumpUnderway
        /\ levels0_ >= max_levels0_ /\ max_levels0_ > 1 =>
               DumpUnderway \/ MergeUnderway \/ interrupted
        /\ undumped_size_ > 0 => DumpUnderway \/ area_size_ > 0

\* A thread that waits in save_profile, remove_profile or dump() does not wait
\* in vain: nothing that ends its wait has happened yet, and something will.
NobodyWaitsInVain == NobodyForgotten /\ RoomIsMade

\* When dump() stops waiting for undumped_size_, everything written so far is
\* in files: "wait when all records will be dumped".
DumpSaves ==
    [][dumping = "undumped" /\ dumping' = "merges"
        => (\A i \in DOMAIN levels : levels[i].file) /\ Overlay(levels) = written]_vars

\* A save that waits for room gets it, fails or is refused, unless dump() left
\* levels 0 unmerged; the limits are left by dumps and merges, which fail and
\* are tried again.
SaveGetsThrough ==
    \A u \in Users : at[u] \in {"room", "waitRoom"} ~> (at[u] = "idle" \/ interrupted)

\* dump() returns, unless something is saved after its exchange.
DumpReturns ==
    dumping # "no" ~> (dumping = "no" \/ area_size_ > 0 \/ owner = "closed")

\* "set active_ marker for interrupt unfinished operations": once wait_object
\* has reset active_, no operation that waited writes any more.
UnfinishedInterrupted ==
    [][(owner \in {"waiting", "drained", "closed"}) => (written' = written)]_vars

-------------------------------------------------------------------------------
(***************************************************************************)
(* The invariant that the proofs of LevelProfileMapProofs carry from step  *)
(* to step: where the tasks are, and which levels they are for.            *)
(***************************************************************************)
NoTask == [task |-> "none"]
TaskType == {MergeTask} \cup [task : {"dump"}, sub_index : Nat]

WorkType ==
    [job : {"idle", "request"}]
    \cup [job : {"write"}, level : LevelType]
    \cup [job : {"account"}, area : Nat, merge : BOOLEAN]
    \cup [job : {"merge"}, levels : Seq(LevelType), levels0 : Nat]
    \cup [job : {"recount"}, added : Nat, removed : Nat, again : BOOLEAN]
    \cup [job : {"recheck"}, again : BOOLEAN, failed : BOOLEAN]

Types ==
    /\ rw_level \in Maps
    /\ area_size_ \in Int
    /\ profiles \in Nat
    /\ levels \in Seq(LevelType)
    /\ tasks \in Seq(TaskType)
    /\ planned \subseteq TaskType
    /\ work \in [Workers -> WorkType]
    /\ merge_tasks_count_ \in Int

\* The levels 0 come first, the newest before the others, and only they are in
\* memory.
ZeroFirst(ls) ==
    /\ \A i, j \in DOMAIN ls : i < j /\ ls[j].index = 0 =>
           ls[i].index = 0 /\ ls[i].sub_index > ls[j].sub_index
    /\ \A i \in DOMAIN ls : ls[i].file \/ ls[i].index = 0

InMemory(ls, sub_index) == \E i \in DOMAIN ls : ~ls[i].file /\ ls[i].sub_index = sub_index

TaskIn(x) ==
    IF x.job \in MergeJobs THEN MergeTask
    ELSE IF x.job = "write" THEN DumpTask(x.level.sub_index)
    ELSE NoTask

\* What every worker has in hand.
Hands == [w \in Workers |-> TaskIn(work[w])]

\* No task is in two places: queue, planner and hands.
HeldOnce(queue, plan, hands) ==
    /\ \A m, n \in DOMAIN queue : queue[m] = queue[n] => m = n
    /\ \A n \in DOMAIN queue : queue[n] \notin plan /\ \A w \in Workers : queue[n] # hands[w]
    /\ \A w \in Workers : hands[w] \notin plan
    /\ \A v, w \in Workers : hands[v] = hands[w] => v = w \/ hands[w] = NoTask

Underway(queue, plan, hands) ==
    ({queue[n] : n \in DOMAIN queue} \cup plan \cup {hands[w] : w \in Workers}) \ {NoTask}

\* A merge is under way when merge_tasks_count_ says so, and a dump for every
\* level in memory and for nothing else.
Needed(all, count, ls) ==
    /\ count \in {0, 1}
    /\ count = 1 <=> MergeTask \in all
    /\ \A i \in DOMAIN ls : ~ls[i].file => DumpTask(ls[i].sub_index) \in all
    /\ \A x \in all : x.task = "dump" => InMemory(ls, x.sub_index)

Filed(ls, sources) ==
    \A j \in DOMAIN sources : sources[j].index = 0 =>
        \E i \in DOMAIN ls :
            ls[i].file /\ ls[i].index = 0 /\ ls[i].sub_index = sources[j].sub_index

\* What a thread writes is still among the levels, and in memory; the levels 0
\* it merges are still files among the levels.
Current(x, ls) ==
    /\ x.job = "write" => \E i \in DOMAIN ls : ~ls[i].file /\ ls[i] = x.level
    /\ x.job = "merge" => x.levels # <<>> /\ Filed(ls, x.levels)

IndInv ==
    /\ Types /\ ZeroFirst(levels) /\ merge_tasks_count_ <= 1 /\ MergeNotForgotten
    /\ \A w \in Workers : Current(work[w], levels)
    /\ IF owner = "closed" THEN \A w \in Workers : work[w] = Idle
       ELSE /\ HeldOnce(tasks, planned, Hands)
            /\ Needed(Underway(tasks, planned, Hands), merge_tasks_count_, levels)

(***************************************************************************)
(* The invariant about contents, places and sizes.  It is about a map that *)
(* could open every level it had to merge: what is not opened stays in its *)
(* place, below or above the result of the merge.                          *)
(***************************************************************************)
\* What a thread merges is still among the levels, in order and in files, and
\* its result fits in their place.
Mergeable(x, ls) ==
    x.job = "merge" =>
        /\ Ordered(x.levels)
        /\ \A j \in DOMAIN x.levels : x.levels[j].file /\ x.levels[j] \in ToSet(ls)
        /\ \A l \in ToSet(ls) \ ToSet(x.levels) : Apart(l, x.levels)
        /\ x.levels0 = Levels0(x.levels)

\* A file has the area of its contents; what is in memory may have more.
AreasKnown ==
    /\ Area(rw_level) <= area_size_
    /\ \A l \in ToSet(levels) : IF l.file THEN l.area = Area(l.map) ELSE l.area > 0

SnapshotType ==
    {NoSnapshot} \cup [taken : {TRUE}, key : Keys, current : BOOLEAN, older : Nat]

ReadersFind ==
    /\ snapshot \in [Readers -> SnapshotType]
    /\ \A r \in Readers : snapshot[r].taken
         => (snapshot[r].current => snapshot[r].older = Overlay(levels)[snapshot[r].key])

ContentInv ==
    /\ levels0_ \in Int
    /\ LevelsOrdered /\ LatestWins /\ SizesCounted /\ AreasKnown /\ ReadersFind
    /\ \A w \in Workers : Mergeable(work[w], levels)

ContentsKept == corrupted \in Nat /\ (corrupted = 0 => ContentInv)

(***************************************************************************)
(* The invariant about those who wait: whatever ends their wait tells them. *)
(***************************************************************************)
Spots == {"idle", "background", "waitBackground", "room", "waitRoom"}

Told ==
    /\ at \in [Users -> Spots]
    /\ undumped_size_ \in Int /\ levels0_ \in Int
    /\ area_size_ < rwlevel_max_size_
    /\ \A u \in Users : at[u] = "waitRoom" => Full /\ active_
    /\ dumping = "waitUndumped" => undumped_size_ # 0
    /\ dumping = "waitMerges" => merge_tasks_count_ > 0
================================================================================
