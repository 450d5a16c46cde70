---------------------------- MODULE FeatureSearch ----------------------------
(* The search of one node for the feature to branch by: get_best_feature_() and
   its GetBestFeatureResult (src/vanga/src/DTree/TreeLearner.tpp).

   A search makes a task for every feature of a bag.  With a task runner the
   tasks run on its threads while more are being made, and the search waits for
   a counter of tasks; without one each task runs as it is made.  What tasks
   find, and what becomes of it, is up to the module that has the search.      *)
EXTENDS Integers, FiniteSets, FiniteSetsExt

CONSTANTS
    Eps,       \* EPS, in the unit of gains
    Worst      \* the gain no change of an "allow negative" search exceeds

ASSUME SearchAssumption == Eps \in Nat \ {0} /\ Worst \in Nat

VARIABLES
    phase,     \* make, blocked, choose, and others without a search
    mode,      \* [threaded, negative]: with a task runner; allow_negative_gain
    search     \* the GetBestFeatureResult of the search under way

searchVars == <<phase, mode, search>>
SearchPhases == {"make", "blocked", "choose"}

\* Features without a task, those whose task has not ended, tasks_in_progress,
\* best_gain and best_features; a signal of the condition that was not seen yet;
\* history: the features whose task has ended, with the gain.
NoSearch == [rest |-> {}, queued |-> {}, count |-> 0, best |-> 0, chosen |-> {},
             woken |-> FALSE, seen |-> {}]

SearchInit ==
    /\ phase = "none" /\ search = NoSearch
    /\ mode \in [threaded : BOOLEAN, negative : BOOLEAN]

Begin(features) ==
    /\ search' = [NoSearch EXCEPT !.rest = features, !.best = IF mode.negative THEN Worst ELSE -Eps]
    /\ phase' = "make"
    /\ UNCHANGED mode

\* Mutant: a gain that is better does not clear what was best before.
SetKeeps(s, feature, outcome) ==
    LET taken == outcome.gain < s.best + Eps
    IN  [s EXCEPT !.queued = @ \ {feature},
                  !.best = IF taken THEN outcome.gain ELSE @,
                  !.chosen = IF taken THEN @ \cup {outcome} ELSE @,
                  !.count = @ - 1,
                  !.woken = @ \/ (s.count - 1) % 100 = 0,
                  !.seen = @ \cup {<<feature, outcome.gain>>}]

\* Mutant: the condition is signalled by the count before the task is taken off.
SetSignalsEarly(s, feature, outcome) ==
    LET taken == outcome.gain < s.best + Eps
        better == outcome.gain <= s.best - Eps
    IN  [s EXCEPT !.queued = @ \ {feature},
                  !.best = IF taken THEN outcome.gain ELSE @,
                  !.chosen = IF taken THEN (IF better THEN {} ELSE @) \cup {outcome} ELSE @,
                  !.count = @ - 1,
                  !.woken = @ \/ s.count % 100 = 0,
                  !.seen = @ \cup {<<feature, outcome.gain>>}]

\* GetBestFeatureResult::set(); the condition is signalled for 0 and for every
\* hundredth task.
Set(s, feature, outcome) ==
    LET taken == outcome.gain < s.best + Eps
        better == outcome.gain <= s.best - Eps
    IN  [s EXCEPT !.queued = @ \ {feature},
                  !.best = IF taken THEN outcome.gain ELSE @,
                  !.chosen = IF taken THEN (IF better THEN {} ELSE @) \cup {outcome} ELSE @,
                  !.count = @ - 1,
                  !.woken = @ \/ (s.count - 1) % 100 = 0,
                  !.seen = @ \cup {<<feature, outcome.gain>>}]

\* The constructor of a task counts it.
Counted(s, feature) ==
    [s EXCEPT !.rest = @ \ {feature}, !.queued = @ \cup {feature}, !.count = @ + 1]

Make(feature, outcomes) ==
    /\ phase = "make"
    /\ IF mode.threaded
       THEN feature = Min(search.rest) /\ search' = Counted(search, feature)
       ELSE \E outcome \in outcomes : search' = Set(Counted(search, feature), feature, outcome)
    /\ UNCHANGED <<phase, mode>>

\* A thread of the task runner executes a task.
Execute(feature, outcomes) ==
    /\ mode.threaded
    /\ \E outcome \in outcomes : search' = Set(search, feature, outcome)
    /\ UNCHANGED <<phase, mode>>

\* GetBestFeatureResult::wait()
Wait ==
    /\ phase = "make"
    /\ search.rest = {}
    /\ phase' = IF search.count > 0 THEN "blocked" ELSE "choose"
    /\ search' = [search EXCEPT !.woken = FALSE]
    /\ UNCHANGED mode

WakeUp ==
    /\ phase = "blocked"
    /\ search.woken
    /\ phase' = IF search.count > 0 THEN "blocked" ELSE "choose"
    /\ search' = [search EXCEPT !.woken = FALSE]
    /\ UNCHANGED mode

\* The result is destroyed with the search.
Finish ==
    /\ phase = "choose"
    /\ search' = NoSearch /\ phase' = "nodes"
    /\ UNCHANGED mode

\* Whatever is done between searches.
Elsewhere ==
    /\ phase' \notin SearchPhases
    /\ search' = NoSearch \/ (phase \notin SearchPhases /\ UNCHANGED search)
    /\ UNCHANGED mode

\* Searches of any features, one after the other, whose tasks find any outcomes.
SearchNext(Features, Outcomes) ==
    \/ \E features \in SUBSET Features : phase = "nodes" /\ IsFiniteSet(features) /\ Begin(features)
    \/ \E f \in search.rest : Make(f, Outcomes)
    \/ \E f \in search.queued : Execute(f, Outcomes)
    \/ Wait \/ WakeUp \/ Finish \/ Elsewhere

SearchSpec(Features, Outcomes) == SearchInit /\ [][SearchNext(Features, Outcomes)]_searchVars

-----------------------------------------------------------------------------

\* A search ends only when every feature of its bag has been tried, none being
\* left in the task runner, and what it draws from is the least gain seen but
\* for the steps smaller than Eps that set() lets the best drift by; a gain below 0
\* is never passed over.
SearchIsComplete ==
    /\ search.count = Cardinality(search.queued)
    /\ phase = "choose" => search.rest = {} /\ search.queued = {}

Drift(s) == (Eps - 1) * (Cardinality(s.seen) - 1)

SearchIsBest ==
    phase = "choose" =>
        \A x \in search.seen :
            /\ \A c \in search.chosen : c.gain <= x[2] + Drift(search)
            /\ x[2] < 0 => search.chosen /= {}

SearchExact == SearchIsComplete /\ SearchIsBest
=============================================================================
