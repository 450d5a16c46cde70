------------------------------ MODULE Trainer -------------------------------
(* DTreeTrainer (src/vanga/src/DTreeTrainer/Application.cpp) over the life of a
   model file: "train-trees" loads the file if it is there, trains some steps
   and writes the file anew; "filter" prunes the model by the cover of its
   nodes.  Each step divides the training rows into bags, labels them with the
   predictions of the model, lets a TreeLearner make one change and evaluates
   the result.  The file is truncated when it is opened and every line of it is
   flushed (std::endl), so a process that dies while it saves leaves the lines
   it has written.                                                            *)
EXTENDS TreeLearner

CONSTANTS
    TrainRows,     \* the training set: a table with predictions 0
    TestRows,      \* the first test set
    Divisions,     \* the draws of portions_div: row address -> portion; <<>>: no bags
    Noise,         \* what the annealer may take from a prediction
    HugeLoss,      \* the loss the best model starts with (1000000.0)
    MinCovers,     \* the "min-cover" of filter, in rows of the training set
    TrainPruned,   \* whether a model with null subtrees is trained again
    MaxSteps       \* bound: steps (and filters) in the life of the model

VARIABLES
    at,        \* idle, bags, step, save
    left,      \* steps the session has still to make
    spent,     \* steps made in all sessions
    cur,       \* cur_dtree
    best,      \* [tree, loss]: best_dtree, best_test0_logloss
    file,      \* <<>> or <<lines>>: the model file
    unsaved,   \* the lines still to be written
    saved      \* history: the model last saved
trainerVars == <<at, left, spent, cur, best, file, unsaved, saved>>
vars == <<learnerVars, trainerVars>>

PredictRef(r, features) == IF r = Null THEN 0 ELSE Predict(r[1], features)

\* A loss that tells models apart, in place of the log loss: the distance of
\* the predictions from the labels.
Target(label) == IF label.value THEN HugeLoss \div 100 ELSE -(HugeLoss \div 100)

Loss(r, svm) ==
    LET cells == Labelled(svm)
        Of(c) == Abs(Target(c.label) - c.label.pred - PredictRef(r, c.row.features))
    IN  Sum(Map(Of, cells))

TrainerInit ==
    /\ LearnerInit
    /\ at = "idle" /\ left = 0 /\ spent = 0
    /\ cur = Null /\ best = [tree |-> Null, loss |-> HugeLoss]
    /\ file = <<>> /\ unsaved = <<>> /\ saved = Null

-----------------------------------------------------------------------------

\* A file that cannot be resolved stops the command with an exception.
Model == IF file = <<>> THEN Null ELSE Ref(Load(file[1]))
Readable == file /= <<>> => Resolves(file[1]) /\ IsTree(file[1])

StartTraining ==
    /\ at = "idle"
    /\ Readable
    /\ ~TrainPruned /\ file /= <<>> => NullPaths(Model, <<>>) = {}
    /\ \E n \in 1..(MaxSteps - spent) : left' = n
    /\ cur' = Model
    /\ best' = [tree |-> Model, loss |-> HugeLoss]
    /\ at' = "bags"
    /\ UNCHANGED <<learnerVars, spent, file, unsaved, saved>>

\* init_bags_() and prepare_bags_(): with an annealer a row's prediction is
\* moved against its label by what is drawn for it.
AddPrediction(c) == [c EXCEPT !.label.pred = @ + PredictRef(cur, c.row.features)]
Against(c, noise) == [c EXCEPT !.label.pred = @ + (IF c.label.value THEN -noise ELSE noise)]

Bags(drawn) ==
    IF drawn = <<>> THEN <<TrainRows>>
    ELSE PortionsDiv(TrainRows, Max(Range(drawn)), drawn)

Prepared(bags, noise) ==
    LET Annealed(c) == Against(c, noise[c.row.at])
        Predicted(svm) == CopyPred(Map(AddPrediction, Labelled(svm)))
    IN  [i \in DOMAIN bags |-> CopyPred(Map(Annealed, Labelled(Predicted(bags[i]))))]

PrepareBags ==
    /\ at = "bags"
    /\ \E drawn \in Divisions, noise \in Noise :
           CreateLearner(cur, Prepared(Bags(drawn), noise))
    /\ at' = "step"
    /\ UNCHANGED <<left, spent, cur, best, file, unsaved, saved>>

\* The file is opened, which empties it, and the model's lines are to come.
Opened(model) == file' = Ref(<<>>) /\ unsaved' = Save(model[1]) /\ saved' = model

BestOf(old, made) ==
    IF Loss(made, TestRows) < old.loss THEN [tree |-> made, loss |-> Loss(made, TestRows)]
    ELSE old

\* The rest of train_on_bags_() and of the step.  The step's model is kept if
\* the loss of the model BEFORE it is less than the one a best starts with; the
\* session's best is the step with the least loss on the first test set.
StepDone ==
    /\ at = "step"
    /\ phase = "done"
    /\ cur' = IF Loss(cur, TestRows) < HugeLoss THEN result ELSE Null
    /\ best' = BestOf(best, cur')
    /\ left' = left - 1
    /\ spent' = spent + 1
    /\ phase' = "none"
    /\ learn' = [tree |-> Null, base |-> 0, maxId |-> 0]
    /\ given' = [model |-> Null, bags |-> <<>>]
    /\ change' = <<>> /\ result' = Null
    /\ IF left > 1
       THEN at' = "bags" /\ UNCHANGED <<file, unsaved, saved>>
       ELSE at' = "save" /\ Opened(cur')
    /\ UNCHANGED <<mode, todo, search>>

\* DTree::filter(): a node whose rows are fewer than the cover becomes null.
RECURSIVE Filtered(_, _, _)
Filtered(r, svm, least) ==
    LET Branch(b) == [b EXCEPT !.yes = Filtered(@, ByFeature(svm, b.feature, TRUE), least),
                               !.no = Filtered(@, ByFeature(svm, b.feature, FALSE), least)]
    IN  IF r = Null \/ Size(svm) < least THEN Null
        ELSE Ref([r[1] EXCEPT !.branches = Map(Branch, @)])

Filter ==
    /\ at = "idle"
    /\ file /= <<>> /\ Readable
    /\ spent < MaxSteps
    /\ \E least \in MinCovers :
           /\ Filtered(Model, TrainRows, least) /= Null
           /\ Opened(Filtered(Model, TrainRows, least))
    /\ at' = "save"
    /\ spent' = spent + 1
    /\ UNCHANGED <<learnerVars, left, cur, best>>

SaveLine ==
    /\ at = "save"
    /\ file' = Ref(Append(file[1], Head(unsaved)))
    /\ unsaved' = Tail(unsaved)
    /\ at' = IF unsaved' = <<>> THEN "idle" ELSE "save"
    /\ UNCHANGED <<learnerVars, left, spent, cur, best, saved>>

\* The process dies while it saves.
Crash ==
    /\ at = "save"
    /\ at' = "idle"
    /\ unsaved' = <<>>
    /\ UNCHANGED <<learnerVars, left, spent, cur, best, file, saved>>

TaskStep == ExecuteTask /\ UNCHANGED trainerVars
LearnerStep ==
    /\ Train \/ BeginSearch \/ MakeTask \/ WaitForTasks \/ Choose \/ Apply
    /\ UNCHANGED trainerVars

MainStep == PrepareBags \/ LearnerStep \/ StepDone \/ SaveLine

Next == StartTraining \/ Filter \/ Crash \/ MainStep \/ TaskStep

\* The scheduler runs the program's threads; nobody has to start a command, and
\* nothing has to crash.  This is weak fairness of MainStep and of TaskStep,
\* with the two conditions that enable them written out.
MainCanStep ==
    \/ at \in {"bags", "save"}
    \/ at = "step" /\ (phase = "blocked" => search.woken)

TaskCanStep == mode.threaded /\ search.queued /= {}

Fairness ==
    /\ <>[]MainCanStep => []<><<MainStep>>_vars
    /\ <>[]TaskCanStep => []<><<TaskStep>>_vars

Spec == TrainerInit /\ [][Next]_vars /\ Fairness

-----------------------------------------------------------------------------

\* The labels of the bags carry the prediction of the tree being searched, so
\* that deltas are searched for on top of it: a label's prediction and the base
\* prediction make the prediction of the learner's tree for the row, but for
\* what the annealer took.
SearchedOnTop ==
    phase = "nodes" /\ todo /= <<>> /\ change = <<>> =>
        \A i \in DOMAIN given.bags : \A c \in ToSet(Labelled(given.bags[i])) :
            c.label.pred + learn.base - Predict(learn.tree[1], c.row.features)
                \in {0} \cup UNION {{n[a], -n[a]} : n \in Noise, a \in {c.row.at}}

\* A search looks at the rows of its node, on top of the model.
SearchesOnModel == BagsFollowTree /\ SearchedOnTop

\* A change adds its own predictions, divided by alpha, for the rows of its
\* node and leaves the predictions of all others; releasing the tree with the
\* means moved upwards changes no prediction.
AllRows == RowsOf(TrainRows) \cup RowsOf(TestRows)

AddsUp(before, after, made) ==
    \A r \in AllRows :
        Predict(after, r.features) - Predict(before, r.features) =
            IF Follows(before, made.path, r.features)
            THEN Predict(Scaled(made.tree, AlphaDivisor), r.features) ELSE 0

PredictionsAdd ==
    [][phase = "nodes" /\ phase' = "done" =>
          /\ change /= <<>> => AddsUp(learn.tree[1], learn'.tree[1], change[1])
          /\ \A r \in AllRows :
                 Predict(result'[1], r.features) = Predict(learn'.tree[1], r.features)]_vars

\* A model file that is whole is read as the model that was saved, its deltas
\* rounded; one whose saving was cut short is refused.
ModelsLoadBack ==
    file /= <<>> =>
        IF Len(file[1]) = NodeCount(saved[1])
        THEN Readable /\ Load(file[1]) = RoundedTree(saved[1])
        ELSE ~Resolves(file[1])

\* What the tasks of a search may find, for a node with any branches.
AllFeatures == UNION {c.row.features : c \in ToSet(Labelled(TrainRows))}

BranchesBy(features) == [branches |-> [k \in DOMAIN features |-> [feature |-> features[k]]]]

Nodes == {Null} \cup {Ref(BranchesBy(s)) : s \in UNION {[1..n -> AllFeatures] : n \in 0..Cardinality(AllFeatures)}}

AllOutcomes ==
    {[gain |-> 0, tree |-> Null]}
    \cup {[gain |-> find.gain, tree |-> Ref(NewTree(f, node, find))] :
             f \in AllFeatures, node \in Nodes, find \in Finds}

\* Whatever the trainer does, searches are made one after the other and by
\* FeatureSearch alone: none is begun before the last one has ended and lost its
\* result, no task is made, run or waited for outside of one, and a crash, a new
\* session or a filter finds none under way.
ImplementsSearch == SearchInit /\ [][SearchNext(AllFeatures, AllOutcomes)]_searchVars

\* A session that was started ends.
TrainingEnds == (at = "bags") ~> (at = "idle")
=============================================================================
