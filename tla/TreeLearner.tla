---------------------------- MODULE TreeLearner -----------------------------
(* TreeLearner::LearnContext (src/vanga/src/DTree/TreeLearner.tpp): one train()
   grows the tree by the best change it finds.  It fills its own tree from the
   model, searches EVERY node of it for a feature to branch by, applies the best
   of the changes found and returns a new model.

   The search is that of FeatureSearch.  The numbers its tasks compute (the
   deltas at the minimum of the loss, the gains) are not modelled: a task may
   find any member of Finds.  Gains have the units of deltas.                  *)
EXTENDS DecisionTree, GroupedRows, FeatureSearch

CONSTANTS
    DepthPenalty,   \* DEPTH_PINALTY_STEP
    Threshold,      \* the least delta that makes a branch (0.01)
    StepDepth, CheckDepth, AlphaDivisor,
    InitDelta(_),   \* the delta eval_init_delta_ finds for the rows of a bag
    Finds           \* [delta, retune, free, base, gain]: what a task may find

VARIABLES
    learn,     \* [tree, base, maxId]: cur_tree_, base_pred_, max_tree_id_
    given,     \* [model, bags]: init_base_tree_, init_bags_
    todo,      \* paths of the nodes fetch_nodes_ has still to search
    change,    \* <<>> or the first of the changes found, by delta_gain
    result     \* what the last train() returned

treeVars == <<learn, given, todo, change, result>>
learnerVars == <<searchVars, treeVars>>

Leaf(delta) == [id |-> 0, delta |-> delta, branches |-> <<>>, bags |-> <<>>, gain |-> 0]

Holders == [i \in DOMAIN given.bags |-> FeatureRows(given.bags[i])]

LearnerInit ==
    /\ SearchInit
    /\ learn = [tree |-> Null, base |-> 0, maxId |-> 0]
    /\ given = [model |-> Null, bags |-> <<>>]
    /\ todo = <<>> /\ change = <<>> /\ result = Null

\* Context::create_learner()
CreateLearner(model, bags) ==
    /\ phase' = "train"
    /\ learn' = [tree |-> Null, base |-> 0, maxId |-> 0]
    /\ given' = [model |-> model, bags |-> bags]
    /\ todo' = <<>> /\ change' = <<>> /\ search' = NoSearch /\ result' = Null
    /\ UNCHANGED mode

-----------------------------------------------------------------------------
(* Filling the tree.                                                         *)

\* Mutant: every bag is divided by the rows of the first one.
DivBagsByFirst(bags, feature) ==
    LET parts == [i \in DOMAIN bags |-> DivRows(bags[i], feature, Holders[1])]
    IN  [yes |-> [i \in DOMAIN bags |-> parts[i].yes],
         no |-> [i \in DOMAIN bags |-> parts[i].no]]

\* div_bags_(): every bag is divided by the rows of its own holder.
DivBags(bags, feature) ==
    LET parts == [i \in DOMAIN bags |-> DivRows(bags[i], feature, Holders[i])]
    IN  [yes |-> [i \in DOMAIN bags |-> parts[i].yes],
         no |-> [i \in DOMAIN bags |-> parts[i].no]]

\* fill_learn_tree_(): a null tree, at the root or below it, becomes a node
\* with id 1, and its initial delta, found on a bag that is drawn, becomes the
\* base prediction of every search.
InitialNode(acc, delta, bags) ==
    [tree |-> [Leaf(delta) EXCEPT !.id = 1, !.bags = bags],
     base |-> delta, maxId |-> Max({acc.maxId, 1})]

RECURSIVE Filled(_, _, _, _, _)
Filled(acc, model, path, bags, draw) ==
    IF model = Null THEN InitialNode(acc, InitDelta(bags[draw[path]]), bags)
    ELSE LET t == model[1]
             Branch(a, i) ==
                 LET b == t.branches[i]
                     part == DivBags(bags, b.feature)
                     yes == Filled(a, b.yes, Append(path, <<i, "yes">>), part.yes, draw)
                     no == Filled(yes, b.no, Append(path, <<i, "no">>), part.no, draw)
                 IN  [base |-> no.base, maxId |-> no.maxId,
                      branches |-> Append(a.branches, [feature |-> b.feature,
                                        yes |-> Ref(yes.tree), no |-> Ref(no.tree)])]
             all == FoldLeft(Branch, [base |-> acc.base, maxId |-> acc.maxId, branches |-> <<>>],
                             [i \in DOMAIN t.branches |-> i])
         IN  [tree |-> [id |-> t.id, delta |-> t.delta, branches |-> all.branches,
                        bags |-> bags, gain |-> 0],
              base |-> all.base, maxId |-> Max({all.maxId, t.id})]

\* train() up to the search: the tree is filled by the first call only.
Train ==
    /\ phase = "train"
    /\ \E draw \in [NullPaths(given.model, <<>>) -> DOMAIN given.bags] :
           learn' = IF learn.tree /= Null THEN learn
                    ELSE LET f == Filled([base |-> learn.base, maxId |-> learn.maxId],
                                         given.model, <<>>, given.bags, draw)
                         IN  [tree |-> Ref(f.tree), base |-> f.base, maxId |-> f.maxId]
    /\ todo' = PostOrder(learn'.tree[1], <<>>)
    /\ change' = <<>>
    /\ phase' = "nodes"
    /\ UNCHANGED <<mode, given, search, result>>

-----------------------------------------------------------------------------
(* The search of one node.                                                   *)

Node == NodeAt(learn.tree[1], Head(todo))

\* Without a task runner the task sees the node's branches and may change their
\* deltas; the parameters of the queued tasks leave cur_tree null.
SearchedTree == IF mode.threaded THEN Null ELSE Ref(Node)

\* get_best_feature_() draws a bag.  Without rows in it, or without depth, the
\* node keeps its null result, which is no change.
BeginSearch ==
    /\ phase = "nodes"
    /\ todo /= <<>>
    /\ \E i \in DOMAIN Node.bags :
           IF StepDepth = 0 \/ CheckDepth = 0 \/ Node.bags[i] = <<>>
           THEN /\ todo' = Tail(todo)
                /\ UNCHANGED <<phase, search>>
           ELSE Begin(DOMAIN Holders[i]) /\ UNCHANGED todo
    /\ UNCHANGED <<mode, learn, given, change, result>>

\* The features a task optimises: its own and those of the node's branches.
Optimised(feature, node, find) ==
    LET branches == IF node = Null THEN <<>> ELSE node[1].branches
        Old(b) == [feature |-> b.feature, delta |-> find.retune]
        Less(a, b) == a.feature < b.feature
    IN  SortSeq(<<[feature |-> feature, delta |-> find.delta]>> \o Map(Old, branches), Less)

\* Mutant: the delta that goes with no feature is left out.
NewTreeWithoutFree(feature, node, find) ==
    LET Branch(t, f) ==
            IF Abs(f.delta) < Threshold THEN t
            ELSE AddBranch(t, [feature |-> f.feature, yes |-> Ref(Leaf(f.delta)),
                               no |-> Ref(Leaf(-f.delta))])
    IN  FoldLeft(Branch, [Leaf(0) EXCEPT !.gain = find.base],
                 Optimised(feature, node, find))

\* The tree that eval_feature_gain_() makes of the deltas it has found.
NewTree(feature, node, find) ==
    LET Branch(t, f) ==
            IF Abs(f.delta) < Threshold THEN t
            ELSE AddBranch(t, [feature |-> f.feature, yes |-> Ref(Leaf(f.delta)),
                               no |-> Ref(Leaf(-f.delta))])
    IN  FoldLeft(Branch, [Leaf(find.free) EXCEPT !.gain = find.base],
                 Optimised(feature, node, find))

\* eval_feature_gain_on_bags_(): the bag drawn may lack the feature; with one
\* bag the gain is that of the bag the deltas were found on.
Outcomes(feature) ==
    {[gain |-> find.gain, tree |-> Ref(NewTree(feature, SearchedTree, find))] :
        find \in {x \in Finds : /\ \E i \in DOMAIN given.bags : feature \in DOMAIN Holders[i]
                               /\ Len(given.bags) = 1 => x.gain = x.base}}
    \cup {[gain |-> 0, tree |-> Null] :
             i \in {j \in DOMAIN given.bags : feature \notin DOMAIN Holders[j]}}

MakeTask == (\E f \in search.rest : Make(f, Outcomes(f))) /\ UNCHANGED treeVars
ExecuteTask == (\E f \in search.queued : Execute(f, Outcomes(f))) /\ UNCHANGED treeVars

\* Mutant: the search goes on with what was found when the last task was made.
WaitForNothing ==
    /\ phase = "make" /\ search.rest = {}
    /\ phase' = "choose"
    /\ UNCHANGED <<mode, search, treeVars>>

WaitForTasks == (Wait \/ WakeUp) /\ UNCHANGED treeVars

\* get_result() draws one of the best; fetch_nodes_() keeps the node's change
\* if it gains after the penalty for its depth.  The multimap of changes gives
\* the first of those with the least delta_gain.
Better(found) ==
    /\ found.gain < -Eps
    /\ change = <<>> \/ found.gain < change[1].gain

Drawn == IF search.chosen = {} THEN {Null} ELSE {c.tree : c \in search.chosen}

Choose ==
    /\ Finish
    /\ \E t \in Drawn :
           LET found == [gain |-> t[1].gain + DepthPenalty * Len(Head(todo)),
                         path |-> Head(todo), tree |-> t[1]]
           IN  change' = IF t /= Null /\ Better(found) THEN <<found>> ELSE change
    /\ todo' = Tail(todo)
    /\ UNCHANGED <<learn, given, result>>

-----------------------------------------------------------------------------
(* Applying the change.                                                      *)

\* Mutant: the delta of the node is replaced.
ChangedForgets(node, new) ==
    FoldLeft(AddBranch,
             [node EXCEPT !.id = new.id, !.gain = new.gain, !.delta = new.delta,
                          !.bags = new.bags],
             new.branches)

\* The node takes the id, the gain, the branches and the (empty) bags of the
\* new tree and adds its delta.
Changed(node, new) ==
    FoldLeft(AddBranch,
             [node EXCEPT !.id = new.id, !.gain = new.gain, !.delta = @ + new.delta,
                          !.bags = new.bags],
             new.branches)

\* Mutant: the ids start anew.
RenumberedAnew(t) == Numbered(Scaled(t, AlphaDivisor), 0)

\* The tree of a change, scaled, under ids the tree does not have yet.
Renumbered(t) == Numbered(Scaled(t, AlphaDivisor), learn.maxId)

Apply ==
    /\ phase = "nodes"
    /\ todo = <<>>
    /\ IF change = <<>> THEN UNCHANGED learn
       ELSE LET old == NodeAt(learn.tree[1], change[1].path)
                new == Renumbered(change[1].tree)
            IN  learn' = [tree |-> Ref(PutAt(learn.tree[1], change[1].path,
                                             Changed(old, new.tree))),
                          base |-> 0, maxId |-> new.last]
    /\ result' = Ref(Released(learn'.tree[1]))
    /\ phase' = "done"
    /\ UNCHANGED <<mode, given, todo, change, search>>

-----------------------------------------------------------------------------
(* What the learner promises.                                                *)

\* The bags at a node about to be searched are the rows of the learner's bags
\* that follow the node's path, in the order the set algorithms need, under
\* labels that carry the prediction of the tree being searched.
RowsFollow(t, path, i) ==
    ToSet(Labelled(NodeAt(t, path).bags[i])) =
        {c \in ToSet(Labelled(given.bags[i])) : Follows(t, path, c.row.features)}

BagsFollowTree ==
    phase = "nodes" /\ todo /= <<>> =>
        /\ Len(Node.bags) = Len(given.bags)
        /\ \A i \in DOMAIN given.bags :
               /\ InOrder(Node.bags[i])
               /\ RowsFollow(learn.tree[1], Head(todo), i)

-----------------------------------------------------------------------------
(* Three ways to the prediction of a tree just found, which must agree: the
   sum of deltas by the mask of a row (eval_feature_gain_), the tables a bag is
   divided into (div_by_tree_), and the tree itself.                           *)

\* The features whose tables the merge by label and address finds the row in.
MaskOf(c, features, featureRows) ==
    {k \in DOMAIN features :
        /\ features[k].feature \in DOMAIN featureRows
        /\ \E g \in ToSet(featureRows[features[k].feature]) :
               g.label = c.label /\ c.row \in ToSet(g.rows)}

ScoreOf(c, features, featureRows) ==
    Sum([k \in DOMAIN features |-> IF k \in MaskOf(c, features, featureRows)
                                   THEN features[k].delta ELSE -features[k].delta])

RECURSIVE DivByTree(_, _, _)
DivByTree(svms, t, featureRows) ==
    LET raised == [i \in DOMAIN svms |-> [svms[i] EXCEPT !.delta = @ + t.delta]]
        Part(s, b, side) ==
            [s EXCEPT !.svm = DivRows(@, b.feature, featureRows)[side]]
        Under(r, s) == IF r = Null THEN s ELSE DivByTree(s, r[1], featureRows)
        Split(acc, b) ==
            LET yes == IF b.feature \notin DOMAIN featureRows THEN <<>>
                       ELSE [i \in DOMAIN acc |-> Part(acc[i], b, "yes")]
                no == [i \in DOMAIN acc |-> Part(acc[i], b, "no")]
            IN  Under(b.yes, yes) \o Under(b.no, no)
    IN  FoldLeft(Split, raised, t.branches)

ScoreAgrees(bag, holder, feature, node, find) ==
    LET features == Optimised(feature, node, find)
        t == NewTree(feature, node, find)
    IN  \A c \in ToSet(Labelled(bag)) :
            Abs(find.free + ScoreOf(c, features, holder) - Predict(t, c.row.features))
                <= (Threshold - 1) * Len(features)

DivisionAgrees(bag, holder, t) ==
    LET parts == DivByTree(<<[svm |-> bag, delta |-> 0]>>, t, holder)
    IN  /\ ToSet(FlattenSeq([i \in DOMAIN parts |-> Labelled(parts[i].svm)])) =
               ToSet(Labelled(bag))
        /\ Sum([i \in DOMAIN parts |-> Size(parts[i].svm)]) = Size(bag)
        /\ \A i \in DOMAIN parts : \A r \in RowsOf(parts[i].svm) :
               parts[i].delta = Predict(t, r.features)

\* What a task measures is what the tree it returns will predict.
ScoredAsPredicted ==
    phase = "nodes" /\ todo /= <<>> =>
        \A i \in DOMAIN Node.bags : \A f \in DOMAIN Holders[i] :
            \A find \in Finds : \A node \in {Null, Ref(Node)} :
                /\ ScoreAgrees(Node.bags[i], Holders[i], f, node, find)
                /\ DivisionAgrees(Node.bags[i], Holders[i], NewTree(f, node, find))
=============================================================================
