---------------------------- MODULE DecisionTree ----------------------------
(* The decision trees of vanga: DTree (DTree.hpp, DTree.tpp, DTree.cpp) and the
   holder the learner grows, TreeLearner::LearnTreeHolder (TreeLearner.tpp).

   A tree is [id, delta, branches]; its prediction for a set of features is its
   delta plus, FOR EVERY branch, the prediction of the branch's yes or no tree.
   A subtree is <<>> (a null pointer) or <<tree>>.  A learner's tree has the
   fields bags and gain too.  A node is named by its path, a sequence of
   <<branch index, "yes" or "no">>.

   Reals are integers, Grid of them to the last digit that a model file keeps
   (DTree::save writes seven digits).                                        *)
EXTENDS Integers, Sequences, FiniteSets, SequencesExt

CONSTANT Grid

ASSUME GridAssumption == Grid \in Nat \ {0}

Null == <<>>
Ref(t) == <<t>>

Abs(n) == IF n < 0 THEN -n ELSE n

Plus(a, b) == a + b
Sum(s) == FoldLeft(Plus, 0, s)
Map(Op(_), s) == [i \in DOMAIN s |-> Op(s[i])]

-----------------------------------------------------------------------------

RECURSIVE Predict(_, _)
Predict(t, features) ==
    LET Taken(b) == IF b.feature \in features THEN b.yes ELSE b.no
        Of(b) == IF Taken(b) = Null THEN 0 ELSE Predict(Taken(b)[1], features)
    IN  t.delta + Sum(Map(Of, t.branches))

\* Every node of a tree, the parent before its yes and no children.
RECURSIVE PreOrder(_)
PreOrder(t) ==
    LET Under(r) == IF r = Null THEN <<>> ELSE PreOrder(r[1])
        OfBranch(b) == Under(b.yes) \o Under(b.no)
    IN  <<t>> \o FlattenSeq(Map(OfBranch, t.branches))

NodeCount(t) == Len(PreOrder(t))

-----------------------------------------------------------------------------
(* The model file: a line for every node, in the order of PreOrder.          *)

\* Half of the last digit kept goes to the even neighbour, as in a conversion
\* of an exact binary fraction.
Rounded(x) ==
    LET q == x \div Grid
        r == x % Grid
    IN  Grid * (IF 2 * r < Grid \/ (2 * r = Grid /\ q % 2 = 0) THEN q ELSE q + 1)

Save(t) ==
    LET IdOf(r) == IF r = Null THEN 0 ELSE r[1].id
        Cell(b) == [feature |-> b.feature, yes |-> IdOf(b.yes), no |-> IdOf(b.no)]
        Line(n) == [id |-> n.id, delta |-> Rounded(n.delta), branches |-> Map(Cell, n.branches)]
    IN  Map(Line, PreOrder(t))

Ids(lines) == {lines[i].id : i \in DOMAIN lines}

\* The map of the loader keeps the first line of an id.
LineOf(lines, id) == lines[Min({i \in DOMAIN lines : lines[i].id = id})]

ChildIds(line) ==
    UNION {{line.branches[i].yes, line.branches[i].no} : i \in DOMAIN line.branches} \ {0}

\* The loader throws at an id it cannot resolve, and at a file without a root.
Resolves(lines) ==
    /\ lines /= <<>>
    /\ \A id \in Ids(lines) : ChildIds(LineOf(lines, id)) \subseteq Ids(lines)

RECURSIVE NotDeeper(_, _, _)
NotDeeper(lines, id, n) ==
    n > 0 /\ \A c \in ChildIds(LineOf(lines, id)) : NotDeeper(lines, c, n - 1)

\* No node is below itself: a cycle is linked without complaint, and predicting
\* with it never ends.
IsTree(lines) == NotDeeper(lines, Head(lines).id, Len(lines))

RECURSIVE Linked(_, _)
Linked(lines, id) ==
    LET line == LineOf(lines, id)
        Child(c) == IF c = 0 THEN Null ELSE Ref(Linked(lines, c))
        Branch(b) == [feature |-> b.feature, yes |-> Child(b.yes), no |-> Child(b.no)]
    IN  [id |-> id, delta |-> line.delta, branches |-> Map(Branch, line.branches)]

Load(lines) == Linked(lines, Head(lines).id)

RECURSIVE RoundedTree(_)
RoundedTree(t) ==
    LET Child(r) == IF r = Null THEN Null ELSE Ref(RoundedTree(r[1]))
        Branch(b) == [feature |-> b.feature, yes |-> Child(b.yes), no |-> Child(b.no)]
    IN  [id |-> t.id, delta |-> Rounded(t.delta), branches |-> Map(Branch, t.branches)]

-----------------------------------------------------------------------------
(* The trees of the learner.                                                 *)

\* mul() with alpha = 1 / AlphaDivisor.
RECURSIVE Scaled(_, _)
Scaled(t, divisor) ==
    LET Child(r) == IF r = Null THEN Null ELSE Ref(Scaled(r[1], divisor))
        Branch(b) == [b EXCEPT !.yes = Child(@), !.no = Child(@)]
    IN  [t EXCEPT !.delta = @ \div divisor, !.branches = Map(Branch, @)]

\* add_branch(): a branch of a feature the node already has is merged into the
\* first such branch, whose trees keep their ids.
RECURSIVE AddBranch(_, _)
AddBranch(t, branch) ==
    LET same == {i \in DOMAIN t.branches : t.branches[i].feature = branch.feature}
        i == Min(same)
        Merged(old, new) ==
            Ref(FoldLeft(AddBranch, [old[1] EXCEPT !.delta = @ + new[1].delta], new[1].branches))
    IN  IF same = {} THEN [t EXCEPT !.branches = Append(@, branch)]
        ELSE [t EXCEPT !.branches[i].yes = Merged(@, branch.yes),
                       !.branches[i].no = Merged(@, branch.no)]

\* fill_dtree_(): the tree the learner returns; the mean of the deltas of a
\* branch's two trees is moved into their parent.
RECURSIVE Released(_)
Released(t) ==
    LET live == SelectSeq(t.branches, LAMBDA b : b.yes /= Null \/ b.no /= Null)
        yes == [i \in DOMAIN live |-> Released(live[i].yes[1])]
        no == [i \in DOMAIN live |-> Released(live[i].no[1])]
        mean == [i \in DOMAIN live |-> (yes[i].delta + no[i].delta) \div 2]
    IN  [id |-> t.id, delta |-> t.delta + Sum(mean),
         branches |-> [i \in DOMAIN live |->
                           [feature |-> live[i].feature,
                            yes |-> Ref([yes[i] EXCEPT !.delta = @ - mean[i]]),
                            no |-> Ref([no[i] EXCEPT !.delta = @ - mean[i]])]]]

\* adapt_learn_tree_holder_(): new ids in the order of PreOrder.  (The bags it
\* divides on its way down reach no leaf: it gives bags only to a node with a
\* branch that has no trees, and a new tree has none.)
RECURSIVE Numbered(_, _)
Numbered(t, last) ==
    LET Branch(acc, b) ==
            LET yes == Numbered(b.yes[1], acc.last)
                no == Numbered(b.no[1], yes.last)
            IN  [last |-> no.last,
                 branches |-> Append(acc.branches,
                                     [b EXCEPT !.yes = Ref(yes.tree), !.no = Ref(no.tree)])]
        all == FoldLeft(Branch, [last |-> last + 1, branches |-> <<>>], t.branches)
    IN  [tree |-> [t EXCEPT !.id = last + 1, !.branches = all.branches], last |-> all.last]

-----------------------------------------------------------------------------
(* Paths.                                                                    *)

RECURSIVE NodeAt(_, _)
NodeAt(t, path) ==
    IF path = <<>> THEN t ELSE NodeAt(t.branches[path[1][1]][path[1][2]][1], Tail(path))

RECURSIVE PutAt(_, _, _)
PutAt(t, path, node) ==
    IF path = <<>> THEN node
    ELSE LET i == path[1][1]
             side == path[1][2]
         IN  [t EXCEPT !.branches[i][side] = Ref(PutAt(@[1], Tail(path), node))]

\* The paths of all nodes in the order fetch_nodes_ visits them: the yes and
\* the no tree of every branch, then the node.
RECURSIVE PostOrder(_, _)
PostOrder(t, path) ==
    LET Under(i, side) ==
            IF t.branches[i][side] = Null THEN <<>>
            ELSE PostOrder(t.branches[i][side][1], Append(path, <<i, side>>))
    IN  Append(FlattenSeq([i \in DOMAIN t.branches |-> Under(i, "yes") \o Under(i, "no")]), path)

\* The paths of the null subtrees.
RECURSIVE NullPaths(_, _)
NullPaths(r, path) ==
    IF r = Null THEN {path}
    ELSE UNION {NullPaths(r[1].branches[i][side], Append(path, <<i, side>>)) :
                    i \in DOMAIN r[1].branches, side \in {"yes", "no"}}

\* A set of features takes every branch of a path.
Follows(t, path, features) ==
    \A k \in DOMAIN path :
        LET above == NodeAt(t, SubSeq(path, 1, k - 1))
        IN  (above.branches[path[k][1]].feature \in features) <=> (path[k][2] = "yes")
=============================================================================
