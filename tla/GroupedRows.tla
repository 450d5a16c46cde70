---------------------------- MODULE GroupedRows -----------------------------
(* SVM<PredictedBoolLabel> (src/vanga/src/DTree/SVM.tpp): a table of rows,
   grouped by label.  A row is [at, features]: the address of the Row object,
   by which rows are sorted and compared, and the set of its features.  A label
   is [value, pred].  A table is a sequence of [label, rows].                 *)
EXTENDS Integers, Sequences, FiniteSets, SequencesExt

LabelLess(a, b) ==
    IF ~a.value THEN b.value \/ a.pred < b.pred
    ELSE b.value /\ a.pred < b.pred

ByAddress(a, b) == a.at < b.at

\* add_row(): std::lower_bound over the groups; the row goes to the end.
AddRow(svm, row, label) ==
    LET notLess == {i \in DOMAIN svm : ~LabelLess(svm[i].label, label)}
        pos == IF notLess = {} THEN Len(svm) + 1 ELSE Min(notLess)
    IN  IF pos > Len(svm) \/ LabelLess(label, svm[pos].label)
        THEN InsertAt(svm, pos, [label |-> label, rows |-> <<row>>])
        ELSE [svm EXCEPT ![pos].rows = Append(@, row)]

SortedGroups(svm) == [i \in DOMAIN svm |-> [svm[i] EXCEPT !.rows = SortSeq(@, ByAddress)]]

\* The rows of a table with their labels, in the order of its loops.
Labelled(svm) ==
    LET OfGroup(g) == [i \in DOMAIN g.rows |-> [row |-> g.rows[i], label |-> g.label]]
    IN  FlattenSeq([i \in DOMAIN svm |-> OfGroup(svm[i])])

Gathered(cells) == FoldLeft(LAMBDA svm, c : AddRow(svm, c.row, c.label), <<>>, cells)

RowsOf(svm) == {c.row : c \in ToSet(Labelled(svm))}

Size(svm) == Len(Labelled(svm))

\* copy_pred(): the rows under the labels the adapter has given them.
CopyPred(adapted) == SortedGroups(Gathered(adapted))

\* by_feature(): the rows with the feature, or those without.
ByFeature(svm, feature, yes) ==
    SortedGroups(Gathered(SelectSeq(Labelled(svm), LAMBDA c : (feature \in c.row.features) = yes)))

\* portions_div(): every row goes to the portion drawn for it; not sorted again.
PortionsDiv(svm, number, drawn) ==
    [p \in 1..number |-> Gathered(SelectSeq(Labelled(svm), LAMBDA c : drawn[c.row.at] = p))]

\* cross(): the walk over both tables by label; a group of the left table is
\* split by the group of the same label of the right one, and no group that is
\* left empty is kept.
Cross(left, right) ==
    LET Same(g) == UNION {ToSet(h.rows) : h \in {k \in ToSet(right) : k.label = g.label}}
        Part(g, in) == [g EXCEPT !.rows = SelectSeq(@, LAMBDA r : (r \in Same(g)) = in)]
        Parts(in) == SelectSeq([i \in DOMAIN left |-> Part(left[i], in)],
                               LAMBDA g : g.rows /= <<>>)
    IN  [yes |-> Parts(TRUE), no |-> Parts(FALSE)]

-----------------------------------------------------------------------------
(* fill_feature_rows() of the learner: for every feature of a bag the table of
   the rows that have it.                                                     *)

FeaturesIn(svm) == UNION {r.features : r \in RowsOf(svm)}

FeatureRows(svm) ==
    [f \in FeaturesIn(svm) |->
        Gathered(SelectSeq(Labelled(svm), LAMBDA c : f \in c.row.features))]

\* div_rows_(): a feature the whole bag lacks leaves every row on the no side.
DivRows(svm, feature, featureRows) ==
    IF feature \in DOMAIN featureRows THEN Cross(svm, featureRows[feature])
    ELSE [yes |-> <<>>, no |-> svm]

\* What the set algorithms of the standard library need of a table.
InOrder(svm) ==
    /\ \A i \in 1..(Len(svm) - 1) : LabelLess(svm[i].label, svm[i + 1].label)
    /\ \A i \in DOMAIN svm :
           /\ svm[i].rows /= <<>>
           /\ \A j \in 1..(Len(svm[i].rows) - 1) : svm[i].rows[j].at < svm[i].rows[j + 1].at
=============================================================================
