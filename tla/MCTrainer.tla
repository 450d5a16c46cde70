----------------------------- MODULE MCTrainer ------------------------------
(* A small training set for Trainer: three rows of two features.              *)
EXTENDS Trainer

Row(a, features) == [at |-> a, features |-> features]
Label(value) == [value |-> value, pred |-> 0]
Table(no, yes) == <<[label |-> Label(FALSE), rows |-> no], [label |-> Label(TRUE), rows |-> yes]>>

MCTrainRows == Table(<<Row(1, {1, 2})>>, <<Row(2, {1}), Row(3, {2})>>)
MCTestRows == Table(<<Row(4, {})>>, <<Row(5, {1}), Row(6, {1, 2})>>)

\* One copy of the rows; two bags, one of which lacks a feature.
MCDivisions == {<<>>, <<2, 1, 2>>}
MCNoise == {<<0, 0, 0>>, <<0, 64, 0>>}

\* The delta of an initial node leans to the label most of its rows have.
MCInitDelta(svm) ==
    LET Side(c) == IF c.label.value THEN 32 ELSE -32
    IN  Sum(Map(Side, Labelled(svm)))

\* A find the next one comes within EPS of, both worth their depth; and one
\* that gains on the bag it was found on, not on the others, and has a delta too
\* small for a branch.
MCFinds == {
    [delta |-> 96, retune |-> 32, free |-> 32, base |-> -48, gain |-> -48],
    [delta |-> -64, retune |-> 0, free |-> 0, base |-> -47, gain |-> -47],
    [delta |-> 3, retune |-> 3, free |-> 64, base |-> -12, gain |-> 1]}
=============================================================================
