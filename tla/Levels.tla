--------------------------------- MODULE Levels ---------------------------------
(***************************************************************************)
(* The contents of a LevelProfileMap: levels, what a reader finds in them, *)
(* their order, and which of them a merge takes and what it makes of them. *)
(*                                                                         *)
(* A level has for every key a profile, a tombstone (PO_ERASE) or nothing  *)
(* (PO_NOT_FOUND).  The map saves with PO_REWRITE only, so PO_INSERT,      *)
(* which older files may hold, is left out; so is expiry: expire_time is 0.*)
(***************************************************************************)
EXTENDS Integers, FiniteSets, Sequences, SequencesExt

CONSTANTS
    Keys,
    MaxCalls,           \* bound: the n-th call that saves writes profile n + 2
    rwlevel_max_size_   \* area at which the level in memory is exchanged

ASSUME LevelsAssumption == IsFiniteSet(Keys) /\ rwlevel_max_size_ \in Nat \ {0}

NOT_FOUND == 0
ERASE == 1
Profiles == 2 .. MaxCalls + 2
Entries == {NOT_FOUND, ERASE} \cup Profiles

\* What a level has for every key; later calls write greater numbers.
Maps == [Keys -> Nat]

\* A tombstone is smaller than a profile, and both are bigger than nothing.
Size(entry) == IF entry \in Profiles THEN 2 ELSE entry

Empty == [k \in Keys |-> NOT_FOUND]

\* The sum of numbers: how many units there are, each of one of them.
Units(f) == UNION {{x} \X (1 .. f[x]) : x \in DOMAIN f}
Total(f) == Cardinality(Units(f))

\* The sum of the sizes.
Area(map) == Total([k \in Keys |-> Size(map[k])])

\* full_index_file_name is empty while the level is in memory.  The level in
\* memory brings its area with it, a file has the area of its contents.  What
\* uniq_index a file has in its name is told by FileLevels.
MemLevel(sub_index, map, area) ==
    [index |-> 0, sub_index |-> sub_index, uniq_index |-> 0, map |-> map, area |-> area, file |-> FALSE]

FileLevel(index, sub_index, map) ==
    [index |-> index, sub_index |-> sub_index, uniq_index |-> 0, map |-> map, area |-> Area(map),
     file |-> TRUE]

LevelType ==
    [index : Nat, sub_index : Nat, uniq_index : Nat, map : Maps, area : Nat, file : BOOLEAN]

Less(left, right) ==
    \/ left.index < right.index
    \/ left.index = right.index /\ left.sub_index > right.sub_index

Ordered(levels) == \A i, j \in DOMAIN levels : i < j => Less(levels[i], levels[j])

SameCell(left, right) == ~Less(left, right) /\ ~Less(right, left)

AreaOf(levels) == Total([i \in DOMAIN levels |-> levels[i].area])

\* get_profile asks the levels in order; the merge iterators keep, of the
\* entries of one key, the one of the level that comes first.
Overlay(levels) ==
    [k \in Keys |->
        LET i == SelectInSeq(levels, LAMBDA l : l.map[k] # NOT_FOUND)
        IN IF i = 0 THEN NOT_FOUND ELSE levels[i].map[k]]

\* The area of the levels in memory.
MemoryArea(levels) == Total([i \in DOMAIN levels |-> IF levels[i].file THEN 0 ELSE levels[i].area])

Levels0(levels) == Cardinality({i \in DOMAIN levels : levels[i].index = 0})

\* Two dumped levels 0, before the first level with another index.
merge_check_(levels) ==
    \E i, j \in DOMAIN levels :
        /\ i < j
        /\ levels[i].file /\ levels[j].file
        /\ \A k \in 1 .. j : levels[k].index = 0

\* lower_bound: before the first level that is not less.
InsertLevel(levels, l) ==
    InsertAt(levels, 1 + Cardinality({i \in DOMAIN levels : Less(levels[i], l)}), l)

\* The list of some places from first to last, and what is there.
Ascending(places) ==
    {p \in [1 .. Cardinality(places) -> places] : \A i, j \in DOMAIN p : i < j => p[i] < p[j]}

Select(levels, p) == [i \in DOMAIN p |-> levels[p[i]]]

\* Mutant: goes on over the levels in memory.
MergeLevelsOverMemory(levels) == SelectSeq(levels, LAMBDA l : l.file)

\* The files after the last level in memory, up to a gap that the result of
\* the merge fits in.
MergeLevels(levels) ==
    LET first == 1 + SelectLastInSeq(levels, LAMBDA l : ~l.file)
        last_index(i) == IF i = first THEN 0 ELSE levels[i - 1].index
        Gap(i) == /\ levels[i].index \notin {last_index(i), last_index(i) + 1}
                  /\ AreaOf(SubSeq(levels, first, i - 1))
                        < rwlevel_max_size_ * 2 ^ (levels[i].index - 1)
        gaps == {i \in first .. Len(levels) : Gap(i)}
    IN SubSeq(levels, first, IF gaps = {} THEN Len(levels) ELSE Min(gaps) - 1)

\* The smallest index whose cell has room for the area: one for every doubling
\* that is not enough.
FitIndex(area) == Cardinality({i \in 0 .. area : rwlevel_max_size_ * 2 ^ i < area})

\* The level that replaces merged ones.
MergedLevel(merged) ==
    LET map == Overlay(merged)
        index == FitIndex(Area(map))
    IN IF index <= Head(merged).index
       THEN FileLevel(Head(merged).index, Head(merged).sub_index, map)
       ELSE FileLevel(index, 0, map)

\* A level that is not merged comes before the merged levels and before what is
\* made of them, or after both.
Apart(l, merged) ==
    \/ Less(l, MergedLevel(merged)) /\ \A j \in DOMAIN merged : Less(l, merged[j])
    \/ Less(MergedLevel(merged), l) /\ \A j \in DOMAIN merged : Less(merged[j], l)

\* Where levels has what a merge does not replace.
Unmerged(levels, merged) ==
    {i \in DOMAIN levels : \A j \in DOMAIN merged : ~SameCell(levels[i], merged[j])}
================================================================================
