------------------------------- MODULE FileLevels -------------------------------
(* The files of a LevelProfileMap (ReadFileLevel in ProfileStorage/FileLevel.tpp,
   and what LevelProfileMap.tpp does with its files) through crashes: a level is
   an index and a body, written under temporary names, renamed one after the
   other, and unlinked one after the other when a merge has made them useless.
   The constructor reads the directory and refuses it as a whole if one level
   in it cannot be read.

   Contents are those of Levels.  A file that was not truncated when it was
   written again keeps the tail of what it was: "tail".  Renames are as durable
   as writes, and nothing but the process fails.  No reader holds an old map
   holder, so that a merge unlinks its sources before it ends.                 *)
EXTENDS Levels, TLC

CONSTANTS
    MaxInMemory,   \* bound: levels that were exchanged and are not dumped
    MaxFiles,      \* bound: levels written, of which each has another uniq_index
    MaxFailures,   \* bound: renames that fail
    MaxCrashes     \* bound: crashes

VARIABLES
    state,         \* "up", "down" or "refused"
    levels,        \* the levels of map_holder_; a file has its uniq_index
    index, body,   \* the index and body files with regular names
    mergeFile,     \* the size of merge.index and of merge.data, 0 if there is none
    renaming,      \* names of the dumps whose index has its regular name
    dumped,        \* names of the dumps that have both and are not published
    merge,         \* the merge under way: its sources, and the uniq_index of its result
    \* history: what was written and is in files; names that a crash or an error
    \* left between two renames; whether a crash fell "among" the unlinks of a
    \* merge, and another merge was done "since" then
    saved, torn, cut,
    files, calls, failures, crashes  \* files written, levels exchanged, and so on

process == <<levels, renaming, dumped, merge>>
directory == <<index, body, mergeFile>>
history == <<saved, torn, cut>>
bounds == <<files, calls, failures, crashes>>
vars == <<state, process, directory, history, bounds>>

NoMerge == [step |-> "none", sources |-> <<>>, uniq |-> 0]
NoFiles == [index |-> 0, body |-> 0]

Init ==
    /\ state = "up" /\ levels = <<>> /\ renaming = {} /\ dumped = {} /\ merge = NoMerge
    /\ index = {} /\ body = {} /\ mergeFile = NoFiles
    /\ saved = Empty /\ torn = {} /\ cut = "never"
    /\ files = 0 /\ calls = 0 /\ failures = 0 /\ crashes = 0

-----------------------------------------------------------------------------

\* index_file_name_(), body_file_name_(): the cell, and a random number that no
\* other file is assumed to have.  What both files have together is told with
\* the index.
Name(l, uniq) == [index |-> l.index, sub_index |-> l.sub_index, uniq |-> uniq]
Names(fs) == {f.name : f \in fs}
Index(name, map, tail) == [name |-> name, map |-> map, tail |-> tail]
Body(name, tail) == [name |-> name, tail |-> tail]
InFile(l, uniq) == [FileLevel(l.index, l.sub_index, l.map) EXCEPT !.uniq_index = uniq]
NameOf(l) == Name(l, l.uniq_index)

\* What the files of the levels have, published or not.
Stored(l, done) == l.file \/ \E n \in done : n.index = l.index /\ n.sub_index = l.sub_index
OnDisk(ls, done) ==
    Overlay([i \in DOMAIN ls |-> IF Stored(ls[i], done) THEN ls[i] ELSE [ls[i] EXCEPT !.map = Empty]])

Change(newState) == state = "up" /\ state' = newState

\* exchange_rw_level_i_(): some keys were saved.
exchange ==
    /\ Change("up")
    /\ calls < MaxCalls /\ calls' = calls + 1
    /\ Len(SelectSeq(levels, LAMBDA l : ~l.file)) < MaxInMemory
    /\ \E saves \in SUBSET Keys \ {{}} :
           LET map == [k \in Keys |-> IF k \in saves THEN calls + 2 ELSE NOT_FOUND]
               sub == IF levels = <<>> THEN 0 ELSE Head(levels).sub_index + 1
           IN  levels' = <<MemLevel(sub, map, Area(map))>> \o levels
    /\ UNCHANGED <<renaming, dumped, merge, directory, history, files, failures, crashes>>

\* dump_mem_level_(): the files of the level are written and the index is
\* renamed.  Two levels may be dumped at the same time.
DumpIndex(l) ==
    /\ Change("up")
    /\ ~l.file /\ files < MaxFiles
    /\ \A n \in renaming \cup dumped : n.sub_index /= l.sub_index
    /\ renaming' = renaming \cup {Name(l, files)}
    /\ index' = index \cup {Index(Name(l, files), l.map, FALSE)}
    /\ files' = files + 1
    /\ UNCHANGED <<levels, dumped, merge, body, mergeFile, history, calls, failures, crashes>>

DumpBody(name) ==
    /\ Change("up")
    /\ renaming' = renaming \ {name}
    /\ dumped' = dumped \cup {name}
    /\ body' = body \cup {Body(name, FALSE)}
    /\ saved' = OnDisk(levels, dumped')
    /\ UNCHANGED <<levels, merge, index, mergeFile, torn, cut, bounds>>

\* The level stays in memory and will be dumped under another name.
DumpBodyFails(name) ==
    /\ Change("up")
    /\ failures < MaxFailures /\ failures' = failures + 1
    /\ renaming' = renaming \ {name}
    /\ torn' = torn \cup {name}
    /\ UNCHANGED <<levels, dumped, merge, directory, saved, cut, files, calls, crashes>>

\* With map_holder_change_lock_, which a merge has from its first rename on.
PublishDump(name) ==
    /\ Change("up")
    /\ merge.step /= "renaming"
    /\ dumped' = dumped \ {name}
    /\ levels' = [i \in DOMAIN levels |->
                     IF ~levels[i].file /\ levels[i].sub_index = name.sub_index
                     THEN InFile(levels[i], name.uniq) ELSE levels[i]]
    /\ UNCHANGED <<renaming, merge, directory, history, bounds>>

-----------------------------------------------------------------------------
(* merge_levels_()                                                           *)

\* merge_levels is a set ordered by cell: of two levels in one cell, which a
\* crash may leave, it has the first.
FirstOfCell(ls) == {i \in DOMAIN ls : \A j \in 1 .. i - 1 : ~SameCell(ls[j], ls[i])}

BeginMerge ==
    /\ Change("up")
    /\ merge = NoMerge /\ files < MaxFiles
    /\ merge_check_(levels)
    /\ \E p \in Ascending(FirstOfCell(MergeLevels(levels))) :
           /\ Len(p) > 1
           /\ merge' = [NoMerge EXCEPT !.step = "writing", !.sources = Select(MergeLevels(levels), p)]
    /\ UNCHANGED <<levels, renaming, dumped, directory, history, bounds>>

\* Every profile, and the end that both files have, adds to their size.
SizeOf(map) == 1 + Cardinality({k \in Keys : map[k] /= NOT_FOUND})

Result == MergedLevel(merge.sources)
ResultName == Name(Result, merge.uniq)
OrLonger(old, size) == IF old > size THEN old ELSE size
Longer(size) == [index |-> OrLonger(mergeFile.index, size), body |-> OrLonger(mergeFile.body, size)]

\* FileWriter opens them without O_TRUNC, and the size it compares with 0 is
\* that of what it has written itself.
WriteMerge ==
    /\ Change("up")
    /\ merge.step = "writing"
    /\ mergeFile' = Longer(SizeOf(Result.map))
    /\ merge' = [merge EXCEPT !.step = "written"]
    /\ UNCHANGED <<levels, renaming, dumped, index, body, history, bounds>>

\* stop_merge_, or an error: both files are unlinked.
WriteMergeFails ==
    /\ Change("up")
    /\ merge.step = "writing"
    /\ failures < MaxFailures /\ failures' = failures + 1
    /\ mergeFile' = NoFiles
    /\ merge' = NoMerge
    /\ UNCHANGED <<levels, renaming, dumped, index, body, history, files, calls, crashes>>

Tail_(size) == size > SizeOf(Result.map)

RenameMergeIndex ==
    /\ Change("up")
    /\ merge.step = "written"
    /\ index' = index \cup {Index(Name(Result, files), Result.map, Tail_(mergeFile.index))}
    /\ mergeFile' = [mergeFile EXCEPT !.index = 0]
    /\ merge' = [merge EXCEPT !.step = "renaming", !.uniq = files]
    /\ files' = files + 1
    /\ UNCHANGED <<levels, renaming, dumped, body, history, calls, failures, crashes>>

\* Mutant: the result of the second rename is not looked at.
RenameMergeFailsUnseen ==
    /\ Change("up")
    /\ merge.step = "renaming"
    /\ failures < MaxFailures /\ failures' = failures + 1
    /\ torn' = torn \cup {ResultName}
    /\ merge' = [merge EXCEPT !.step = "unlinkIndex"]
    /\ UNCHANGED <<levels, renaming, dumped, directory, saved, cut, files, calls, crashes>>

\* merge.data stays behind.
RenameMergeFails ==
    /\ Change("up")
    /\ merge.step = "renaming"
    /\ failures < MaxFailures /\ failures' = failures + 1
    /\ torn' = torn \cup {ResultName}
    /\ merge' = NoMerge
    /\ UNCHANGED <<levels, renaming, dumped, directory, saved, cut, files, calls, crashes>>

\* remove_if by cell, and the new level in its place.
RenameMergeBody ==
    /\ Change("up")
    /\ merge.step = "renaming"
    /\ body' = body \cup {Body(ResultName, Tail_(mergeFile.body))}
    /\ mergeFile' = [mergeFile EXCEPT !.body = 0]
    /\ \E p \in Ascending(Unmerged(levels, merge.sources)) :
           levels' = InsertLevel(Select(levels, p), InFile(Result, merge.uniq))
    /\ merge' = [merge EXCEPT !.step = "unlinkIndex"]
    /\ cut' = IF cut = "among" THEN "since" ELSE cut
    /\ UNCHANGED <<renaming, dumped, index, saved, torn, bounds>>

Remaining == Tail(merge.sources)

\* Mutant: the index is forgotten.
UnlinkOnlyBody ==
    /\ Change("up")
    /\ merge.step = "unlinkIndex"
    /\ body' = {f \in body : f.name /= NameOf(Head(merge.sources))}
    /\ merge' = [merge EXCEPT !.step = "unlinkBody"]
    /\ UNCHANGED <<levels, renaming, dumped, index, mergeFile, history, bounds>>

\* The sources are destroyed with map_holder, the vector the merge began with:
\* first to last, so that the newest goes first.
UnlinkIndex ==
    /\ Change("up")
    /\ merge.step = "unlinkIndex"
    /\ index' = {f \in index : f.name /= NameOf(Head(merge.sources))}
    /\ merge' = [merge EXCEPT !.step = "unlinkBody"]
    /\ UNCHANGED <<levels, renaming, dumped, body, mergeFile, history, bounds>>

UnlinkBody ==
    /\ Change("up")
    /\ merge.step = "unlinkBody"
    /\ body' = {f \in body : f.name /= NameOf(Head(merge.sources))}
    /\ merge' = IF Remaining = <<>> THEN NoMerge
                ELSE [merge EXCEPT !.step = "unlinkIndex", !.sources = Remaining]
    /\ UNCHANGED <<levels, renaming, dumped, index, mergeFile, history, bounds>>

-----------------------------------------------------------------------------

Unfinished == IF merge.step = "renaming" THEN {ResultName} ELSE {}

\* The process dies; a merge has written any part of its files.
Crash ==
    /\ Change("down")
    /\ crashes < MaxCrashes /\ crashes' = crashes + 1
    /\ levels' = <<>> /\ renaming' = {} /\ dumped' = {} /\ merge' = NoMerge
    /\ IF merge.step /= "writing" THEN UNCHANGED mergeFile
       ELSE \E size \in 0 .. SizeOf(Result.map) : mergeFile' = Longer(size)
    /\ torn' = torn \cup renaming \cup Unfinished
    /\ cut' = IF cut = "never" /\ merge.step \in {"unlinkIndex", "unlinkBody"} THEN "among" ELSE cut
    /\ UNCHANGED <<index, body, saved, files, calls, failures>>

\* ReadFileLevel(): the body exists, and both files end where they should.
Readable(f) ==
    /\ ~f.tail
    /\ \E b \in body : b.name = f.name /\ ~b.tail

Level(f) == InFile([index |-> f.name.index, sub_index |-> f.name.sub_index, map |-> f.map], f.name.uniq)

\* Mutant: in the order of the directory.
LoadedAsFound == SetToSeqs({Level(f) : f \in index})

\* add_level_(): by cell; two files in one cell in the order of the directory.
Loaded ==
    {ls \in SetToSeqs({Level(f) : f \in index}) :
        \A i, j \in DOMAIN ls : i < j => ~Less(ls[j], ls[i])}

Restart ==
    /\ state = "down"
    /\ IF \A f \in index : Readable(f)
       THEN levels' \in Loaded /\ state' = "up"
       ELSE state' = "refused" /\ UNCHANGED levels
    /\ UNCHANGED <<renaming, dumped, merge, directory, history, bounds>>

Next ==
    \/ exchange
    \/ \E i \in DOMAIN levels : DumpIndex(levels[i])
    \/ \E n \in renaming : DumpBody(n) \/ DumpBodyFails(n)
    \/ \E n \in dumped : PublishDump(n)
    \/ BeginMerge \/ WriteMerge \/ WriteMergeFails
    \/ RenameMergeIndex \/ RenameMergeFails \/ RenameMergeBody
    \/ UnlinkIndex \/ UnlinkBody
    \/ Crash \/ Restart

Spec == Init /\ [][Next]_vars

-----------------------------------------------------------------------------

\* Whenever the process dies, what it leaves can be loaded, unless it died, or a
\* rename failed, between the two renames of a level, or an earlier crash or
\* failure left merge files behind that were longer than the next ones.
AlwaysLoadable ==
    \A f \in index :
        \/ Readable(f)
        \/ f.name \in renaming \cup torn \cup Unfinished
        \/ crashes + failures > 0 /\ (f.tail \/ \E b \in body : b.name = f.name /\ b.tail)

\* The map finds what was written last among what is in its files, after a restart
\* too, unless a crash fell among the unlinks of a merge: a source that is left
\* hides the merged level, although a newer source was unlinked already.
FindsNewest == state = "up" /\ cut = "never" => OnDisk(levels, dumped) = saved

\* Nothing that was dumped is gone: what was written last is in a file with its
\* index, in every moment of a dump, a merge, a crash and a restart.  Only the
\* merge after a crash among unlinks can destroy it, by what it finds instead.
NothingLost ==
    cut /= "since" =>
        \A k \in Keys : saved[k] = NOT_FOUND
            \/ \E f \in index : f.map[k] = saved[k] /\ f.name \in Names(body)
=============================================================================
