------------------------------ MODULE FileLevelsProofs ------------------------------
(***************************************************************************)
(* What is in the files of a map, through dumps, merges, crashes and       *)
(* restarts, for any keys, bounds and sizes of levels: every file can be   *)
(* loaded, the newest profile is found, and nothing is lost, each as far   *)
(* as FileLevels states it.                                                *)
(***************************************************************************)
EXTENDS FileLevels, LevelsProofs

NameType == [index : Nat, sub_index : Nat, uniq : Nat]
FileType == [name : NameType, map : Maps, tail : BOOLEAN]
BodyType == [name : NameType, tail : BOOLEAN]
SizeType_ == [index : Nat, body : Nat]
Steps == {"none", "writing", "written", "renaming", "unlinkIndex", "unlinkBody"}
MergeType == [step : Steps, sources : Seq(LevelType), uniq : Nat]

Types ==
    /\ state \in {"up", "down", "refused"}
    /\ levels \in Seq(LevelType)
    /\ index \in SUBSET FileType /\ body \in SUBSET BodyType /\ IsFiniteSet(index)
    /\ mergeFile \in SizeType_
    /\ renaming \in SUBSET NameType /\ dumped \in SUBSET NameType /\ torn \in SUBSET NameType
    /\ merge \in MergeType /\ (merge.step # "none" => merge.sources # <<>>)
    /\ cut \in {"never", "among", "since"}
    /\ saved \in Maps
    /\ files \in Nat /\ calls \in Nat /\ failures \in Nat /\ crashes \in Nat

\* A process that is not there has nothing in memory.
Stopped == state # "up" => levels = <<>> /\ renaming = {} /\ dumped = {} /\ merge = NoMerge

\* No name has a number that is still to be given.
Numbered ==
    /\ \A n \in renaming \cup dumped \cup torn \cup Names(index) \cup Names(body) : n.uniq < files
    /\ \A i \in DOMAIN levels : levels[i].file => levels[i].uniq_index < files
    /\ \A i \in DOMAIN merge.sources : merge.sources[i].file /\ merge.sources[i].uniq_index < files
    /\ merge.step = "renaming" => merge.uniq < files

\* An index has its body unless it is on its way to it, and goes before it.
Paired ==
    /\ \A f \in index : f.name \in renaming \cup torn \cup Unfinished \cup Names(body)
    /\ merge.step = "unlinkBody" => NameOf(Head(merge.sources)) \notin Names(index)

\* Without crashes and failures every file is written to an empty one.
TailsExplained ==
    crashes + failures = 0 =>
        /\ \A f \in index \cup body : ~f.tail
        /\ mergeFile.index = IF merge.step = "written" THEN SizeOf(Result.map) ELSE 0
        /\ mergeFile.body = IF merge.step \in {"written", "renaming"} THEN SizeOf(Result.map) ELSE 0

FilesInv == Types /\ Stopped /\ Numbered /\ Paired /\ TailsExplained

\* The sources of a merge while it unlinks them; and the files that are whole
\* and stay: what a map that is loaded now would have.
Unlinking == merge.step \in {"unlinkIndex", "unlinkBody"}
Doomed == IF Unlinking THEN {NameOf(merge.sources[i]) : i \in DOMAIN merge.sources} ELSE {}
Kept == {f \in index : f.name \in Names(body) /\ f.name \notin Doomed}
LevelsOf(fs) == {Level(f) : f \in fs}

\* No two files have one name.
Unique == \A f, g \in index : f.name = g.name => f = g

\* The levels are in order; a crash among unlinks may leave two files in a cell.
Placed ==
    \A i, j \in DOMAIN levels : i < j =>
        \/ Less(levels[i], levels[j])
        \/ cut = "among" /\ levels[i].file /\ levels[j].file /\ ~Less(levels[j], levels[i])

\* A level that is a file has one, and the others are at the first index.
Backed ==
    \A l \in ToSet(levels) :
        /\ l.file => \E f \in Kept : l = Level(f)
        /\ ~l.file => l.index = 0

\* A dump has the level in memory that it writes.
Dumps(n) ==
    \E l \in ToSet(levels), f \in index :
        ~l.file /\ l.index = n.index /\ l.sub_index = n.sub_index /\ f.name = n /\ f.map = l.map
Dumping ==
    /\ \A n \in renaming \cup dumped : Dumps(n) /\ n \notin Doomed
    /\ \A n, m \in renaming \cup dumped : n.sub_index = m.sub_index => n = m
    /\ dumped \subseteq Names(body) /\ renaming \cap dumped = {}

\* A merge has files of the map, and nothing is between them and their result.
Merging ==
    merge.step \in {"writing", "written", "renaming"} =>
        /\ Ordered(merge.sources)
        /\ ToSet(merge.sources) \subseteq ToSet(levels)
        /\ \A l \in ToSet(levels) \ ToSet(merge.sources) : Apart(l, merge.sources)
        /\ merge.step = "renaming" =>
              /\ \E f \in index : f.name = ResultName /\ f.map = Result.map
              /\ \A i \in DOMAIN merge.sources : merge.sources[i].uniq_index # merge.uniq

\* Every whole file is a level of the map or about to be, in a cell of its own,
\* and what was written last is on top.
Found == \A f \in Kept : Level(f) \in ToSet(levels) \/ f.name \in dumped
Differ == \A f, g \in Kept : SameCell(Level(f), Level(g)) => f = g
Newest == \A k \in Keys : Shows(LevelsOf(Kept), k, saved[k])
Complete == (state = "up" => Found) /\ Differ /\ Newest

\* After a crash among unlinks nothing is unlinked until the next merge.
Preserved ==
    /\ ~Unlinking
    /\ \A k \in Keys : saved[k] = NOT_FOUND \/ \E f \in Kept : f.map[k] = saved[k]

Files == Unique /\ Placed /\ Backed /\ Dumping

ContentsInv ==
    /\ cut # "since" => Files
    /\ cut = "never" => Merging /\ Complete
    /\ cut = "among" => Preserved

IndInv == FilesInv /\ ContentsInv

-----------------------------------------------------------------------------
(* What names, files and levels are.                                         *)

LEMMA InFileIs ==
    ASSUME NEW l, l.index \in Nat, l.sub_index \in Nat, l.map \in Maps, NEW u \in Nat, NEW n, n = InFile(l, u)
    PROVE  /\ n \in LevelType /\ n.file /\ n.map = l.map /\ n.area = Area(n.map)
           /\ n.index = l.index /\ n.sub_index = l.sub_index /\ n.uniq_index = u
<1>1. n = [index |-> l.index, sub_index |-> l.sub_index, uniq_index |-> u, map |-> l.map,
           area |-> Area(l.map), file |-> TRUE]
  BY DEF InFile, FileLevel
<1>2. Area(l.map) \in Nat
  BY AreaType
<1>3. QED
  BY <1>1, <1>2 DEF LevelType

LEMMA LevelParts ==
    ASSUME NEW l \in LevelType
    PROVE  /\ l.index \in Nat /\ l.sub_index \in Nat /\ l.uniq_index \in Nat
           /\ l.map \in Maps /\ l.file \in BOOLEAN
  BY DEF LevelType

LEMMA NameIs ==
    ASSUME NEW l \in LevelType, NEW u \in Nat, NEW n, n = Name(l, u)
    PROVE  n \in NameType /\ n.index = l.index /\ n.sub_index = l.sub_index /\ n.uniq = u
<1>1. l.index \in Nat /\ l.sub_index \in Nat
  BY LevelParts
<1>2. QED
  BY <1>1 DEF Name, NameType

LEMMA SameName ==
    ASSUME NEW n \in NameType, NEW m \in NameType, n.index = m.index, n.sub_index = m.sub_index, n.uniq = m.uniq
    PROVE  n = m
  BY DEF NameType

LEMMA FileIs ==
    ASSUME NEW n \in NameType, NEW map \in Maps, NEW tail \in BOOLEAN, NEW f, f = Index(n, map, tail)
    PROVE  f \in FileType /\ f.name = n /\ f.map = map /\ f.tail = tail
  BY DEF Index, FileType

LEMMA FileParts ==
    ASSUME NEW f \in FileType
    PROVE  /\ f.name \in NameType /\ f.map \in Maps /\ f.tail \in BOOLEAN
           /\ f.name.index \in Nat /\ f.name.sub_index \in Nat /\ f.name.uniq \in Nat
  BY DEF FileType, NameType

LEMMA BodyIs ==
    ASSUME NEW n \in NameType, NEW tail \in BOOLEAN, NEW b, b = Body(n, tail)
    PROVE  b \in BodyType /\ b.name = n /\ b.tail = tail
  BY DEF Body, BodyType

LEMMA LevelIs ==
    ASSUME NEW f \in FileType, NEW l, l = Level(f)
    PROVE  /\ l \in LevelType /\ l.file /\ l.map = f.map /\ l.area = Area(l.map)
           /\ l.index = f.name.index /\ l.sub_index = f.name.sub_index /\ l.uniq_index = f.name.uniq
           /\ NameOf(l) = f.name
<1> DEFINE r == [index |-> f.name.index, sub_index |-> f.name.sub_index, map |-> f.map]
<1>1. r.index = f.name.index /\ r.sub_index = f.name.sub_index /\ r.map = f.map
  OBVIOUS
<1>2. l = InFile(r, f.name.uniq)
  BY DEF Level
<1> HIDE DEF r
<1>3. /\ l \in LevelType /\ l.file /\ l.map = f.map /\ l.area = Area(l.map)
      /\ l.index = f.name.index /\ l.sub_index = f.name.sub_index /\ l.uniq_index = f.name.uniq
  BY <1>1, <1>2, FileParts, InFileIs
<1>4. NameOf(l) = f.name
  <2>1. NameOf(l) \in NameType /\ NameOf(l).index = l.index /\ NameOf(l).sub_index = l.sub_index
        /\ NameOf(l).uniq = l.uniq_index
    BY <1>3, LevelParts, NameIs DEF NameOf
  <2>2. QED
    BY <1>3, <2>1, FileParts, SameName
<1>5. QED
  BY <1>3, <1>4

LEMMA SizeOfIs == ASSUME NEW map PROVE SizeOf(map) \in Nat
<1>1. IsFiniteSet({k \in Keys : map[k] /= NOT_FOUND})
  BY LevelsAssumption, FS_Subset
<1>2. Cardinality({k \in Keys : map[k] /= NOT_FOUND}) \in Nat
  BY <1>1, FS_CardinalityType
<1>3. QED
  BY <1>2 DEF SizeOf

LEMMA MergeIs ==
    ASSUME NEW m \in MergeType
    PROVE  m.step \in Steps /\ m.sources \in Seq(LevelType) /\ m.uniq \in Nat
  BY DEF MergeType

LEMMA NoMergeIs ==
    NoMerge \in MergeType /\ NoMerge.step = "none" /\ NoMerge.sources = <<>>
<1>1. <<>> \in Seq(LevelType) /\ 0 \in Nat
  OBVIOUS
<1>2. QED
  BY <1>1 DEF NoMerge, MergeType, Steps

\* The result of a merge, and its files.
LEMMA ResultIs ==
    ASSUME Types, merge.step # "none"
    PROVE  /\ Result \in LevelType /\ Result.file /\ Result.map = Overlay(merge.sources)
           /\ Result.map \in Maps /\ SizeOf(Result.map) \in Nat
           /\ Result.index = MergedLevel(merge.sources).index
           /\ Result.sub_index = MergedLevel(merge.sources).sub_index
           /\ merge.sources \in Seq(LevelType) /\ merge.sources # <<>>
           /\ merge.uniq \in Nat
           /\ ResultName \in NameType /\ ResultName.uniq = merge.uniq
<1>1. merge.sources \in Seq(LevelType) /\ merge.sources # <<>> /\ merge.uniq \in Nat
  BY MergeIs DEF Types
<1>2. Result \in LevelType /\ Result.file /\ Result.map = Overlay(merge.sources)
  BY <1>1, MergedLevelType DEF Result
<1>3. ResultName \in NameType /\ ResultName.uniq = merge.uniq
  BY <1>1, <1>2, NameIs DEF ResultName
<1>4. QED
  BY <1>1, <1>2, <1>3, LevelParts, SizeOfIs DEF Result

LEMMA Longest ==
    ASSUME Types, NEW size \in Nat
    PROVE  Longer(size) \in SizeType_
<1>1. mergeFile.index \in Nat /\ mergeFile.body \in Nat
  BY DEF Types, SizeType_
<1>2. OrLonger(mergeFile.index, size) \in Nat /\ OrLonger(mergeFile.body, size) \in Nat
  BY <1>1 DEF OrLonger
<1>3. QED
  BY <1>2 DEF Longer, SizeType_

LEMMA Named == ASSUME NEW fs, NEW n PROVE n \in Names(fs) <=> \E f \in fs : f.name = n
  BY DEF Names

-----------------------------------------------------------------------------
(* Names, pairs and tails: what every step keeps.                            *)

LEMMA PairedStays ==
    ASSUME Paired, UNCHANGED <<index, body, merge>>, renaming \cup torn \subseteq renaming' \cup torn'
    PROVE  Paired'
  BY DEF Paired, Unfinished, ResultName, Result, Names, NameOf, Name

LEMMA TailsStay ==
    ASSUME Types, Types', TailsExplained, UNCHANGED <<index, body, mergeFile, merge>>,
           crashes' = crashes, failures' = failures
    PROVE  TailsExplained'
  BY DEF TailsExplained, Result

LEMMA TailsCounted ==
    ASSUME Types, Types', failures' = failures + 1 \/ crashes' = crashes + 1 PROVE TailsExplained'
<1>1. crashes \in Nat /\ failures \in Nat /\ crashes' \in Nat /\ failures' \in Nat
  BY DEF Types
<1>2. crashes' + failures' # 0
  <2>1. \A a, b, c, d \in Nat : c = a + 1 \/ d = b + 1 => c + d # 0 /\ d + c # 0
    OBVIOUS
  <2>2. QED
    BY <1>1, <2>1
<1>3. QED
  BY <1>2 DEF TailsExplained

LEMMA LevelAt == ASSUME Types, NEW i \in DOMAIN levels PROVE levels[i] \in LevelType
  BY Lists DEF Types

\* A level that is exchanged comes on top.
LEMMA ExchangeIs ==
    ASSUME Types, exchange
    PROVE  \E l \in LevelType :
              /\ ~l.file /\ l.index = 0 /\ levels' = OnTop(l, levels)
              /\ levels # <<>> => l.sub_index = Head(levels).sub_index + 1
<1>1. PICK saves \in SUBSET Keys \ {{}} :
         levels' = <<MemLevel(IF levels = <<>> THEN 0 ELSE Head(levels).sub_index + 1,
                              [k \in Keys |-> IF k \in saves THEN calls + 2 ELSE NOT_FOUND],
                              Area([k \in Keys |-> IF k \in saves THEN calls + 2 ELSE NOT_FOUND]))>> \o levels
  BY Zenon DEF exchange
<1>2. PICK map : map = [k \in Keys |-> IF k \in saves THEN calls + 2 ELSE NOT_FOUND]
  OBVIOUS
<1>3. map \in Maps
  <2>1. calls + 2 \in Nat /\ NOT_FOUND \in Nat
    BY DEF Types, NOT_FOUND
  <2>2. QED
    BY <1>2, <2>1 DEF Maps
<1>4. PICK sub \in Nat : sub = IF levels = <<>> THEN 0 ELSE Head(levels).sub_index + 1
  <2>1. levels # <<>> => Head(levels) \in LevelType
    BY DEF Types
  <2>2. levels # <<>> => Head(levels).sub_index \in Nat
    BY <2>1, LevelParts
  <2>3. QED
    BY <2>2
<1>5. Area(map) \in Nat
  BY <1>3, AreaType
<1>6. PICK l : l = MemLevel(sub, map, Area(map))
  OBVIOUS
<1>7. l \in LevelType /\ ~l.file /\ l.index = 0 /\ l.sub_index = sub
  BY <1>3, <1>5, <1>6 DEF MemLevel, LevelType
<1>8. levels' = OnTop(l, levels)
  BY <1>1, <1>2, <1>4, <1>6 DEF OnTop
<1>9. QED
  BY <1>4, <1>7, <1>8

LEMMA ExchangeFiles == ASSUME FilesInv, exchange PROVE FilesInv'
<1>1. Types /\ levels \in Seq(LevelType)
  BY DEF FilesInv, Types
<1>2. PICK l \in LevelType : ~l.file /\ levels' = OnTop(l, levels)
  BY <1>1, ExchangeIs
<1>3. PICK n \in Nat, new \in Seq(LevelType) :
         /\ new = OnTop(l, levels) /\ DOMAIN levels = 1 .. n /\ DOMAIN new = 1 .. n + 1 /\ new[1] = l
         /\ \A i \in 1 .. n + 1 : i = 1 \/ (i - 1 \in 1 .. n /\ new[i] = levels[i - 1])
  BY <1>1, OnTopPlaces
<1>4. levels' = new
  BY <1>2, <1>3
<1>5. /\ UNCHANGED <<renaming, dumped, merge, index, body, mergeFile, saved, torn, cut, files, failures, crashes>>
      /\ state' = "up" /\ calls' = calls + 1
  BY DEF exchange, Change, directory, history
<1>6. Types'
  BY <1>1, <1>4, <1>5 DEF Types
<1>7. Numbered'
  <2>1. \A i \in DOMAIN new : new[i].file => new[i].uniq_index < files
    BY <1>2, <1>3 DEF FilesInv, Numbered
  <2>2. QED
    BY <1>4, <1>5, <2>1 DEF FilesInv, Numbered, Names
<1>8. Paired'
  BY <1>5, PairedStays DEF FilesInv
<1>9. TailsExplained'
  BY <1>1, <1>5, <1>6, TailsStay DEF FilesInv
<1>10. QED
  BY <1>5, <1>6, <1>7, <1>8, <1>9 DEF FilesInv, Stopped

LEMMA DumpIndexFiles == ASSUME FilesInv, NEW i \in DOMAIN levels, DumpIndex(levels[i]) PROVE FilesInv'
<1>1. Types /\ levels[i] \in LevelType
  BY LevelAt DEF FilesInv
<1>2. PICK n : n = Name(levels[i], files)
  OBVIOUS
<1>3. n \in NameType /\ n.uniq = files
  BY <1>1, <1>2, NameIs DEF Types
<1>4. PICK f : f = Index(n, levels[i].map, FALSE)
  OBVIOUS
<1>5. f \in FileType /\ f.name = n /\ ~f.tail
  <2>1. levels[i].map \in Maps
    BY <1>1, LevelParts
  <2>2. QED
    BY <1>3, <1>4, <2>1 DEF Index, FileType
<1>6. /\ UNCHANGED <<levels, dumped, merge, body, mergeFile, saved, torn, cut, calls, failures, crashes>>
      /\ state' = "up" /\ files' = files + 1
      /\ renaming' = renaming \cup {n} /\ index' = index \cup {f}
  BY <1>2, <1>4 DEF DumpIndex, Change, history
<1>7. Types'
  <2>1. IsFiniteSet(index')
    BY <1>1, <1>6, FS_AddElement DEF Types
  <2>2. QED
    BY <1>1, <1>3, <1>5, <1>6, <2>1 DEF Types
<1>8. Numbered'
  <2>1. Names(index') = Names(index) \cup {n} /\ Names(body') = Names(body)
    BY <1>5, <1>6 DEF Names
  <2>2. \A x \in Nat : x < files => x < files + 1
    BY <1>1 DEF Types
  <2>3. \A m \in renaming' \cup dumped' \cup torn' \cup Names(index') \cup Names(body') :
            m = n \/ m \in renaming \cup dumped \cup torn \cup Names(index) \cup Names(body)
    BY <1>6, <2>1
  <2>4. \A m \in renaming \cup dumped \cup torn \cup Names(index) \cup Names(body) :
            m.uniq < files /\ m \in NameType
    BY <1>1 DEF FilesInv, Numbered, Types, Names, FileType, BodyType
  <2>5. \A m \in NameType : m.uniq \in Nat
    BY DEF NameType
  <2>6. files < files + 1
    BY <1>1 DEF Types
  <2>7. \A m \in renaming' \cup dumped' \cup torn' \cup Names(index') \cup Names(body') : m.uniq < files + 1
    BY <1>3, <2>2, <2>3, <2>4, <2>5, <2>6
  <2>8. \A j \in DOMAIN levels : levels[j].file => levels[j].uniq_index < files + 1
    BY <1>1, <2>2, LevelAt, LevelParts DEF FilesInv, Numbered
  <2>9. \A j \in DOMAIN merge.sources :
           merge.sources[j].file /\ merge.sources[j].uniq_index < files + 1
    <3>1. \A j \in DOMAIN merge.sources : merge.sources[j] \in LevelType
      BY <1>1, MergeIs, Lists DEF Types
    <3>2. QED
      BY <2>2, <3>1, LevelParts DEF FilesInv, Numbered
  <2>10. merge.step = "renaming" => merge.uniq < files + 1
    BY <1>1, <2>2, MergeIs DEF FilesInv, Numbered, Types
  <2>11. QED
    BY <1>6, <2>7, <2>8, <2>9, <2>10 DEF Numbered
<1>9. Paired'
  <2>1. Names(index') = Names(index) \cup {n} /\ Names(body') = Names(body)
    BY <1>5, <1>6 DEF Names
  <2>2. Unfinished' = Unfinished
    BY <1>6 DEF Unfinished, ResultName, Result
  <2>3. \A g \in index' : g.name \in renaming' \cup torn' \cup Unfinished' \cup Names(body')
    BY <1>5, <1>6, <2>1, <2>2 DEF FilesInv, Paired
  <2>4. ASSUME merge.step = "unlinkBody" PROVE NameOf(Head(merge.sources)) # n
    <3>1. merge.sources # <<>> /\ merge.sources \in Seq(LevelType)
      BY <1>1, <2>4, MergeIs DEF Types
    <3>2. 1 \in DOMAIN merge.sources /\ Head(merge.sources) = merge.sources[1] /\ merge.sources[1] \in LevelType
      BY <3>1
    <3>3. Head(merge.sources).uniq_index < files
      BY <3>2 DEF FilesInv, Numbered
    <3>4. NameOf(Head(merge.sources)).uniq = Head(merge.sources).uniq_index
      BY <3>2, LevelParts, NameIs DEF NameOf
    <3>5. files \in Nat /\ Head(merge.sources).uniq_index \in Nat
      BY <1>1, <3>2, LevelParts DEF Types
    <3>6. QED
      BY <1>3, <3>3, <3>4, <3>5
  <2>5. QED
    BY <1>6, <2>1, <2>3, <2>4 DEF FilesInv, Paired
<1>10. TailsExplained'
  BY <1>5, <1>6 DEF FilesInv, TailsExplained, Result
<1>11. QED
  BY <1>6, <1>7, <1>8, <1>9, <1>10 DEF FilesInv, Stopped

\* The name of the result has the number of the merge.
LEMMA UnfinishedIs ==
    ASSUME Types, Numbered
    PROVE  Unfinished \subseteq NameType /\ \A n \in Unfinished : n.uniq < files
<1>1. CASE merge.step = "renaming"
  <2>1. merge.step # "none"
    BY <1>1
  <2>2. ResultName \in NameType /\ ResultName.uniq = merge.uniq
    BY <2>1, ResultIs
  <2>3. merge.uniq < files
    BY <1>1 DEF Numbered
  <2>4. QED
    BY <1>1, <2>2, <2>3 DEF Unfinished
<1>2. CASE merge.step # "renaming"
  BY <1>2 DEF Unfinished
<1>3. QED
  BY <1>1, <1>2

\* What levels have in files.
OnlyStored(ls, done) ==
    [i \in DOMAIN ls |-> IF Stored(ls[i], done) THEN ls[i] ELSE [ls[i] EXCEPT !.map = Empty]]

LEMMA Unmapped ==
    ASSUME NEW l \in LevelType
    PROVE  /\ [l EXCEPT !.map = Empty] \in LevelType
           /\ [l EXCEPT !.map = Empty].map = Empty
           /\ \A m : (Less([l EXCEPT !.map = Empty], m) <=> Less(l, m))
                     /\ (Less(m, [l EXCEPT !.map = Empty]) <=> Less(m, l))
<1>1. Empty \in Maps
  BY AreaOfEmpty
<1>2. PICK e : e = [l EXCEPT !.map = Empty]
  OBVIOUS
<1>3. e \in LevelType /\ e.map = Empty /\ e.index = l.index /\ e.sub_index = l.sub_index
  BY <1>1, <1>2 DEF LevelType
<1>4. QED
  BY <1>2, <1>3 DEF Less

LEMMA OnlyStoredIs ==
    ASSUME NEW ls \in Seq(LevelType), NEW done, NEW s, s = OnlyStored(ls, done)
    PROVE  /\ s \in Seq(LevelType) /\ DOMAIN s = DOMAIN ls
           /\ \A i \in DOMAIN ls :
                 /\ Stored(ls[i], done) => s[i] = ls[i]
                 /\ ~Stored(ls[i], done) => s[i] = [ls[i] EXCEPT !.map = Empty]
           /\ OnDisk(ls, done) = Overlay(s)
<1>1. /\ DOMAIN s = DOMAIN ls
      /\ \A i \in DOMAIN ls : s[i] = IF Stored(ls[i], done) THEN ls[i] ELSE [ls[i] EXCEPT !.map = Empty]
  BY DEF OnlyStored
<1>2. PICK n \in Nat : DOMAIN ls = 1 .. n
  BY Lists
<1>3. \A i \in 1 .. n : ls[i] \in LevelType
  BY <1>2, Lists
<1>4. \A i \in 1 .. n : s[i] \in LevelType
  BY <1>1, <1>2, <1>3, Unmapped
<1>5. s = [i \in 1 .. n |-> s[i]]
  BY <1>2 DEF OnlyStored
<1>6. s \in [1 .. n -> LevelType]
  BY <1>4, <1>5
<1>7. s \in Seq(LevelType)
  BY <1>2, <1>6, SeqDef
<1>8. OnDisk(ls, done) = Overlay(s)
  BY DEF OnDisk, OnlyStored
<1>9. QED
  BY <1>1, <1>7, <1>8

LEMMA OnDiskIs == ASSUME NEW ls \in Seq(LevelType), NEW done PROVE OnDisk(ls, done) \in Maps
<1>1. PICK s : s = OnlyStored(ls, done)
  OBVIOUS
<1>2. QED
  BY <1>1, OnlyStoredIs, OverlayType

LEMMA DumpBodyFiles == ASSUME FilesInv, NEW n \in renaming, DumpBody(n) PROVE FilesInv'
<1>1. Types /\ n \in NameType
  BY DEF FilesInv, Types
<1>2. PICK b : b = Body(n, FALSE)
  OBVIOUS
<1>3. b \in BodyType /\ b.name = n /\ ~b.tail
  BY <1>1, <1>2 DEF Body, BodyType
<1>4. /\ UNCHANGED <<levels, merge, index, mergeFile, torn, cut, files, calls, failures, crashes>>
      /\ state' = "up" /\ renaming' = renaming \ {n} /\ dumped' = dumped \cup {n}
      /\ body' = body \cup {b} /\ saved' = OnDisk(levels, dumped')
  BY <1>2 DEF DumpBody, Change, bounds
<1>5. Types'
  <2>1. saved' \in Maps
    BY <1>1, <1>4, OnDiskIs DEF Types
  <2>2. QED
    BY <1>1, <1>3, <1>4, <2>1 DEF Types
<1>6. Names(body') = Names(body) \cup {n} /\ Names(index') = Names(index) /\ Unfinished' = Unfinished
  BY <1>3, <1>4 DEF Names, Unfinished, ResultName, Result
<1>7. Numbered'
  BY <1>4, <1>6 DEF FilesInv, Numbered, Names
<1>8. Paired'
  <2>1. \A f \in index' : f.name \in renaming' \cup torn' \cup Unfinished' \cup Names(body')
    BY <1>4, <1>6 DEF FilesInv, Paired
  <2>2. QED
    BY <1>4, <1>6, <2>1 DEF FilesInv, Paired
<1>9. TailsExplained'
  BY <1>3, <1>4 DEF FilesInv, TailsExplained, Result
<1>10. QED
  BY <1>4, <1>5, <1>7, <1>8, <1>9 DEF FilesInv, Stopped

LEMMA DumpBodyFailsFiles == ASSUME FilesInv, NEW n \in renaming, DumpBodyFails(n) PROVE FilesInv'
<1>1. Types /\ n \in NameType
  BY DEF FilesInv, Types
<1>2. /\ UNCHANGED <<levels, dumped, merge, index, body, mergeFile, saved, cut, files, calls, crashes>>
      /\ state' = "up" /\ failures' = failures + 1
      /\ renaming' = renaming \ {n} /\ torn' = torn \cup {n}
  BY DEF DumpBodyFails, Change, directory
<1>3. Types'
  BY <1>1, <1>2 DEF Types
<1>4. Numbered'
  BY <1>2 DEF FilesInv, Numbered, Names
<1>5. Paired'
  BY <1>2, PairedStays DEF FilesInv
<1>6. TailsExplained'
  BY <1>1, <1>2, <1>3, TailsCounted
<1>7. QED
  BY <1>2, <1>3, <1>4, <1>5, <1>6 DEF FilesInv, Stopped

\* The level of a dump becomes a file in its place.
LEMMA PublishedAt ==
    ASSUME Types, NEW n \in dumped, PublishDump(n)
    PROVE  /\ levels' \in Seq(LevelType) /\ DOMAIN levels' = DOMAIN levels
           /\ \A i \in DOMAIN levels :
                 /\ ~levels[i].file /\ levels[i].sub_index = n.sub_index => levels'[i] = InFile(levels[i], n.uniq)
                 /\ levels[i].file \/ levels[i].sub_index # n.sub_index => levels'[i] = levels[i]
<1>1. levels' = [i \in DOMAIN levels |->
                    IF ~levels[i].file /\ levels[i].sub_index = n.sub_index
                    THEN InFile(levels[i], n.uniq) ELSE levels[i]]
  BY DEF PublishDump
<1>2. PICK m \in Nat : DOMAIN levels = 1 .. m
  BY Lists DEF Types
<1>3. n.uniq \in Nat
  BY DEF Types, NameType
<1>4. \A i \in 1 .. m : levels[i] \in LevelType /\ InFile(levels[i], n.uniq) \in LevelType
  BY <1>2, <1>3, LevelAt, LevelParts, InFileIs
<1>5. levels' \in [1 .. m -> LevelType]
  BY <1>1, <1>2, <1>4
<1>6. levels' \in Seq(LevelType)
  BY <1>5, SeqDef
<1>7. QED
  BY <1>1, <1>6

LEMMA PublishDumpFiles == ASSUME FilesInv, NEW n \in dumped, PublishDump(n) PROVE FilesInv'
<1>1. Types /\ n \in NameType
  BY DEF FilesInv, Types
<1>2. /\ UNCHANGED <<renaming, merge, index, body, mergeFile, saved, torn, cut, files, calls, failures, crashes>>
      /\ state' = "up" /\ dumped' = dumped \ {n}
  BY DEF PublishDump, Change, directory, history, bounds
<1>3. levels' \in Seq(LevelType) /\ DOMAIN levels' = DOMAIN levels
  BY <1>1, PublishedAt
<1>4. Types'
  BY <1>1, <1>2, <1>3 DEF Types
<1>5. ASSUME NEW i \in DOMAIN levels', levels'[i].file PROVE levels'[i].uniq_index < files
  <2>1. CASE ~levels[i].file /\ levels[i].sub_index = n.sub_index
    <3>1. levels'[i] = InFile(levels[i], n.uniq)
      BY <1>1, <1>3, <2>1, PublishedAt
    <3>2. n.uniq \in Nat /\ n.uniq < files
      BY <1>1 DEF FilesInv, Numbered, NameType
    <3>3. levels'[i].uniq_index = n.uniq
      <4>1. levels[i] \in LevelType
        BY <1>1, <1>3, LevelAt
      <4>2. levels[i].index \in Nat /\ levels[i].sub_index \in Nat /\ levels[i].map \in Maps
        BY <4>1, LevelParts
      <4>3. QED
        BY <3>1, <3>2, <4>2, InFileIs
    <3>4. QED
      BY <3>2, <3>3
  <2>2. CASE levels[i].file \/ levels[i].sub_index # n.sub_index
    <3>1. levels'[i] = levels[i]
      BY <1>1, <1>3, <2>2, PublishedAt
    <3>2. QED
      BY <1>3, <1>5, <3>1 DEF FilesInv, Numbered
  <2>3. QED
    BY <2>1, <2>2
<1>6. Numbered'
  BY <1>2, <1>5 DEF FilesInv, Numbered, Names
<1>7. Paired'
  BY <1>2, PairedStays DEF FilesInv
<1>8. TailsExplained'
  BY <1>1, <1>2, <1>4, TailsStay DEF FilesInv
<1>9. QED
  BY <1>2, <1>4, <1>6, <1>7, <1>8 DEF FilesInv, Stopped

\* A merge takes files of the map.
LEMMA BegunIs ==
    ASSUME Types, BeginMerge
    PROVE  \E p \in Ascending(FirstOfCell(MergeLevels(levels))), ms \in Seq(LevelType) :
              /\ ms = Select(MergeLevels(levels), p) /\ ms # <<>>
              /\ merge' = [NoMerge EXCEPT !.step = "writing", !.sources = ms]
              /\ \A j \in DOMAIN ms : ms[j] \in ToSet(levels) /\ ms[j].file
<1>1. PICK all : all = MergeLevels(levels)
  OBVIOUS
<1>2. /\ all \in Seq(LevelType)
      /\ \A j \in DOMAIN all : \E i \in DOMAIN levels : levels[i] = all[j] /\ levels[i].file
  BY <1>1, MergeLevelsType DEF Types
<1>3. PICK p \in Ascending(FirstOfCell(all)) :
         Len(p) > 1 /\ merge' = [NoMerge EXCEPT !.step = "writing", !.sources = Select(all, p)]
  BY <1>1 DEF BeginMerge
<1>4. PICK ms : ms = Select(all, p)
  OBVIOUS
<1>5. FirstOfCell(all) \in SUBSET DOMAIN all
  BY DEF FirstOfCell
<1>6. /\ ms \in Seq(LevelType) /\ DOMAIN ms = DOMAIN p
      /\ \A j \in DOMAIN p : p[j] \in FirstOfCell(all) /\ ms[j] = all[p[j]]
  BY <1>2, <1>4, <1>5, Selected
<1>7. ms # <<>>
  <2>1. PICK c : c = Cardinality(FirstOfCell(all))
    OBVIOUS
  <2>2. p \in [1 .. c -> FirstOfCell(all)]
    BY <2>1 DEF Ascending
  <2>3. IsFiniteSet(FirstOfCell(all))
    <3>1. IsFiniteSet(DOMAIN all)
      BY <1>2, Lists, FS_Interval
    <3>2. QED
      BY <1>5, <3>1, FS_Subset
  <2>4. c \in Nat
    BY <2>1, <2>3, FS_CardinalityType
  <2>5. Len(p) = c
    BY <2>2, <2>4
  <2>6. 1 \in DOMAIN p
    BY <1>3, <2>2, <2>4, <2>5
  <2>7. QED
    BY <1>6, <2>6
<1>8. \A j \in DOMAIN ms : ms[j] \in ToSet(levels) /\ ms[j].file
  BY <1>2, <1>5, <1>6, InSet
<1>9. QED
  BY <1>1, <1>3, <1>4, <1>6, <1>7, <1>8

LEMMA BeginMergeFiles == ASSUME FilesInv, BeginMerge PROVE FilesInv'
<1>1. Types
  BY DEF FilesInv
<1>2. PICK ms \in Seq(LevelType) :
         /\ ms # <<>> /\ merge' = [NoMerge EXCEPT !.step = "writing", !.sources = ms]
         /\ \A j \in DOMAIN ms : ms[j] \in ToSet(levels) /\ ms[j].file
  BY <1>1, BegunIs
<1>3. merge' = [step |-> "writing", sources |-> ms, uniq |-> 0]
  BY <1>2 DEF NoMerge
<1>4. merge' \in MergeType /\ merge'.step = "writing" /\ merge'.sources = ms
  BY <1>3 DEF MergeType, Steps
<1>5. /\ UNCHANGED <<levels, renaming, dumped, index, body, mergeFile, saved, torn, cut,
                     files, calls, failures, crashes>>
      /\ state' = "up" /\ merge = NoMerge
  BY DEF BeginMerge, Change, directory, history, bounds
<1>6. Types'
  BY <1>1, <1>2, <1>4, <1>5 DEF Types
<1>7. Numbered'
  <2>1. \A j \in DOMAIN ms : ms[j].file /\ ms[j].uniq_index < files
    BY <1>2, InSet DEF FilesInv, Numbered
  <2>2. QED
    BY <1>4, <1>5, <2>1 DEF FilesInv, Numbered, Names
<1>8. Paired'
  BY <1>4, <1>5, NoMergeIs DEF FilesInv, Paired, Unfinished, Names
<1>9. TailsExplained'
  BY <1>4, <1>5, NoMergeIs DEF FilesInv, TailsExplained
<1>10. QED
  BY <1>5, <1>6, <1>7, <1>8, <1>9 DEF FilesInv, Stopped

LEMMA WriteMergeFiles == ASSUME FilesInv, WriteMerge PROVE FilesInv'
<1>1. Types /\ merge \in MergeType /\ merge.step = "writing"
  BY DEF FilesInv, Types, WriteMerge
<1>2. PICK size : size = SizeOf(Result.map)
  OBVIOUS
<1>3. size \in Nat
  BY <1>2, SizeOfIs
<1>4. /\ UNCHANGED <<levels, renaming, dumped, index, body, saved, torn, cut, files, calls, failures, crashes>>
      /\ state' = "up" /\ mergeFile' = Longer(size) /\ merge' = [merge EXCEPT !.step = "written"]
  BY <1>2 DEF WriteMerge, Change, history, bounds
<1>5. merge' \in MergeType /\ merge'.step = "written" /\ merge'.sources = merge.sources /\ merge'.uniq = merge.uniq
  BY <1>1, <1>4 DEF MergeType, Steps
<1>6. Types'
  <2>1. Longer(size) \in SizeType_
    BY <1>1, <1>3, Longest
  <2>2. merge.sources # <<>>
    BY <1>1 DEF Types
  <2>3. QED
    BY <1>1, <1>4, <1>5, <2>1, <2>2 DEF Types
<1>7. Numbered'
  BY <1>4, <1>5 DEF FilesInv, Numbered, Names
<1>8. Paired'
  BY <1>1, <1>4, <1>5 DEF FilesInv, Paired, Unfinished, Names
<1>9. TailsExplained'
  <2>1. ASSUME crashes + failures = 0
        PROVE  mergeFile'.index = size /\ mergeFile'.body = size
    <3>1. mergeFile.index = 0 /\ mergeFile.body = 0
      BY <1>1, <2>1 DEF FilesInv, TailsExplained
    <3>2. OrLonger(0, size) = size
      BY <1>3 DEF OrLonger
    <3>3. QED
      BY <1>4, <3>1, <3>2 DEF Longer
  <2>2. SizeOf(Result.map)' = size
    BY <1>2, <1>5 DEF Result, SizeOf
  <2>3. QED
    BY <1>4, <1>5, <2>1, <2>2 DEF FilesInv, TailsExplained
<1>10. QED
  BY <1>4, <1>6, <1>7, <1>8, <1>9 DEF FilesInv, Stopped

LEMMA WriteMergeFailsFiles == ASSUME FilesInv, WriteMergeFails PROVE FilesInv'
<1>1. Types /\ merge.step = "writing"
  BY DEF FilesInv, WriteMergeFails
<1>2. /\ UNCHANGED <<levels, renaming, dumped, index, body, saved, torn, cut, files, calls, crashes>>
      /\ state' = "up" /\ mergeFile' = NoFiles /\ merge' = NoMerge /\ failures' = failures + 1
  BY DEF WriteMergeFails, Change, history
<1>3. Types'
  <2>1. NoFiles \in SizeType_
    BY DEF NoFiles, SizeType_
  <2>2. QED
    BY <1>1, <1>2, <2>1, NoMergeIs DEF Types
<1>4. Numbered'
  BY <1>2, NoMergeIs DEF FilesInv, Numbered, Names
<1>5. Paired'
  BY <1>1, <1>2, NoMergeIs DEF FilesInv, Paired, Unfinished, Names
<1>6. TailsExplained'
  BY <1>1, <1>2, <1>3, TailsCounted
<1>7. QED
  BY <1>2, <1>3, <1>4, <1>5, <1>6 DEF FilesInv, Stopped

LEMMA RenamedIndexIs ==
    ASSUME Types, RenameMergeIndex
    PROVE  /\ merge.step = "written" /\ state' = "up" /\ files' = files + 1
           /\ merge' \in MergeType /\ merge'.step = "renaming"
           /\ merge'.sources = merge.sources /\ merge'.uniq = files
           /\ Result' = Result /\ Unfinished' = {ResultName'}
           /\ \E f \in FileType :
                 /\ index' = index \cup {f} /\ f.name = ResultName' /\ f.name.uniq = files
                 /\ f.map = Result.map /\ f.tail = (mergeFile.index > SizeOf(Result.map))
<1>1. /\ merge.step = "written" /\ state' = "up" /\ files' = files + 1 /\ merge \in MergeType
      /\ merge' = [merge EXCEPT !.step = "renaming", !.uniq = files]
      /\ index' = index \cup {Index(Name(Result, files), Result.map, Tail_(mergeFile.index))}
  BY DEF RenameMergeIndex, Change, Types
<1>2. /\ merge' \in MergeType /\ merge'.step = "renaming"
      /\ merge'.sources = merge.sources /\ merge'.uniq = files
  BY <1>1 DEF MergeType, Steps, Types
<1>3. Result' = Result
  BY <1>2 DEF Result
<1>4. merge.step # "none" /\ files \in Nat
  BY <1>1 DEF Types
<1>5. Result \in LevelType /\ Result.map \in Maps
  BY <1>4, ResultIs
<1>6. PICK n : n = Name(Result, files)
  OBVIOUS
<1>7. n \in NameType /\ n.uniq = files
  BY <1>4, <1>5, <1>6, NameIs
<1>8. n = ResultName'
  BY <1>2, <1>3, <1>6 DEF ResultName, Name
<1>9. PICK t \in BOOLEAN : t = Tail_(mergeFile.index)
  <2>1. mergeFile.index \in Nat /\ SizeOf(Result.map) \in Nat
    BY SizeOfIs DEF Types, SizeType_
  <2>2. (mergeFile.index > SizeOf(Result.map)) \in BOOLEAN
    BY <2>1
  <2>3. QED
    BY <2>2 DEF Tail_
<1>10. PICK f : f = Index(n, Result.map, t)
  OBVIOUS
<1>11. f \in FileType /\ f.name = n /\ f.map = Result.map /\ f.tail = t
  BY <1>5, <1>7, <1>10 DEF Index, FileType
<1>12. index' = index \cup {f}
  BY <1>1, <1>6, <1>9, <1>10
<1>13. Unfinished' = {ResultName'}
  BY <1>2 DEF Unfinished
<1>14. f.tail = (mergeFile.index > SizeOf(Result.map))
  BY <1>9, <1>11 DEF Tail_
<1>15. QED
  BY <1>1, <1>2, <1>3, <1>7, <1>8, <1>11, <1>12, <1>13, <1>14

LEMMA RenameMergeIndexFiles == ASSUME FilesInv, RenameMergeIndex PROVE FilesInv'
<1>1. Types
  BY DEF FilesInv
<1>2. /\ merge.step = "written" /\ state' = "up" /\ files' = files + 1
      /\ merge' \in MergeType /\ merge'.step = "renaming"
      /\ merge'.sources = merge.sources /\ merge'.uniq = files
      /\ Result' = Result /\ Unfinished' = {ResultName'}
  BY <1>1, RenamedIndexIs
<1>3. PICK f \in FileType :
         /\ index' = index \cup {f} /\ f.name = ResultName' /\ f.name.uniq = files
         /\ f.tail = (mergeFile.index > SizeOf(Result.map))
  BY <1>1, RenamedIndexIs
<1>4. /\ UNCHANGED <<levels, renaming, dumped, body, saved, torn, cut, calls, failures, crashes>>
      /\ mergeFile' = [mergeFile EXCEPT !.index = 0]
  BY DEF RenameMergeIndex, history
<1>5. mergeFile \in SizeType_ /\ mergeFile' \in SizeType_ /\ mergeFile'.index = 0 /\ mergeFile'.body = mergeFile.body
  BY <1>1, <1>4 DEF Types, SizeType_
<1>6. Types'
  <2>1. merge.sources # <<>>
    BY <1>1, <1>2 DEF Types
  <2>2. IsFiniteSet(index')
    BY <1>1, <1>3, FS_AddElement DEF Types
  <2>3. QED
    BY <1>1, <1>2, <1>3, <1>4, <1>5, <2>1, <2>2 DEF Types
<1>7. Names(index') = Names(index) \cup {f.name} /\ Names(body') = Names(body)
  BY <1>3, <1>4 DEF Names
<1>8. Numbered'
  <2>1. files \in Nat /\ files < files + 1 /\ \A x \in Nat : x < files => x < files + 1
    BY <1>1 DEF Types
  <2>2. \A m \in renaming \cup dumped \cup torn \cup Names(index) \cup Names(body) :
            m.uniq < files /\ m.uniq \in Nat
    BY <1>1 DEF FilesInv, Numbered, Types, Names, FileType, BodyType, NameType
  <2>3. \A m \in renaming' \cup dumped' \cup torn' \cup Names(index') \cup Names(body') : m.uniq < files + 1
    BY <1>3, <1>4, <1>7, <2>1, <2>2
  <2>4. \A j \in DOMAIN levels : levels[j].file => levels[j].uniq_index < files + 1
    BY <1>1, <2>1, LevelAt, LevelParts DEF FilesInv, Numbered
  <2>5. \A j \in DOMAIN merge.sources :
           merge.sources[j].file /\ merge.sources[j].uniq_index < files + 1
    <3>1. \A j \in DOMAIN merge.sources : merge.sources[j] \in LevelType
      BY <1>1, MergeIs, Lists DEF Types
    <3>2. QED
      BY <2>1, <3>1, LevelParts DEF FilesInv, Numbered
  <2>6. QED
    BY <1>2, <1>4, <2>1, <2>3, <2>4, <2>5 DEF Numbered
<1>9. Paired'
  <2>1. Unfinished = {}
    BY <1>2 DEF Unfinished
  <2>2. \A g \in index' : g.name \in renaming' \cup torn' \cup Unfinished' \cup Names(body')
    BY <1>2, <1>3, <1>4, <1>7, <2>1 DEF FilesInv, Paired
  <2>3. QED
    BY <1>2, <2>2 DEF Paired
<1>10. TailsExplained'
  <2>1. ASSUME crashes + failures = 0
        PROVE  ~f.tail /\ mergeFile.body = SizeOf(Result.map)
    <3>1. mergeFile.index = SizeOf(Result.map) /\ mergeFile.body = SizeOf(Result.map)
      BY <1>2, <2>1 DEF FilesInv, TailsExplained
    <3>2. SizeOf(Result.map) \in Nat
      BY SizeOfIs
    <3>3. ~(mergeFile.index > SizeOf(Result.map))
      BY <3>1, <3>2
    <3>4. QED
      BY <1>3, <3>1, <3>3
  <2>2. SizeOf(Result.map)' = SizeOf(Result.map)
    BY <1>2 DEF SizeOf
  <2>3. QED
    BY <1>2, <1>3, <1>4, <1>5, <2>1, <2>2 DEF FilesInv, TailsExplained
<1>11. QED
  BY <1>2, <1>6, <1>8, <1>9, <1>10 DEF FilesInv, Stopped

LEMMA RenameMergeFailsFiles == ASSUME FilesInv, RenameMergeFails PROVE FilesInv'
<1>1. Types /\ merge.step = "renaming"
  BY DEF FilesInv, RenameMergeFails
<1>2. /\ UNCHANGED <<levels, renaming, dumped, index, body, mergeFile, saved, cut, files, calls, crashes>>
      /\ state' = "up" /\ merge' = NoMerge /\ failures' = failures + 1 /\ torn' = torn \cup {ResultName}
  BY DEF RenameMergeFails, Change, directory
<1>3. Unfinished = {ResultName} /\ Unfinished' = {}
  BY <1>1, <1>2, NoMergeIs DEF Unfinished
<1>4. ResultName \in NameType /\ ResultName.uniq < files
  BY <1>1, <1>3, UnfinishedIs DEF FilesInv
<1>5. Types'
  BY <1>1, <1>2, <1>4, NoMergeIs DEF Types
<1>6. Numbered'
  BY <1>2, <1>4, NoMergeIs DEF FilesInv, Numbered, Names
<1>7. Paired'
  <2>1. Names(body') = Names(body)
    BY <1>2 DEF Names
  <2>2. \A g \in index' : g.name \in renaming' \cup torn' \cup Unfinished' \cup Names(body')
    BY <1>2, <1>3, <2>1 DEF FilesInv, Paired
  <2>3. QED
    BY <1>2, <2>2, NoMergeIs DEF Paired
<1>8. TailsExplained'
  BY <1>1, <1>2, <1>5, TailsCounted
<1>9. QED
  BY <1>2, <1>5, <1>6, <1>7, <1>8 DEF FilesInv, Stopped

LEMMA SelectedIn ==
    ASSUME NEW ls \in Seq(LevelType), NEW ms, NEW p \in Ascending(Unmerged(ls, ms)), NEW l \in LevelType,
           NEW new, new = InsertLevel(Select(ls, p), l)
    PROVE  new \in Seq(LevelType) /\ \A i \in DOMAIN new : new[i] = l \/ \E j \in DOMAIN ls : new[i] = ls[j]
<1>1. Unmerged(ls, ms) \in SUBSET DOMAIN ls
  BY DEF Unmerged
<1>2. PICK kept :
        /\ kept = Select(ls, p) /\ kept \in Seq(LevelType) /\ DOMAIN kept = DOMAIN p
        /\ \A i \in DOMAIN p : p[i] \in Unmerged(ls, ms) /\ kept[i] = ls[p[i]]
  BY <1>1, Selected
<1>3. PICK c \in 0 .. Len(kept) :
         /\ new \in Seq(LevelType) /\ Len(new) = Len(kept) + 1
         /\ \A i \in 1 .. Len(kept) + 1 :
               new[i] = IF i <= c THEN kept[i] ELSE IF i = c + 1 THEN l ELSE kept[i - 1]
  <2> DEFINE C == Cardinality({i \in DOMAIN kept : Less(kept[i], l)})
  <2>1. new = InsertLevel(kept, l)
    BY <1>2
  <2>2. kept \in Seq(LevelType)
    BY <1>2
  <2>3. /\ C \in 0 .. Len(kept) /\ InsertLevel(kept, l) \in Seq(LevelType)
        /\ Len(InsertLevel(kept, l)) = Len(kept) + 1
        /\ \A i \in 1 .. Len(kept) + 1 :
              InsertLevel(kept, l)[i] = IF i <= C THEN kept[i] ELSE IF i = C + 1 THEN l ELSE kept[i - 1]
    BY <2>2, Inserted
  <2> HIDE DEF C
  <2>4. QED
    BY <2>1, <2>3
<1>4. PICK n \in Nat : n = Len(kept) /\ DOMAIN kept = 1 .. n /\ DOMAIN new = 1 .. n + 1
  BY <1>2, <1>3, Lists
<1>5. ASSUME NEW i \in 1 .. n + 1 PROVE new[i] = l \/ \E j \in DOMAIN kept : new[i] = kept[j]
  <2>1. CASE i <= c
    <3>1. i \in 1 .. n
      BY <1>4, <2>1
    <3>2. QED
      BY <1>3, <1>4, <2>1, <3>1
  <2>2. CASE i = c + 1
    BY <1>3, <1>4, <2>2
  <2>3. CASE i > c + 1
    <3>1. i - 1 \in 1 .. n
      BY <1>4, <2>3
    <3>2. new[i] = kept[i - 1]
      BY <1>3, <1>4, <2>3
    <3>3. QED
      BY <1>4, <3>1, <3>2
  <2>4. QED
    BY <1>4, <2>1, <2>2, <2>3
<1>6. \A j \in DOMAIN kept : \E i \in DOMAIN ls : kept[j] = ls[i]
  BY <1>1, <1>2
<1>7. QED
  BY <1>3, <1>4, <1>5, <1>6

LEMMA RenamedBodyIs ==
    ASSUME Types, RenameMergeBody
    PROVE  /\ merge.step = "renaming" /\ state' = "up"
           /\ merge' \in MergeType /\ merge'.step = "unlinkIndex" /\ merge'.sources = merge.sources
           /\ merge'.uniq = merge.uniq
           /\ \E b \in BodyType :
                 /\ body' = body \cup {b} /\ b.name = ResultName
                 /\ b.tail = (mergeFile.body > SizeOf(Result.map))
<1>1. /\ merge.step = "renaming" /\ state' = "up" /\ merge \in MergeType
      /\ merge' = [merge EXCEPT !.step = "unlinkIndex"]
      /\ body' = body \cup {Body(ResultName, Tail_(mergeFile.body))}
  BY DEF RenameMergeBody, Change, Types
<1>2. /\ merge' \in MergeType /\ merge'.step = "unlinkIndex" /\ merge'.sources = merge.sources
      /\ merge'.uniq = merge.uniq
  BY <1>1 DEF MergeType, Steps
<1>3. ResultName \in NameType
  <2>1. merge.step # "none"
    BY <1>1
  <2>2. QED
    BY <2>1, ResultIs
<1>4. PICK t \in BOOLEAN : t = Tail_(mergeFile.body)
  <2>1. mergeFile.body \in Nat /\ SizeOf(Result.map) \in Nat
    BY SizeOfIs DEF Types, SizeType_
  <2>2. (mergeFile.body > SizeOf(Result.map)) \in BOOLEAN
    BY <2>1
  <2>3. QED
    BY <2>2 DEF Tail_
<1>5. PICK b : b = Body(ResultName, t)
  OBVIOUS
<1>6. b \in BodyType /\ b.name = ResultName /\ b.tail = t
  BY <1>3, <1>5 DEF Body, BodyType
<1>7. body' = body \cup {b} /\ b.tail = (mergeFile.body > SizeOf(Result.map))
  BY <1>1, <1>4, <1>5, <1>6 DEF Tail_
<1>8. QED
  BY <1>1, <1>2, <1>6, <1>7

LEMMA RenameMergeBodyFiles == ASSUME FilesInv, RenameMergeBody PROVE FilesInv'
<1>1. Types
  BY DEF FilesInv
<1>2. /\ merge.step = "renaming" /\ state' = "up"
      /\ merge' \in MergeType /\ merge'.step = "unlinkIndex" /\ merge'.sources = merge.sources
  BY <1>1, RenamedBodyIs
<1>3. PICK b \in BodyType :
         /\ body' = body \cup {b} /\ b.name = ResultName
         /\ b.tail = (mergeFile.body > SizeOf(Result.map))
  BY <1>1, RenamedBodyIs
<1>4. /\ UNCHANGED <<renaming, dumped, index, saved, torn, files, calls, failures, crashes>>
      /\ mergeFile' = [mergeFile EXCEPT !.body = 0] /\ cut' \in {"never", "among", "since"}
  BY <1>1 DEF RenameMergeBody, bounds, Types
<1>5. mergeFile \in SizeType_ /\ mergeFile' \in SizeType_ /\ mergeFile'.index = mergeFile.index /\ mergeFile'.body = 0
  BY <1>1, <1>4 DEF Types, SizeType_
<1>6. merge.step # "none"
  BY <1>2
<1>7. PICK l : l = InFile(Result, merge.uniq)
  OBVIOUS
<1>8. l \in LevelType /\ l.uniq_index = merge.uniq
  <2>1. Result \in LevelType /\ merge.uniq \in Nat
    BY <1>1, <1>6, ResultIs
  <2>2. Result.index \in Nat /\ Result.sub_index \in Nat /\ Result.map \in Maps
    BY <2>1, LevelParts
  <2>3. QED
    BY <1>7, <2>1, <2>2, InFileIs
<1>9. PICK p \in Ascending(Unmerged(levels, merge.sources)) : levels' = InsertLevel(Select(levels, p), l)
  BY <1>7 DEF RenameMergeBody
<1>10. /\ levels' \in Seq(LevelType)
       /\ \A i \in DOMAIN levels' : levels'[i] = l \/ \E j \in DOMAIN levels : levels'[i] = levels[j]
  BY <1>1, <1>8, <1>9, SelectedIn DEF Types
<1>11. Types'
  <2>1. merge.sources # <<>>
    BY <1>1, <1>6 DEF Types
  <2>2. QED
    BY <1>1, <1>2, <1>3, <1>4, <1>5, <1>10, <2>1 DEF Types
<1>12. Names(body') = Names(body) \cup {ResultName} /\ Names(index') = Names(index)
  BY <1>3, <1>4 DEF Names
<1>13. Unfinished = {ResultName} /\ Unfinished' = {}
  BY <1>2 DEF Unfinished
<1>14. Numbered'
  <2>1. ResultName.uniq < files /\ l.uniq_index < files
    BY <1>1, <1>2, <1>8, <1>13, UnfinishedIs DEF FilesInv, Numbered
  <2>2. \A i \in DOMAIN levels' : levels'[i].file => levels'[i].uniq_index < files
    BY <1>10, <2>1 DEF FilesInv, Numbered
  <2>3. QED
    BY <1>2, <1>4, <1>12, <2>1, <2>2 DEF FilesInv, Numbered
<1>15. Paired'
  <2>1. \A g \in index' : g.name \in renaming' \cup torn' \cup Unfinished' \cup Names(body')
    BY <1>4, <1>12, <1>13 DEF FilesInv, Paired
  <2>2. QED
    BY <1>2, <2>1 DEF Paired
<1>16. TailsExplained'
  <2>1. ASSUME crashes + failures = 0 PROVE ~b.tail /\ mergeFile.index = 0
    <3>1. mergeFile.index = 0 /\ mergeFile.body = SizeOf(Result.map)
      BY <1>2, <2>1 DEF FilesInv, TailsExplained
    <3>2. SizeOf(Result.map) \in Nat
      BY SizeOfIs
    <3>3. ~(mergeFile.body > SizeOf(Result.map))
      BY <3>1, <3>2
    <3>4. QED
      BY <1>3, <3>1, <3>3
  <2>2. QED
    BY <1>2, <1>3, <1>4, <1>5, <2>1 DEF FilesInv, TailsExplained
<1>17. QED
  BY <1>2, <1>11, <1>14, <1>15, <1>16 DEF FilesInv, Stopped

LEMMA TailIs ==
    ASSUME NEW s \in Seq(LevelType), s # <<>>
    PROVE  /\ Tail(s) \in Seq(LevelType) /\ Head(s) \in LevelType /\ Head(s) = s[1] /\ 1 \in DOMAIN s
           /\ \A x : (\E i \in DOMAIN s : x = s[i]) <=> x = Head(s) \/ \E i \in DOMAIN Tail(s) : x = Tail(s)[i]
<1>1. PICK n \in Nat : n = Len(s) /\ n > 0 /\ DOMAIN s = 1 .. n
  <2>1. Len(s) # 0
    OBVIOUS
  <2>2. QED
    BY <2>1, Lists
<1>2. PICK t \in Seq(LevelType) : t = Tail(s) /\ Len(t) = n - 1 /\ \A i \in 1 .. n - 1 : t[i] = s[i + 1]
  <2>1. PICK t : t = Tail(s)
    OBVIOUS
  <2>2. t \in Seq(LevelType) /\ Len(t) = Len(s) - 1 /\ \A i \in 1 .. Len(t) : t[i] = s[i + 1]
    BY <2>1, HeadTailProperties
  <2>3. QED
    BY <1>1, <2>1, <2>2
<1>3. DOMAIN t = 1 .. n - 1
  BY <1>1, <1>2, Lists
<1>4. Head(s) = s[1] /\ 1 \in DOMAIN s /\ Head(s) \in LevelType
  BY <1>1, Lists
<1>5. ASSUME NEW i \in 1 .. n PROVE i = 1 \/ (i - 1 \in 1 .. n - 1 /\ s[i] = t[i - 1])
  <2>1. CASE i # 1
    <3>1. i - 1 \in 1 .. n - 1 /\ (i - 1) + 1 = i
      BY <1>1, <2>1
    <3>2. QED
      BY <1>2, <3>1
  <2>2. QED
    BY <2>1
<1>6. \A i \in 1 .. n - 1 : i + 1 \in 1 .. n /\ t[i] = s[i + 1]
  BY <1>1, <1>2
<1>7. ASSUME NEW x PROVE (\E i \in DOMAIN s : x = s[i]) <=> x = Head(s) \/ \E i \in DOMAIN t : x = t[i]
  <2>1. ASSUME NEW i \in 1 .. n, x = s[i] PROVE x = s[1] \/ \E j \in 1 .. n - 1 : x = t[j]
    BY <1>5, <2>1
  <2>2. ASSUME NEW j \in 1 .. n - 1, x = t[j] PROVE \E i \in 1 .. n : x = s[i]
    BY <1>6, <2>2
  <2>3. QED
    BY <1>1, <1>3, <1>4, <2>1, <2>2
<1>8. QED
  BY <1>2, <1>4, <1>7

LEMMA UnlinkIndexFiles == ASSUME FilesInv, UnlinkIndex PROVE FilesInv'
<1>1. Types /\ merge.step = "unlinkIndex" /\ merge \in MergeType
  BY DEF FilesInv, UnlinkIndex, Types
<1>2. /\ UNCHANGED <<levels, renaming, dumped, body, mergeFile, saved, torn, cut, files, calls, failures, crashes>>
      /\ state' = "up" /\ merge' = [merge EXCEPT !.step = "unlinkBody"]
      /\ index' = {f \in index : f.name /= NameOf(Head(merge.sources))}
  BY DEF UnlinkIndex, Change, history, bounds
<1>3. merge' \in MergeType /\ merge'.step = "unlinkBody" /\ merge'.sources = merge.sources
  BY <1>1, <1>2 DEF MergeType, Steps
<1>4. Types'
  <2>1. IsFiniteSet(index')
    BY <1>1, <1>2, FS_Subset DEF Types
  <2>2. merge.sources # <<>>
    BY <1>1 DEF Types
  <2>3. QED
    BY <1>1, <1>2, <1>3, <2>1, <2>2 DEF Types
<1>5. Numbered'
  <2>1. Names(index') \subseteq Names(index) /\ Names(body') = Names(body)
    BY <1>2 DEF Names
  <2>2. QED
    BY <1>2, <1>3, <2>1 DEF FilesInv, Numbered
<1>6. Paired'
  <2>1. Unfinished = {} /\ Names(body') = Names(body)
    BY <1>1, <1>2 DEF Unfinished, Names
  <2>2. \A f \in index' : f.name \in renaming' \cup torn' \cup Unfinished' \cup Names(body')
    BY <1>2, <2>1 DEF FilesInv, Paired
  <2>3. NameOf(Head(merge'.sources)) \notin Names(index')
    BY <1>2, <1>3 DEF Names
  <2>4. QED
    BY <2>2, <2>3 DEF Paired
<1>7. TailsExplained'
  BY <1>1, <1>2, <1>3 DEF FilesInv, TailsExplained
<1>8. QED
  BY <1>2, <1>4, <1>5, <1>6, <1>7 DEF FilesInv, Stopped

\* The next source, or the end of the merge.
LEMMA UnlinkedIs ==
    ASSUME Types, UnlinkBody
    PROVE  /\ merge'.step \in {"none", "unlinkIndex"} /\ merge' \in MergeType
           /\ merge'.step # "none" => merge'.sources # <<>>
           /\ \A x : (\E i \in DOMAIN merge.sources : x = merge.sources[i])
                        <=> x = Head(merge.sources)
                            \/ \E i \in DOMAIN merge'.sources : x = merge'.sources[i]
           /\ merge'.step = "none" => merge'.sources = <<>>
<1>1. /\ merge.step = "unlinkBody" /\ merge \in MergeType /\ merge.sources \in Seq(LevelType)
      /\ merge.sources # <<>>
  BY MergeIs DEF UnlinkBody, Types
<1>2. /\ Remaining \in Seq(LevelType)
      /\ \A x : (\E i \in DOMAIN merge.sources : x = merge.sources[i])
                   <=> x = Head(merge.sources) \/ \E i \in DOMAIN Remaining : x = Remaining[i]
  BY <1>1, TailIs DEF Remaining
<1>3. CASE Remaining = <<>>
  <2>1. merge' = NoMerge
    BY <1>3 DEF UnlinkBody
  <2>2. QED
    BY <1>2, <1>3, <2>1, NoMergeIs
<1>4. CASE Remaining # <<>>
  <2>1. merge' = [merge EXCEPT !.step = "unlinkIndex", !.sources = Remaining]
    BY <1>4 DEF UnlinkBody
  <2>2. merge' \in MergeType /\ merge'.step = "unlinkIndex" /\ merge'.sources = Remaining
    BY <1>1, <1>2, <2>1 DEF MergeType, Steps
  <2>3. QED
    BY <1>2, <1>4, <2>2
<1>5. QED
  BY <1>3, <1>4

LEMMA UnlinkBodyFiles == ASSUME FilesInv, UnlinkBody PROVE FilesInv'
<1>1. Types /\ merge.step = "unlinkBody"
  BY DEF FilesInv, UnlinkBody
<1>2. /\ UNCHANGED <<levels, renaming, dumped, index, mergeFile, saved, torn, cut, files, calls, failures, crashes>>
      /\ state' = "up"
      /\ body' = {b \in body : b.name /= NameOf(Head(merge.sources))}
  BY DEF UnlinkBody, Change, history, bounds
<1>3. /\ merge'.step \in {"none", "unlinkIndex"} /\ merge' \in MergeType
      /\ merge'.step # "none" => merge'.sources # <<>>
      /\ \A i \in DOMAIN merge'.sources : \E j \in DOMAIN merge.sources : merge'.sources[i] = merge.sources[j]
  BY <1>1, UnlinkedIs
<1>4. Types'
  BY <1>1, <1>2, <1>3 DEF Types
<1>5. Numbered'
  <2>1. Names(index') = Names(index) /\ Names(body') \subseteq Names(body)
    BY <1>2 DEF Names
  <2>2. \A i \in DOMAIN merge'.sources : merge'.sources[i].file /\ merge'.sources[i].uniq_index < files
    BY <1>3 DEF FilesInv, Numbered
  <2>3. QED
    BY <1>2, <1>3, <2>1, <2>2 DEF FilesInv, Numbered
<1>6. Paired'
  <2>1. Unfinished = {} /\ Names(body') = Names(body) \ {NameOf(Head(merge.sources))}
    BY <1>1, <1>2 DEF Unfinished, Names
  <2>2. \A f \in index : f.name # NameOf(Head(merge.sources))
    BY <1>1 DEF FilesInv, Paired, Names
  <2>3. \A f \in index' : f.name \in renaming' \cup torn' \cup Unfinished' \cup Names(body')
    BY <1>2, <2>1, <2>2 DEF FilesInv, Paired
  <2>4. QED
    BY <1>3, <2>3 DEF Paired
<1>7. TailsExplained'
  BY <1>1, <1>2, <1>3 DEF FilesInv, TailsExplained
<1>8. QED
  BY <1>2, <1>4, <1>5, <1>6, <1>7 DEF FilesInv, Stopped

LEMMA CrashFiles == ASSUME FilesInv, Crash PROVE FilesInv'
<1>1. Types
  BY DEF FilesInv
<1>2. /\ UNCHANGED <<index, body, saved, files, calls, failures>>
      /\ state' = "down" /\ crashes' = crashes + 1
      /\ levels' = <<>> /\ renaming' = {} /\ dumped' = {} /\ merge' = NoMerge
      /\ torn' = torn \cup renaming \cup Unfinished
      /\ cut' \in {"never", "among", "since"}
  BY <1>1 DEF Crash, Change, Types
<1>3. mergeFile' \in SizeType_
  <2>1. CASE mergeFile' = mergeFile
    BY <1>1, <2>1 DEF Types
  <2>2. CASE \E size \in 0 .. SizeOf(Result.map) : mergeFile' = Longer(size)
    <3>1. PICK size \in Nat : mergeFile' = Longer(size)
      BY <2>2, SizeOfIs
    <3>2. QED
      BY <1>1, <3>1, Longest
  <2>3. QED
    BY <2>1, <2>2 DEF Crash
<1>4. Unfinished \subseteq NameType /\ \A n \in Unfinished : n.uniq < files
  BY <1>1, UnfinishedIs DEF FilesInv
<1>5. Types'
  <2>1. <<>> \in Seq(LevelType)
    OBVIOUS
  <2>2. QED
    BY <1>1, <1>2, <1>3, <1>4, <2>1, NoMergeIs DEF Types
<1>6. Names(index') = Names(index) /\ Names(body') = Names(body) /\ Unfinished' = {}
  BY <1>2, NoMergeIs DEF Names, Unfinished
<1>7. Numbered'
  <2>1. \A n \in renaming' \cup dumped' \cup torn' \cup Names(index') \cup Names(body') : n.uniq < files'
    BY <1>2, <1>4, <1>6 DEF FilesInv, Numbered
  <2>2. DOMAIN levels' = {} /\ DOMAIN merge'.sources = {} /\ merge'.step # "renaming"
    BY <1>2, NoMergeIs
  <2>3. QED
    BY <2>1, <2>2 DEF Numbered
<1>8. Paired'
  <2>1. \A f \in index' : f.name \in renaming' \cup torn' \cup Unfinished' \cup Names(body')
    BY <1>2, <1>6 DEF FilesInv, Paired
  <2>2. QED
    BY <1>2, <2>1, NoMergeIs DEF Paired
<1>9. TailsExplained'
  BY <1>1, <1>2, <1>5, TailsCounted
<1>10. QED
  BY <1>2, <1>5, <1>7, <1>8, <1>9 DEF FilesInv, Stopped

\* All the files of the directory are loaded, each once.
LEMMA LoadedIs ==
    ASSUME Types, NEW ls \in Loaded
    PROVE  /\ ls \in Seq(LevelType) /\ ToSet(ls) = LevelsOf(index)
           /\ \A i \in DOMAIN ls : ls[i] \in LevelsOf(index)
           /\ \A i, j \in DOMAIN ls : i < j => ls[i] # ls[j] /\ ~Less(ls[j], ls[i])
<1> DEFINE S == LevelsOf(index)
           level == [f \in index |-> Level(f)]
<1>1. IsFiniteSet(S)
  <2>1. level \in Surjection(index, S)
    BY DEF Surjection, LevelsOf
  <2>2. IsFiniteSet(index)
    BY DEF Types
  <2> HIDE DEF S, level
  <2>3. QED
    BY <2>1, <2>2, FS_Surjection
<1>2. S \subseteq LevelType
  BY LevelIs DEF LevelsOf, Types
<1>3. ls \in SetToSeqs(S) /\ \A i, j \in DOMAIN ls : i < j => ~Less(ls[j], ls[i])
  BY DEF Loaded, LevelsOf
<1> HIDE DEF S, level
<1>4. PICK n \in Nat : n = Cardinality(S)
  BY <1>1, FS_CardinalityType
<1>5. ls \in [1 .. n -> S] /\ \A i, j \in 1 .. n : i # j => ls[i] # ls[j]
  BY <1>3, <1>4 DEF SetToSeqs
<1>6. ls \in Seq(LevelType) /\ DOMAIN ls = 1 .. n
  <2>1. ls \in [1 .. n -> LevelType]
    BY <1>2, <1>5
  <2>2. QED
    BY <2>1, SeqDef
<1>7. ls \in Surjection(1 .. n, S)
  <2>1. ls \in Injection(1 .. n, S)
    BY <1>5, <1>6 DEF Injection, IsInjective
  <2>2. Cardinality(1 .. n) = n
    BY FS_Interval
  <2>3. QED
    BY <1>1, <1>4, <2>1, <2>2, FS_Injection
<1>8. ToSet(ls) = S
  <2>1. \A x \in S : \E i \in 1 .. n : ls[i] = x
    BY <1>7 DEF Surjection
  <2>2. \A i \in 1 .. n : ls[i] \in S
    BY <1>5
  <2>3. \A x : x \in ToSet(ls) <=> \E i \in 1 .. n : x = ls[i]
    BY <1>6, InSet
  <2>4. QED
    BY <2>1, <2>2, <2>3
<1>9. \A i, j \in DOMAIN ls : i < j => ls[i] # ls[j]
  BY <1>5, <1>6
<1>10. \A i \in DOMAIN ls : ls[i] \in S
  BY <1>5, <1>6
<1>11. QED
  BY <1>3, <1>6, <1>8, <1>9, <1>10 DEF S

LEMMA RestartFiles == ASSUME FilesInv, Restart PROVE FilesInv'
<1>1. Types /\ state = "down"
  BY DEF FilesInv, Restart
<1>2. UNCHANGED <<renaming, dumped, merge, index, body, mergeFile, saved, torn, cut, files, calls, failures, crashes>>
  BY DEF Restart, directory, history, bounds
<1>3. \/ state' = "up" /\ levels' \in Loaded
      \/ state' = "refused" /\ levels' = levels
  BY DEF Restart
<1>4. levels' \in Seq(LevelType)
  BY <1>1, <1>3, LoadedIs DEF Types
<1>5. Types'
  BY <1>1, <1>2, <1>3, <1>4 DEF Types
<1>6. \A i \in DOMAIN levels' : levels'[i].file => levels'[i].uniq_index < files
  <2>1. CASE levels' = levels
    BY <2>1 DEF FilesInv, Numbered
  <2>2. CASE levels' \in Loaded
    <3>1. ASSUME NEW i \in DOMAIN levels' PROVE levels'[i].uniq_index < files
      <4>1. PICK f \in index : levels'[i] = Level(f)
        BY <1>1, <2>2, LoadedIs DEF LevelsOf
      <4>2. levels'[i].uniq_index = f.name.uniq
        BY <1>1, <4>1, LevelIs DEF Types
      <4>3. QED
        BY <4>2 DEF FilesInv, Numbered, Names
    <3>2. QED
      BY <3>1
  <2>3. QED
    BY <1>3, <2>1, <2>2
<1>7. Numbered'
  BY <1>2, <1>6 DEF FilesInv, Numbered, Names
<1>8. Paired'
  BY <1>2, PairedStays DEF FilesInv
<1>9. TailsExplained'
  BY <1>1, <1>2, <1>5, TailsStay DEF FilesInv
<1>10. Stopped'
  BY <1>1, <1>2, <1>3 DEF FilesInv, Stopped
<1>11. QED
  BY <1>5, <1>7, <1>8, <1>9, <1>10 DEF FilesInv

LEMMA FilesInit == ASSUME Init PROVE FilesInv
<1>1. <<>> \in Seq(LevelType) /\ IsFiniteSet({})
  BY FS_EmptySet
<1>2. Types
  <2>1. Empty \in Maps /\ NoFiles \in SizeType_
    BY AreaOfEmpty DEF NoFiles, SizeType_
  <2>2. QED
    BY <1>1, <2>1, NoMergeIs DEF Init, Types
<1>3. Numbered /\ Paired
  BY NoMergeIs DEF Init, Numbered, Paired, Names
<1>4. TailsExplained
  BY NoMergeIs DEF Init, TailsExplained, NoFiles
<1>5. QED
  BY <1>2, <1>3, <1>4 DEF Init, FilesInv, Stopped

LEMMA FilesKept == ASSUME FilesInv, [Next]_vars PROVE FilesInv'
<1>1. CASE UNCHANGED vars
  <2>1. UNCHANGED <<state, levels, renaming, dumped, merge, index, body, mergeFile, saved, torn, cut,
                    files, calls, failures, crashes>>
    BY <1>1 DEF vars, process, directory, history, bounds
  <2>2. Types' /\ Stopped' /\ Numbered'
    BY <2>1 DEF FilesInv, Types, Stopped, Numbered, Names
  <2>3. Paired'
    BY <2>1, PairedStays DEF FilesInv
  <2>4. TailsExplained'
    BY <2>1, <2>2, TailsStay DEF FilesInv
  <2>5. QED
    BY <2>2, <2>3, <2>4 DEF FilesInv
<1>2. CASE Next
  BY <1>2, ExchangeFiles, DumpIndexFiles, DumpBodyFiles, DumpBodyFailsFiles, PublishDumpFiles,
     BeginMergeFiles, WriteMergeFiles, WriteMergeFailsFiles, RenameMergeIndexFiles,
     RenameMergeFailsFiles, RenameMergeBodyFiles, UnlinkIndexFiles, UnlinkBodyFiles,
     CrashFiles, RestartFiles, Zenon DEF Next
<1>3. QED
  BY <1>1, <1>2

\* Whatever the process does and whenever it dies, every index has its body, and
\* both end where they should, but for what AlwaysLoadable names.
THEOREM EveryFileLoads == Spec => []AlwaysLoadable
<1>1. Init => FilesInv
  BY FilesInit
<1>2. FilesInv /\ [Next]_vars => FilesInv'
  BY FilesKept
<1>3. FilesInv => AlwaysLoadable
  <2>1. SUFFICES ASSUME FilesInv, NEW f \in index,
                        f.name \notin renaming \cup torn \cup Unfinished
                 PROVE  Readable(f) \/ (crashes + failures > 0
                                        /\ (f.tail \/ \E b \in body : b.name = f.name /\ b.tail))
    BY DEF AlwaysLoadable
  <2>2. PICK b \in body : b.name = f.name
    BY <2>1 DEF FilesInv, Paired, Names
  <2>3. CASE ~f.tail /\ ~b.tail
    BY <2>2, <2>3 DEF Readable
  <2>4. CASE f.tail \/ b.tail
    <3>1. crashes + failures # 0
      BY <2>1, <2>4 DEF FilesInv, TailsExplained
    <3>2. crashes \in Nat /\ failures \in Nat
      BY <2>1 DEF FilesInv, Types
    <3>3. crashes + failures > 0
      BY <3>1, <3>2
    <3>4. QED
      BY <2>2, <2>4, <3>3
  <2>5. QED
    BY <2>3, <2>4
<1>4. QED
  BY <1>1, <1>2, <1>3, PTL DEF Spec

-----------------------------------------------------------------------------
(* What levels have in files, and what the files have.                       *)

LEMMA DistinctCells ==
    ASSUME NEW ls \in Seq(LevelType), Ordered(ls), NEW l \in ToSet(ls), NEW m \in ToSet(ls),
           l.index = m.index, l.sub_index = m.sub_index
    PROVE  l = m
<1>1. PICK i \in DOMAIN ls, j \in DOMAIN ls : l = ls[i] /\ m = ls[j]
  BY InSet
<1>2. l \in LevelType /\ m \in LevelType /\ DOMAIN ls = 1 .. Len(ls) /\ Len(ls) \in Nat
  BY SetType, Lists
<1>3. ~Less(l, m) /\ ~Less(m, l)
  BY <1>2, Cells DEF SameCell
<1>4. ~(i < j) /\ ~(j < i)
  BY <1>1, <1>3 DEF Ordered
<1>5. i = j
  BY <1>2, <1>4
<1>6. QED
  BY <1>1, <1>5

\* A level in memory is alone in its cell, after a crash among unlinks too.
LEMMA MemoryCells ==
    ASSUME Types, Placed, NEW l \in ToSet(levels), NEW m \in ToSet(levels),
           l.index = m.index, l.sub_index = m.sub_index, ~l.file
    PROVE  l = m
<1>1. PICK i \in DOMAIN levels, j \in DOMAIN levels : l = levels[i] /\ m = levels[j]
  BY InSet
<1>2. /\ l \in LevelType /\ m \in LevelType
      /\ DOMAIN levels = 1 .. Len(levels) /\ Len(levels) \in Nat
  BY SetType, Lists DEF Types
<1>3. ~Less(l, m) /\ ~Less(m, l)
  BY <1>2, Cells DEF SameCell
<1>4. ~(i < j) /\ ~(j < i)
  BY <1>1, <1>3 DEF Placed
<1>5. i = j
  BY <1>2, <1>4
<1>6. QED
  BY <1>1, <1>5

LEMMA NeverOrdered == ASSUME Placed, cut = "never" PROVE Ordered(levels)
  BY DEF Placed, Ordered

\* Levels in the same cells with the same contents show the same.
LEMMA ShowsMoved ==
    ASSUME NEW S, S \subseteq LevelType, NEW T, T \subseteq LevelType, NEW k, NEW v,
           \A l \in S : \E m \in T : m.index = l.index /\ m.sub_index = l.sub_index /\ m.map = l.map,
           \A m \in T : \E l \in S : m.index = l.index /\ m.sub_index = l.sub_index /\ m.map = l.map,
           \A l, m \in T : l.index = m.index /\ l.sub_index = m.sub_index => l = m,
           Shows(S, k, v)
    PROVE  Shows(T, k, v)
<1>1. CASE v = NOT_FOUND /\ \A l \in S : l.map[k] = NOT_FOUND
  <2>1. \A m \in T : m.map[k] = NOT_FOUND
    BY <1>1
  <2>2. QED
    BY <1>1, <2>1 DEF Shows
<1>2. CASE v # NOT_FOUND
  <2>1. PICK l \in S : l.map[k] = v /\ \A x \in S : x.map[k] # NOT_FOUND => x = l \/ Less(l, x)
    BY <1>2 DEF Shows
  <2>2. PICK m \in T : m.index = l.index /\ m.sub_index = l.sub_index /\ m.map = l.map
    OBVIOUS
  <2>3. ASSUME NEW y \in T, y.map[k] # NOT_FOUND PROVE y = m \/ Less(m, y)
    <3>1. PICK x \in S : y.index = x.index /\ y.sub_index = x.sub_index /\ y.map = x.map
      OBVIOUS
    <3>2. x = l \/ Less(l, x)
      BY <2>1, <2>3, <3>1
    <3>3. CASE x = l
      BY <2>2, <3>1, <3>3
    <3>4. CASE Less(l, x)
      BY <2>2, <3>1, <3>4 DEF Less
    <3>5. QED
      BY <3>2, <3>3, <3>4
  <2>4. QED
    BY <1>2, <2>1, <2>2, <2>3 DEF Shows
<1>3. QED
  BY <1>1, <1>2 DEF Shows

StoredOf(ls, done) == {l \in ToSet(ls) : Stored(l, done)}

LEMMA DiskShows ==
    ASSUME NEW ls \in Seq(LevelType), Ordered(ls), NEW done, NEW k \in Keys
    PROVE  Shows(StoredOf(ls, done), k, OnDisk(ls, done)[k])
<1>1. PICK s : s = OnlyStored(ls, done)
  OBVIOUS
<1>2. /\ s \in Seq(LevelType) /\ DOMAIN s = DOMAIN ls
      /\ \A i \in DOMAIN ls :
            /\ Stored(ls[i], done) => s[i] = ls[i]
            /\ ~Stored(ls[i], done) => s[i] = [ls[i] EXCEPT !.map = Empty]
      /\ OnDisk(ls, done) = Overlay(s)
  BY <1>1, OnlyStoredIs
<1>3. PICK v : v = OnDisk(ls, done)[k]
  OBVIOUS
<1>4. ASSUME NEW i \in DOMAIN ls, s[i].map[k] # NOT_FOUND PROVE Stored(ls[i], done)
  <2>1. [ls[i] EXCEPT !.map = Empty].map[k] = NOT_FOUND
    <3>1. ls[i] \in LevelType
      BY Lists
    <3>2. [ls[i] EXCEPT !.map = Empty].map = Empty
      BY <3>1, Unmapped
    <3>3. QED
      BY <3>2 DEF Empty
  <2>2. QED
    BY <1>2, <1>4, <2>1
<1>5. \A l : l \in StoredOf(ls, done) <=> \E i \in DOMAIN ls : l = ls[i] /\ Stored(ls[i], done)
  BY InSet DEF StoredOf
<1>6. \/ v = NOT_FOUND /\ \A i \in DOMAIN s : s[i].map[k] = NOT_FOUND
      \/ \E i \in DOMAIN s :
            /\ v = s[i].map[k] /\ s[i].map[k] # NOT_FOUND
            /\ \A j \in DOMAIN s : j < i => s[j].map[k] = NOT_FOUND
  BY <1>2, <1>3, OverlayAt
<1>7. CASE v = NOT_FOUND /\ \A i \in DOMAIN s : s[i].map[k] = NOT_FOUND
  <2>1. \A l \in StoredOf(ls, done) : l.map[k] = NOT_FOUND
    BY <1>2, <1>5, <1>7
  <2>2. QED
    BY <1>3, <1>7, <2>1 DEF Shows
<1>8. CASE \E i \in DOMAIN s :
              /\ v = s[i].map[k] /\ s[i].map[k] # NOT_FOUND
              /\ \A j \in DOMAIN s : j < i => s[j].map[k] = NOT_FOUND
  <2>1. PICK i \in DOMAIN ls :
              /\ v = s[i].map[k] /\ s[i].map[k] # NOT_FOUND
              /\ \A j \in DOMAIN ls : j < i => s[j].map[k] = NOT_FOUND
    BY <1>2, <1>8
  <2>2. Stored(ls[i], done) /\ s[i] = ls[i]
    BY <1>2, <1>4, <2>1
  <2>3. ASSUME NEW m \in StoredOf(ls, done), m.map[k] # NOT_FOUND PROVE m = ls[i] \/ Less(ls[i], m)
    <3>1. PICK j \in DOMAIN ls : m = ls[j] /\ Stored(ls[j], done)
      BY <1>5
    <3>2. s[j] = ls[j]
      BY <1>2, <3>1
    <3>3. ~(j < i)
      BY <2>1, <2>3, <3>1, <3>2
    <3>4. i \in Nat /\ j \in Nat
      BY Lists
    <3>5. i = j \/ i < j
      BY <3>3, <3>4
    <3>6. QED
      BY <3>1, <3>5 DEF Ordered
  <2>4. QED
    BY <1>3, <1>5, <2>1, <2>2, <2>3 DEF Shows
<1>9. QED
  BY <1>6, <1>7, <1>8

\* A level that is stored has a file that stays.
EachStored ==
    \A l \in ToSet(levels) : Stored(l, dumped) =>
        \E f \in Kept : f.name.index = l.index /\ f.name.sub_index = l.sub_index /\ f.map = l.map

LEMMA StoredIn == Types /\ Placed /\ Backed /\ Dumping => EachStored
<1> SUFFICES ASSUME Types, Placed, Backed, Dumping, NEW l \in ToSet(levels), Stored(l, dumped)
             PROVE  \E f \in Kept : /\ f.name.index = l.index /\ f.name.sub_index = l.sub_index
                                    /\ f.map = l.map
  BY DEF EachStored
<1>1. CASE l.file
  <2>1. PICK f \in Kept : l = Level(f)
    BY <1>1 DEF Backed
  <2>2. f \in FileType
    BY DEF Kept, Types
  <2>3. QED
    BY <2>1, <2>2, LevelIs
<1>2. CASE ~l.file
  <2>1. PICK n \in dumped : n.index = l.index /\ n.sub_index = l.sub_index
    BY <1>2 DEF Stored
  <2>2. PICK m \in ToSet(levels), f \in index :
           ~m.file /\ m.index = n.index /\ m.sub_index = n.sub_index /\ f.name = n /\ f.map = m.map
    BY DEF Dumping, Dumps
  <2>3. m = l
    BY <1>2, <2>1, <2>2, MemoryCells
  <2>4. f \in Kept
    BY <2>2 DEF Dumping, Kept
  <2>5. QED
    BY <2>1, <2>2, <2>3, <2>4
<1>3. QED
  BY <1>1, <1>2

\* A file that stays has a level that is stored.
LEMMA FoundIn ==
    ASSUME Types, Unique, Dumping, Found, NEW f \in Kept
    PROVE  \E l \in ToSet(levels) :
              /\ l.index = f.name.index /\ l.sub_index = f.name.sub_index /\ l.map = f.map
              /\ Stored(l, dumped)
              /\ IF l.file THEN l = Level(f) ELSE f.name \in dumped
<1>1. f \in FileType /\ f \in index
  BY DEF Kept, Types
<1>2. CASE Level(f) \in ToSet(levels)
  BY <1>1, <1>2, LevelIs DEF Stored
<1>3. CASE f.name \in dumped
  <2>1. PICK l \in ToSet(levels), g \in index :
           /\ ~l.file /\ l.index = f.name.index /\ l.sub_index = f.name.sub_index
           /\ g.name = f.name /\ g.map = l.map
    BY <1>3 DEF Dumping, Dumps
  <2>2. g = f
    BY <1>1, <2>1 DEF Unique
  <2>3. QED
    BY <1>3, <2>1, <2>2 DEF Stored
<1>4. QED
  BY <1>2, <1>3 DEF Found

InOrder == Ordered(levels)

LEMMA CellsDiffer == Types /\ Unique /\ Dumping /\ Found /\ InOrder => Differ
<1> SUFFICES ASSUME Types, Unique, Dumping, Found, InOrder,
                    NEW f \in Kept, NEW g \in Kept, SameCell(Level(f), Level(g))
             PROVE  f = g
  BY DEF Differ
<1>1. f \in FileType /\ f \in index /\ g \in FileType /\ g \in index
  BY DEF Kept, Types
<1>2. f.name.index = g.name.index /\ f.name.sub_index = g.name.sub_index
  <2>1. PICK l, m : l = Level(f) /\ m = Level(g)
    OBVIOUS
  <2>2. l.index = m.index /\ l.sub_index = m.sub_index
    BY <1>1, <2>1, LevelIs, Cells
  <2>3. QED
    BY <1>1, <2>1, <2>2, LevelIs
<1>3. PICK l \in ToSet(levels) :
         /\ l.index = f.name.index /\ l.sub_index = f.name.sub_index
         /\ IF l.file THEN l = Level(f) ELSE f.name \in dumped
  BY FoundIn
<1>4. PICK m \in ToSet(levels) :
         /\ m.index = g.name.index /\ m.sub_index = g.name.sub_index
         /\ IF m.file THEN m = Level(g) ELSE g.name \in dumped
  BY FoundIn
<1>5. l = m
  BY <1>2, <1>3, <1>4, DistinctCells DEF Types, InOrder
<1>6. f.name = g.name
  <2>1. CASE l.file
    <3>1. Level(f) = Level(g)
      BY <1>3, <1>4, <1>5, <2>1
    <3>2. NameOf(Level(f)) = f.name /\ NameOf(Level(g)) = g.name
      BY <1>1, LevelIs
    <3>3. QED
      BY <3>1, <3>2
  <2>2. CASE ~l.file
    BY <1>2, <1>3, <1>4, <1>5, <2>2 DEF Dumping
  <2>3. QED
    BY <2>1, <2>2
<1>7. QED
  BY <1>1, <1>6 DEF Unique

LEMMA LevelsOfType == ASSUME Types PROVE LevelsOf(Kept) \subseteq LevelType
  BY LevelIs DEF LevelsOf, Kept, Types

DiskShown == \A k \in Keys : Shows(LevelsOf(Kept), k, OnDisk(levels, dumped)[k])

LEMMA DiskIs == Types /\ Files /\ Found /\ Differ /\ InOrder => DiskShown
<1> SUFFICES ASSUME Types, Files, Found, Differ, InOrder, NEW k \in Keys
             PROVE  Shows(LevelsOf(Kept), k, OnDisk(levels, dumped)[k])
  BY DEF DiskShown
<1>1. Unique /\ Placed /\ Backed /\ Dumping
  BY DEF Files
<1>2. Kept \subseteq FileType
  BY DEF Kept, Types
<1>3. PICK S, T, v : S = StoredOf(levels, dumped) /\ T = LevelsOf(Kept) /\ v = OnDisk(levels, dumped)[k]
  OBVIOUS
<1>4. S \subseteq LevelType /\ T \subseteq LevelType
  BY <1>3, SetType, LevelsOfType DEF StoredOf, Types
<1>5. ASSUME NEW l \in S
      PROVE  \E m \in T : m.index = l.index /\ m.sub_index = l.sub_index /\ m.map = l.map
  <2>1. l \in ToSet(levels) /\ Stored(l, dumped)
    BY <1>3 DEF StoredOf
  <2>2. PICK f \in Kept : f.name.index = l.index /\ f.name.sub_index = l.sub_index /\ f.map = l.map
    BY <1>1, <2>1, StoredIn DEF EachStored
  <2>3. PICK m : m = Level(f)
    OBVIOUS
  <2>4. m \in T /\ m.index = l.index /\ m.sub_index = l.sub_index /\ m.map = l.map
    BY <1>2, <1>3, <2>2, <2>3, LevelIs DEF LevelsOf
  <2>5. QED
    BY <2>4
<1>6. ASSUME NEW m \in T
      PROVE  \E l \in S : m.index = l.index /\ m.sub_index = l.sub_index /\ m.map = l.map
  <2>1. PICK f \in Kept : m = Level(f)
    BY <1>3 DEF LevelsOf
  <2>2. PICK l \in ToSet(levels) :
           /\ l.index = f.name.index /\ l.sub_index = f.name.sub_index /\ l.map = f.map
           /\ Stored(l, dumped)
    BY <1>1, FoundIn
  <2>3. l \in S
    BY <1>3, <2>2 DEF StoredOf
  <2>4. m.index = f.name.index /\ m.sub_index = f.name.sub_index /\ m.map = f.map
    BY <1>2, <2>1, LevelIs
  <2>5. QED
    BY <2>2, <2>3, <2>4
<1>7. ASSUME NEW l \in T, NEW m \in T, l.index = m.index, l.sub_index = m.sub_index PROVE l = m
  <2>1. PICK f \in Kept, g \in Kept : l = Level(f) /\ m = Level(g)
    BY <1>3 DEF LevelsOf
  <2>2. SameCell(l, m)
    BY <1>4, <1>7, Cells
  <2>3. QED
    BY <2>1, <2>2 DEF Differ
<1>8. Shows(S, k, v)
  BY <1>3, DiskShows DEF Types, InOrder
<1>9. Shows(T, k, v)
  BY <1>4, <1>5, <1>6, <1>7, <1>8, ShowsMoved
<1>10. QED
  BY <1>3, <1>9

-----------------------------------------------------------------------------
(* What every step does with the files that stay.                            *)

LEMMA KeptSame == ASSUME UNCHANGED <<index, body>>, Doomed' = Doomed PROVE Kept' = Kept
  BY DEF Kept, Names

LEMMA DumpsSame ==
    ASSUME NEW n, Dumps(n), ToSet(levels) \subseteq ToSet(levels'), index \subseteq index'
    PROVE  Dumps(n)'
  BY DEF Dumps

LEMMA FilesSame ==
    ASSUME Files, UNCHANGED <<levels, index, body, dumped, cut>>, renaming' \subseteq renaming, Doomed' = Doomed
    PROVE  Files' /\ Kept' = Kept
<1>1. Kept' = Kept
  BY KeptSame
<1>2. Unique' /\ Placed' /\ Backed'
  BY <1>1 DEF Files, Unique, Placed, Backed, ToSet
<1>3. \A n \in renaming' \cup dumped' : Dumps(n)'
  BY DumpsSame DEF Files, Dumping
<1>4. Dumping'
  BY <1>3 DEF Files, Dumping, Names
<1>5. QED
  BY <1>1, <1>2, <1>4 DEF Files

LEMMA CompleteSame ==
    ASSUME Complete, Kept' = Kept, UNCHANGED <<state, dumped, saved>>, ToSet(levels) \subseteq ToSet(levels')
    PROVE  Complete'
  BY DEF Complete, Found, Differ, Newest

LEMMA PreservedSame == ASSUME Preserved, Kept \subseteq Kept', saved' = saved, ~Unlinking' PROVE Preserved'
  BY DEF Preserved

\* A step of a merge that leaves the files and the levels.
LEMMA MergeStep ==
    ASSUME ContentsInv, UNCHANGED <<state, levels, index, body, dumped, saved, cut>>, renaming' \subseteq renaming,
           ~Unlinking, ~Unlinking', cut = "never" => Merging'
    PROVE  ContentsInv'
<1>1. Doomed' = Doomed
  BY DEF Doomed
<1>2. cut # "since" => Files' /\ Kept' = Kept
  BY <1>1, FilesSame DEF ContentsInv
<1>3. ToSet(levels') = ToSet(levels)
  OBVIOUS
<1>4. cut = "never" => Complete'
  BY <1>2, <1>3, CompleteSame DEF ContentsInv
<1>5. cut = "among" => Preserved'
  BY <1>2, PreservedSame DEF ContentsInv
<1>6. QED
  BY <1>2, <1>4, <1>5 DEF ContentsInv

LEMMA WriteMergeContents == ASSUME IndInv, WriteMerge PROVE ContentsInv'
<1>1. merge \in MergeType /\ merge.step = "writing" /\ ContentsInv
  BY DEF IndInv, FilesInv, Types, WriteMerge
<1>2. /\ UNCHANGED <<levels, index, body, renaming, dumped, saved, cut>> /\ state = "up" /\ state' = "up"
      /\ merge' = [merge EXCEPT !.step = "written"]
  BY DEF WriteMerge, Change, history
<1>3. merge'.step = "written" /\ merge'.sources = merge.sources
  BY <1>1, <1>2 DEF MergeType
<1>4. cut = "never" => Merging'
  BY <1>1, <1>2, <1>3 DEF ContentsInv, Merging
<1>5. ~Unlinking /\ ~Unlinking'
  BY <1>1, <1>3 DEF Unlinking
<1>6. QED
  BY <1>1, <1>2, <1>4, <1>5, MergeStep

LEMMA MergeEnds ==
    ASSUME IndInv, WriteMergeFails \/ RenameMergeFails PROVE ContentsInv'
<1>1. /\ UNCHANGED <<levels, index, body, renaming, dumped, saved, cut>> /\ state = "up" /\ state' = "up"
      /\ merge.step \in {"writing", "renaming"} /\ merge' = NoMerge /\ ContentsInv
  BY DEF IndInv, WriteMergeFails, RenameMergeFails, Change, history, directory
<1>2. ~Unlinking /\ ~Unlinking' /\ Merging'
  BY <1>1, NoMergeIs DEF Unlinking, Merging
<1>3. QED
  BY <1>1, <1>2, MergeStep

LEMMA DumpBodyFailsContents == ASSUME IndInv, NEW n \in renaming, DumpBodyFails(n) PROVE ContentsInv'
<1>1. /\ UNCHANGED <<levels, index, body, merge, dumped, saved, cut>> /\ state = "up" /\ state' = "up"
      /\ renaming' \subseteq renaming /\ ContentsInv
  BY DEF IndInv, DumpBodyFails, Change, directory
<1>2. Doomed' = Doomed /\ Unlinking' = Unlinking /\ ToSet(levels') = ToSet(levels)
  BY <1>1 DEF Doomed, Unlinking
<1>3. cut # "since" => Files' /\ Kept' = Kept
  BY <1>1, <1>2, FilesSame DEF ContentsInv
<1>4. cut = "never" => Merging' /\ Complete'
  <2>1. Merging => Merging'
    BY <1>1 DEF Merging, ResultName, Result
  <2>2. QED
    BY <1>1, <1>2, <1>3, <2>1, CompleteSame DEF ContentsInv
<1>5. cut = "among" => Preserved'
  BY <1>1, <1>2, <1>3, PreservedSame DEF ContentsInv, Preserved
<1>6. QED
  BY <1>1, <1>3, <1>4, <1>5 DEF ContentsInv

\* The files of a map that is in order have the areas of what they have.
LEMMA FilesAreas ==
    ASSUME Types, Backed PROVE \A i \in DOMAIN levels : levels[i].file => levels[i].area = Area(levels[i].map)
<1> SUFFICES ASSUME NEW i \in DOMAIN levels, levels[i].file PROVE levels[i].area = Area(levels[i].map)
  OBVIOUS
<1>1. PICK l : l = levels[i]
  OBVIOUS
<1>2. l \in ToSet(levels) /\ l.file
  BY <1>1, InSet
<1>3. PICK f \in FileType : l = Level(f)
  BY <1>2 DEF Backed, Kept, Types
<1>4. QED
  BY <1>1, <1>3, LevelIs

LEMMA BeginMergeContents == ASSUME IndInv, BeginMerge PROVE ContentsInv'
<1>1. Types /\ ContentsInv
  BY DEF IndInv, FilesInv
<1>2. PICK p \in Ascending(FirstOfCell(MergeLevels(levels))), ms \in Seq(LevelType) :
         /\ ms = Select(MergeLevels(levels), p) /\ ms # <<>>
         /\ merge' = [NoMerge EXCEPT !.step = "writing", !.sources = ms]
         /\ \A j \in DOMAIN ms : ms[j] \in ToSet(levels) /\ ms[j].file
  BY <1>1, BegunIs
<1>3. merge'.step = "writing" /\ merge'.sources = ms
  <2>1. merge' = [step |-> "writing", sources |-> ms, uniq |-> 0]
    BY <1>2 DEF NoMerge
  <2>2. QED
    BY <2>1
<1>4. /\ UNCHANGED <<levels, index, body, renaming, dumped, saved, cut>> /\ state = "up" /\ state' = "up"
      /\ merge = NoMerge
  BY DEF BeginMerge, Change, directory, history
<1>5. ASSUME cut = "never" PROVE Merging'
  <2>1. Placed /\ Backed
    BY <1>1, <1>5 DEF ContentsInv, Files
  <2>2. Ordered(levels)
    BY <1>5, <2>1, NeverOrdered
  <2>3. PICK all : all = MergeLevels(levels)
    OBVIOUS
  <2>4. all \in Seq(LevelType)
    BY <1>1, <2>3, MergeLevelsType DEF Types
  <2>5. all # <<>>
    <3>1. 1 \in DOMAIN ms
      BY <1>2, TailIs
    <3>2. FirstOfCell(all) \in SUBSET DOMAIN all
      BY DEF FirstOfCell
    <3>3. \A i \in DOMAIN p : p[i] \in DOMAIN all
      BY <1>2, <2>3, <2>4, <3>2, Selected
    <3>4. DOMAIN ms = DOMAIN p
      BY <1>2 DEF Select
    <3>5. QED
      BY <3>1, <3>3, <3>4
  <2>6. /\ Ordered(all)
        /\ \A l \in ToSet(levels) \ ToSet(all) : Apart(l, all)
    BY <1>1, <2>1, <2>2, <2>3, <2>5, FilesAreas, MergeFits DEF Types
  <2>7. FirstOfCell(all) = DOMAIN all
    <3>1. ASSUME NEW i \in DOMAIN all, NEW j \in 1 .. i - 1 PROVE ~SameCell(all[j], all[i])
      <4>1. j \in DOMAIN all /\ j < i
        BY <2>4, Lists
      <4>2. Less(all[j], all[i])
        BY <2>6, <4>1 DEF Ordered
      <4>3. QED
        BY <4>2 DEF SameCell
    <3>2. QED
      BY <3>1 DEF FirstOfCell
  <2>8. ms = all
    BY <1>2, <2>3, <2>4, <2>7, AscendingAll
  <2>9. ToSet(ms) \subseteq ToSet(levels)
    BY <1>2, InSet
  <2>10. QED
    BY <1>3, <1>4, <2>6, <2>8, <2>9 DEF Merging
<1>6. ~Unlinking /\ ~Unlinking'
  BY <1>3, <1>4, NoMergeIs DEF Unlinking
<1>7. QED
  BY <1>1, <1>4, <1>5, <1>6, MergeStep

\* An index with a number that no name has.
LEMMA IndexAdded ==
    ASSUME FilesInv, Unique, NEW f, index' = index \cup {f}, f.name.uniq = files,
           body' = body, Doomed' = Doomed
    PROVE  Unique' /\ Kept' = Kept
<1>1. \A n \in Names(index) \cup Names(body) : n.uniq < files
  BY DEF FilesInv, Numbered
<1>2. files \in Nat /\ ~(files < files)
  BY DEF FilesInv, Types
<1>3. f.name \notin Names(index) /\ f.name \notin Names(body)
  BY <1>1, <1>2
<1>4. Unique'
  BY <1>3 DEF Unique, Names
<1>5. Names(body') = Names(body)
  BY DEF Names
<1>6. Kept' = Kept
  BY <1>3, <1>5 DEF Kept
<1>7. QED
  BY <1>4, <1>6

\* No name of a source has the next number.
LEMMA DoomedNumbered == ASSUME FilesInv, NEW n \in Doomed PROVE n \in NameType /\ n.uniq < files
<1>1. PICK i \in DOMAIN merge.sources : n = NameOf(merge.sources[i])
  BY DEF Doomed
<1>2. merge.sources[i] \in LevelType
  BY MergeIs, Lists DEF FilesInv, Types
<1>3. n \in NameType /\ n.uniq = merge.sources[i].uniq_index
  BY <1>1, <1>2, LevelParts, NameIs DEF NameOf
<1>4. QED
  BY <1>3 DEF FilesInv, Numbered

LEMMA DumpIndexContents == ASSUME IndInv, NEW i \in DOMAIN levels, DumpIndex(levels[i]) PROVE ContentsInv'
<1>1. Types /\ FilesInv /\ ContentsInv /\ levels[i] \in LevelType
  BY LevelAt DEF IndInv, FilesInv
<1>2. PICK l : l = levels[i]
  OBVIOUS
<1>3. l \in ToSet(levels) /\ l \in LevelType
  BY <1>1, <1>2, InSet
<1>4. PICK n : n = Name(l, files)
  OBVIOUS
<1>5. n \in NameType /\ n.uniq = files /\ n.index = l.index /\ n.sub_index = l.sub_index
  BY <1>1, <1>3, <1>4, NameIs DEF Types
<1>6. PICK f : f = Index(n, l.map, FALSE)
  OBVIOUS
<1>7. f.name = n /\ f.map = l.map
  BY <1>6 DEF Index
<1>8. /\ UNCHANGED <<levels, dumped, merge, body, saved, cut>> /\ state = "up" /\ state' = "up" /\ ~l.file
      /\ renaming' = renaming \cup {n} /\ index' = index \cup {f}
      /\ \A m \in renaming \cup dumped : m.sub_index # l.sub_index
  BY <1>2, <1>4, <1>6 DEF DumpIndex, Change, history
<1>9. Doomed' = Doomed /\ Unlinking' = Unlinking /\ ToSet(levels') = ToSet(levels)
  BY <1>8 DEF Doomed, Unlinking
<1>10. cut # "since" => Unique' /\ Kept' = Kept
  BY <1>1, <1>5, <1>7, <1>8, <1>9, IndexAdded DEF ContentsInv, Files
<1>11. ASSUME cut # "since" PROVE Files'
  <2>1. Placed' /\ Backed'
    BY <1>1, <1>8, <1>9, <1>10, <1>11 DEF ContentsInv, Files, Placed, Backed
  <2>2. Dumps(n)'
    BY <1>3, <1>5, <1>7, <1>8, <1>9 DEF Dumps
  <2>3. n \notin Doomed
    <3>1. n.uniq \in Nat /\ ~(n.uniq < files)
      BY <1>1, <1>5 DEF Types
    <3>2. QED
      BY <1>1, <3>1, DoomedNumbered
  <2>4. ASSUME NEW m \in renaming' \cup dumped' PROVE Dumps(m)' /\ m \notin Doomed'
    <3>1. CASE m = n
      BY <1>9, <2>2, <2>3, <3>1
    <3>2. CASE m # n
      <4>1. Dumps(m) /\ m \notin Doomed
        BY <1>1, <1>8, <1>11, <2>4, <3>2 DEF ContentsInv, Files, Dumping
      <4>2. QED
        BY <1>8, <1>9, <4>1, DumpsSame
    <3>3. QED
      BY <3>1, <3>2
  <2>5. \A x, y \in renaming' \cup dumped' : x.sub_index = y.sub_index => x = y
    BY <1>1, <1>5, <1>8, <1>11 DEF ContentsInv, Files, Dumping
  <2>6. dumped' \subseteq Names(body') /\ renaming' \cap dumped' = {}
    <3>1. Names(body') = Names(body)
      BY <1>8 DEF Names
    <3>2. n \notin dumped
      BY <1>5, <1>8
    <3>3. QED
      BY <1>1, <1>8, <1>11, <3>1, <3>2 DEF ContentsInv, Files, Dumping
  <2>7. Dumping'
    BY <2>4, <2>5, <2>6 DEF Dumping
  <2>8. QED
    BY <1>10, <1>11, <2>1, <2>7 DEF Files
<1>12. cut = "never" => Merging' /\ Complete'
  <2>1. Merging => Merging'
    BY <1>8, <1>9 DEF Merging, ResultName, Result
  <2>2. cut = "never" => Kept' = Kept
    BY <1>10
  <2>3. QED
    BY <1>1, <1>8, <1>9, <2>1, <2>2, CompleteSame DEF ContentsInv
<1>13. cut = "among" => Preserved'
  BY <1>1, <1>8, <1>9, <1>10, PreservedSame DEF ContentsInv, Preserved
<1>14. QED
  BY <1>8, <1>11, <1>12, <1>13 DEF ContentsInv

\* A new level is in front of all levels.
LEMMA NewInFront ==
    ASSUME Types, Placed, NEW l \in LevelType, l.index = 0,
           levels # <<>> => l.sub_index = Head(levels).sub_index + 1
    PROVE  \A m \in ToSet(levels) : Less(l, m)
<1> SUFFICES ASSUME NEW m \in ToSet(levels) PROVE Less(l, m)
  OBVIOUS
<1>1. PICK i \in DOMAIN levels : m = levels[i]
  BY InSet
<1>2. PICK n \in Nat : DOMAIN levels = 1 .. n /\ n > 0 /\ levels # <<>>
  BY <1>1, Lists DEF Types
<1>3. PICK h : h = Head(levels)
  OBVIOUS
<1>4. h = levels[1] /\ 1 \in DOMAIN levels /\ l.sub_index = h.sub_index + 1
  BY <1>2, <1>3, TailIs DEF Types
<1>5. h \in LevelType /\ m \in LevelType
  BY <1>1, <1>4, LevelAt
<1>6. /\ l.sub_index \in Nat /\ h.index \in Nat /\ h.sub_index \in Nat
      /\ m.index \in Nat /\ m.sub_index \in Nat
  BY <1>5, LevelParts
<1>7. m = h \/ ~Less(m, h)
  <2>1. CASE i = 1
    BY <1>1, <1>4, <2>1
  <2>2. CASE i # 1
    <3>1. 1 < i
      BY <1>1, <1>2, <2>2
    <3>2. Less(h, m) \/ ~Less(m, h)
      BY <1>1, <1>4, <3>1 DEF Placed
    <3>3. QED
      BY <1>5, <3>2, LessOrder
  <2>3. QED
    BY <2>1, <2>2
<1>8. CASE m = h
  BY <1>4, <1>6, <1>8 DEF Less
<1>9. CASE ~Less(m, h)
  <2>1. ~(m.index < h.index) /\ ~(m.index = h.index /\ m.sub_index > h.sub_index)
    BY <1>9 DEF Less
  <2>2. 0 < m.index \/ (0 = m.index /\ l.sub_index > m.sub_index)
    BY <1>4, <1>6, <2>1
  <2>3. QED
    BY <2>2 DEF Less
<1>10. QED
  BY <1>7, <1>8, <1>9

LEMMA ExchangeContents == ASSUME IndInv, exchange PROVE ContentsInv'
<1>1. Types /\ FilesInv /\ ContentsInv
  BY DEF IndInv, FilesInv
<1>2. PICK l \in LevelType :
         /\ ~l.file /\ l.index = 0 /\ levels' = OnTop(l, levels)
         /\ levels # <<>> => l.sub_index = Head(levels).sub_index + 1
  BY <1>1, ExchangeIs
<1>3. PICK n \in Nat, new \in Seq(LevelType) :
         /\ new = OnTop(l, levels) /\ DOMAIN levels = 1 .. n /\ DOMAIN new = 1 .. n + 1 /\ new[1] = l
         /\ \A i \in 1 .. n : new[i + 1] = levels[i]
         /\ \A i \in 1 .. n + 1 : i = 1 \/ (i - 1 \in 1 .. n /\ new[i] = levels[i - 1])
  BY <1>1, OnTopPlaces DEF Types
<1>4. levels' = new
  BY <1>2, <1>3
<1>5. UNCHANGED <<renaming, dumped, merge, index, body, saved, cut>> /\ state = "up" /\ state' = "up"
  BY DEF exchange, Change, directory, history
<1>6. Doomed' = Doomed /\ Unlinking' = Unlinking /\ Kept' = Kept
  BY <1>5, KeptSame DEF Doomed, Unlinking
<1>7. ToSet(levels') = ToSet(levels) \cup {l}
  <2>1. \A x : x \in ToSet(new) <=> \E i \in 1 .. n + 1 : x = new[i]
    BY <1>3, InSet
  <2>2. \A x : x \in ToSet(levels) <=> \E i \in 1 .. n : x = levels[i]
    BY <1>3, InSet
  <2>3. \A i \in 1 .. n : i + 1 \in 1 .. n + 1
    BY <1>3
  <2>4. 1 \in 1 .. n + 1
    BY <1>3
  <2>5. QED
    BY <1>3, <1>4, <2>1, <2>2, <2>3, <2>4
<1>8. ASSUME Placed PROVE \A m \in ToSet(levels) : Less(l, m)
  BY <1>1, <1>2, <1>8, NewInFront
<1>9. ASSUME cut # "since" PROVE Files'
  <2>1. Files /\ Placed
    BY <1>1, <1>9 DEF ContentsInv, Files
  <2>2. Placed'
    <3>1. ASSUME NEW i \in 1 .. n + 1, NEW j \in 1 .. n + 1, i < j
          PROVE  \/ Less(new[i], new[j])
                 \/ cut = "among" /\ new[i].file /\ new[j].file /\ ~Less(new[j], new[i])
      <4>1. j - 1 \in 1 .. n /\ new[j] = levels[j - 1]
        <5>1. j # 1
          BY <3>1
        <5>2. QED
          BY <1>3, <5>1
      <4>2. CASE i = 1
        <5>1. levels[j - 1] \in ToSet(levels)
          BY <1>3, <4>1, InSet
        <5>2. QED
          BY <1>3, <1>8, <2>1, <4>1, <4>2, <5>1
      <4>3. CASE i # 1
        <5>1. i - 1 \in 1 .. n /\ new[i] = levels[i - 1]
          BY <1>3, <4>3
        <5>2. i - 1 < j - 1
          BY <3>1
        <5>3. QED
          BY <1>3, <2>1, <4>1, <5>1, <5>2 DEF Placed
      <4>4. QED
        BY <4>2, <4>3
    <3>2. QED
      BY <1>3, <1>4, <1>5, <3>1 DEF Placed
  <2>3. Backed' /\ Unique'
    BY <1>2, <1>5, <1>6, <1>7, <2>1 DEF Files, Backed, Unique
  <2>4. \A m \in renaming' \cup dumped' : Dumps(m)'
    BY <1>5, <1>7, <2>1, DumpsSame DEF Files, Dumping
  <2>5. Dumping'
    BY <1>5, <1>6, <2>1, <2>4 DEF Files, Dumping, Names
  <2>6. QED
    BY <2>2, <2>3, <2>5 DEF Files
<1>10. ASSUME cut = "never" PROVE Merging'
  <2>1. Merging /\ Placed
    BY <1>1, <1>10 DEF ContentsInv, Files
  <2>2. SUFFICES ASSUME merge.step \in {"writing", "written", "renaming"} PROVE Merging'
    BY <1>5 DEF Merging
  <2>3. PICK ms : ms = merge.sources
    OBVIOUS
  <2>4. /\ ms \in Seq(LevelType) /\ ms # <<>> /\ ToSet(ms) \subseteq ToSet(levels)
        /\ \A m \in ToSet(levels) \ ToSet(ms) : Apart(m, ms)
    BY <1>1, <2>1, <2>2, <2>3, MergeIs DEF Types, Merging
  <2>5. \A j \in DOMAIN ms : Less(l, ms[j])
    BY <1>8, <2>1, <2>4, InSet
  <2>6. Less(l, Head(ms))
    BY <2>4, <2>5, TailIs
  <2>7. Apart(l, ms)
    BY <2>4, <2>5, <2>6, LessMerged DEF Apart
  <2>8. ToSet(ms) \subseteq ToSet(levels') /\ \A m \in ToSet(levels') \ ToSet(ms) : Apart(m, ms)
    BY <1>7, <2>4, <2>7
  <2>9. QED
    BY <1>5, <2>1, <2>3, <2>8 DEF Merging, ResultName, Result
<1>11. cut = "never" => Complete'
  BY <1>1, <1>5, <1>6, <1>7, CompleteSame DEF ContentsInv
<1>12. cut = "among" => Preserved'
  BY <1>1, <1>5, <1>6, PreservedSame DEF ContentsInv, Preserved
<1>13. QED
  BY <1>5, <1>9, <1>10, <1>11, <1>12 DEF ContentsInv

LEMMA RenameMergeIndexContents == ASSUME IndInv, RenameMergeIndex PROVE ContentsInv'
<1>1. Types /\ FilesInv /\ ContentsInv
  BY DEF IndInv, FilesInv
<1>2. /\ merge.step = "written" /\ merge'.step = "renaming"
      /\ merge'.sources = merge.sources /\ merge'.uniq = files /\ Result' = Result
  BY <1>1, RenamedIndexIs
<1>3. PICK f \in FileType :
         index' = index \cup {f} /\ f.name = ResultName' /\ f.name.uniq = files /\ f.map = Result.map
  BY <1>1, RenamedIndexIs
<1>4. UNCHANGED <<levels, renaming, dumped, body, saved, cut>> /\ state = "up" /\ state' = "up"
  BY DEF RenameMergeIndex, Change, history
<1>5. ~Unlinking /\ ~Unlinking' /\ Doomed' = Doomed /\ ToSet(levels') = ToSet(levels)
  BY <1>2, <1>4 DEF Unlinking, Doomed
<1>6. cut # "since" => Unique' /\ Kept' = Kept
  BY <1>1, <1>3, <1>4, <1>5, IndexAdded DEF ContentsInv, Files
<1>7. ASSUME cut # "since" PROVE Files'
  <2>1. Placed' /\ Backed'
    BY <1>1, <1>4, <1>5, <1>6, <1>7 DEF ContentsInv, Files, Placed, Backed
  <2>2. \A m \in renaming' \cup dumped' : Dumps(m)'
    BY <1>1, <1>3, <1>4, <1>5, <1>7, DumpsSame DEF ContentsInv, Files, Dumping
  <2>3. Dumping'
    BY <1>1, <1>4, <1>5, <1>7, <2>2 DEF ContentsInv, Files, Dumping, Names
  <2>4. QED
    BY <1>6, <1>7, <2>1, <2>3 DEF Files
<1>8. ASSUME cut = "never" PROVE Merging'
  <2>1. Merging
    BY <1>1, <1>8 DEF ContentsInv
  <2>2. \A i \in DOMAIN merge.sources : merge.sources[i].uniq_index # files
    <3>1. files \in Nat /\ ~(files < files)
      BY <1>1 DEF Types
    <3>2. QED
      BY <1>1, <3>1 DEF FilesInv, Numbered
  <2>3. QED
    BY <1>2, <1>3, <1>4, <2>1, <2>2 DEF Merging
<1>9. cut = "never" => Complete'
  BY <1>1, <1>4, <1>5, <1>6, CompleteSame DEF ContentsInv
<1>10. cut = "among" => Preserved'
  BY <1>1, <1>4, <1>5, <1>6, PreservedSame DEF ContentsInv
<1>11. QED
  BY <1>4, <1>7, <1>8, <1>9, <1>10 DEF ContentsInv

\* A dump that has both of its files has what was written last in a file.
LEMMA DumpBodyContents == ASSUME IndInv, FilesInv', NEW n \in renaming, DumpBody(n) PROVE ContentsInv'
<1>1. Types /\ FilesInv /\ ContentsInv /\ Types'
  BY DEF IndInv, FilesInv
<1>2. PICK b : b = Body(n, FALSE)
  OBVIOUS
<1>3. /\ UNCHANGED <<levels, merge, index, torn, cut>> /\ state = "up" /\ state' = "up"
      /\ renaming' = renaming \ {n} /\ dumped' = dumped \cup {n}
      /\ body' = body \cup {b} /\ saved' = OnDisk(levels, dumped') /\ b.name = n
  BY <1>2 DEF DumpBody, Change, bounds, Body
<1>4. Doomed' = Doomed /\ Unlinking' = Unlinking /\ ToSet(levels') = ToSet(levels)
  BY <1>3 DEF Doomed, Unlinking
<1>5. Names(body') = Names(body) \cup {n}
  BY <1>3 DEF Names
<1>6. ASSUME cut # "since" PROVE Files' /\ \A f : f \in Kept' <=> f \in Kept \/ (f \in index /\ f.name = n)
  <2>1. Unique /\ Placed /\ Backed /\ Dumping
    BY <1>1, <1>6 DEF ContentsInv, Files
  <2>2. n \notin Doomed
    BY <2>1 DEF Dumping
  <2>3. \A f : f \in Kept' <=> f \in Kept \/ (f \in index /\ f.name = n)
    BY <1>3, <1>4, <1>5, <2>2 DEF Kept
  <2>4. Unique' /\ Placed' /\ Backed'
    BY <1>3, <1>4, <2>1, <2>3 DEF Unique, Placed, Backed
  <2>5. \A m \in renaming' \cup dumped' : Dumps(m)' /\ m \notin Doomed'
    BY <1>3, <1>4, <2>1, DumpsSame DEF Dumping
  <2>6. \A x, y \in renaming' \cup dumped' : x.sub_index = y.sub_index => x = y
    BY <1>3, <2>1 DEF Dumping
  <2>7. Dumping'
    BY <1>3, <1>5, <2>1, <2>5, <2>6 DEF Dumping
  <2>8. QED
    BY <2>3, <2>4, <2>7 DEF Files
<1>7. ASSUME cut = "never" PROVE Merging' /\ Complete'
  <2>1. Merging /\ Complete /\ Files' /\ Placed'
    BY <1>1, <1>6, <1>7 DEF ContentsInv, Files
  <2>2. Merging'
    BY <1>3, <1>4, <2>1 DEF Merging, ResultName, Result
  <2>3. Found'
    BY <1>3, <1>4, <1>6, <1>7, <2>1 DEF Complete, Found
  <2>4. InOrder'
    BY <1>3, <1>7, <2>1 DEF Placed, Ordered, InOrder
  <2>5. Differ'
    <3>1. Types' /\ Unique' /\ Dumping' /\ Found' /\ InOrder'
      BY <1>1, <2>1, <2>3, <2>4 DEF Files
    <3>2. QED
      BY <3>1, CellsDiffer, PTL
  <2>6. Newest'
    <3>1. Types' /\ Files' /\ Found' /\ Differ' /\ InOrder'
      BY <1>1, <2>1, <2>3, <2>4, <2>5
    <3>2. DiskShown'
      BY <3>1, DiskIs, PTL
    <3>3. saved' = OnDisk(levels', dumped')
      BY <1>3
    <3>4. QED
      BY <3>2, <3>3 DEF Newest, DiskShown
  <2>7. QED
    BY <2>2, <2>3, <2>5, <2>6 DEF Complete
<1>8. ASSUME cut = "among" PROVE Preserved'
  <2>1. Preserved /\ Files'
    BY <1>1, <1>6, <1>8 DEF ContentsInv
  <2>2. ASSUME NEW k \in Keys, saved'[k] # NOT_FOUND
        PROVE  \E f \in Kept' : f.map[k] = saved'[k]
    <3>1. PICK s : s = OnlyStored(levels, dumped')
      OBVIOUS
    <3>2. /\ s \in Seq(LevelType) /\ DOMAIN s = DOMAIN levels
          /\ \A i \in DOMAIN levels :
                /\ Stored(levels[i], dumped') => s[i] = levels[i]
                /\ ~Stored(levels[i], dumped') => s[i] = [levels[i] EXCEPT !.map = Empty]
          /\ saved' = Overlay(s)
      BY <1>1, <1>3, <3>1, OnlyStoredIs DEF Types
    <3>3. PICK i \in DOMAIN levels : saved'[k] = s[i].map[k]
      BY <2>2, <3>2, OverlayAt
    <3>4. Stored(levels[i], dumped') /\ s[i] = levels[i]
      <4>1. [levels[i] EXCEPT !.map = Empty].map = Empty
        BY <1>1, LevelAt, Unmapped
      <4>2. Empty[k] = NOT_FOUND
        BY DEF Empty
      <4>3. QED
        BY <2>2, <3>2, <3>3, <4>1, <4>2
    <3>5. PICK l : l = levels'[i]
      OBVIOUS
    <3>6. l \in ToSet(levels') /\ Stored(l, dumped') /\ saved'[k] = l.map[k]
      BY <1>3, <3>3, <3>4, <3>5, InSet
    <3>7. Types' /\ Placed' /\ Backed' /\ Dumping'
      BY <1>1, <2>1 DEF Files
    <3>8. EachStored'
      BY <3>7, StoredIn, PTL
    <3>9. QED
      BY <3>6, <3>8 DEF EachStored
  <2>3. ~Unlinking'
    BY <1>4, <2>1 DEF Preserved
  <2>4. QED
    BY <2>2, <2>3 DEF Preserved
<1>9. QED
  BY <1>3, <1>6, <1>7, <1>8 DEF ContentsInv

\* A dump is published where its level is.
LEMMA PublishedIs ==
    ASSUME Types, Placed, Backed, Dumping, NEW n \in dumped, PublishDump(n)
    PROVE  \E l \in ToSet(levels), f \in Kept, i \in DOMAIN levels :
              /\ ~l.file /\ l.index = n.index /\ l.sub_index = n.sub_index /\ f.name = n /\ f.map = l.map
              /\ levels[i] = l /\ levels'[i] = Level(f)
              /\ \A j \in DOMAIN levels : levels[j] = l => j = i
              /\ \A j \in DOMAIN levels : j # i => levels'[j] = levels[j]
<1>1. PICK l \in ToSet(levels), f \in index :
         ~l.file /\ l.index = n.index /\ l.sub_index = n.sub_index /\ f.name = n /\ f.map = l.map
  BY DEF Dumping, Dumps
<1>2. f \in Kept
  BY <1>1 DEF Dumping, Kept
<1>3. PICK i \in DOMAIN levels : l = levels[i]
  BY InSet
<1>4. ASSUME NEW j \in DOMAIN levels, levels[j] = l PROVE j = i
  <2>1. DOMAIN levels = 1 .. Len(levels) /\ Len(levels) \in Nat /\ l \in LevelType
    BY <1>3, LevelAt, Lists DEF Types
  <2>2. ~Less(l, l)
    BY <2>1, LessOrder
  <2>3. ~(i < j) /\ ~(j < i)
    BY <1>1, <1>3, <1>4, <2>2 DEF Placed
  <2>4. QED
    BY <2>1, <2>3
<1>5. levels'[i] = Level(f)
  <2>1. levels'[i] = InFile(levels[i], n.uniq)
    BY <1>1, <1>3, PublishedAt
  <2>2. InFile(l, n.uniq) = Level(f)
    BY <1>1 DEF InFile, Level
  <2>3. QED
    BY <1>3, <2>1, <2>2
<1>6. ASSUME NEW j \in DOMAIN levels, j # i PROVE levels'[j] = levels[j]
  <2>1. CASE levels[j].file \/ levels[j].sub_index # n.sub_index
    BY <2>1, PublishedAt
  <2>2. CASE ~levels[j].file /\ levels[j].sub_index = n.sub_index
    <3>1. DOMAIN levels = 1 .. Len(levels) /\ Len(levels) \in Nat
      BY Lists DEF Types
    <3>2. levels[j] \in LevelType /\ levels[i] \in LevelType
      BY LevelAt
    <3>3. \/ Less(levels[i], levels[j]) \/ Less(levels[j], levels[i])
      <4>1. i < j \/ j < i
        BY <1>6, <3>1
      <4>2. QED
        BY <1>1, <1>3, <4>1 DEF Placed
    <3>4. levels[j].index # n.index
      BY <1>1, <1>3, <2>2, <3>2, <3>3, LevelParts DEF Less
    <3>5. levels[j].index = 0 /\ n.index = 0
      <4>1. levels[j] \in ToSet(levels)
        BY InSet
      <4>2. QED
        BY <1>1, <2>2, <4>1 DEF Backed
    <3>6. QED
      BY <3>4, <3>5
  <2>3. QED
    BY <2>1, <2>2
<1>7. QED
  BY <1>1, <1>2, <1>3, <1>4, <1>5, <1>6

LEMMA PublishDumpContents == ASSUME IndInv, NEW n \in dumped, PublishDump(n) PROVE ContentsInv'
<1>1. Types /\ FilesInv /\ ContentsInv
  BY DEF IndInv, FilesInv
<1>2. /\ UNCHANGED <<renaming, merge, index, body, saved, torn, cut>> /\ state = "up" /\ state' = "up"
      /\ dumped' = dumped \ {n} /\ merge.step # "renaming"
  BY DEF PublishDump, Change, directory, history
<1>3. Doomed' = Doomed /\ Unlinking' = Unlinking /\ Kept' = Kept
  BY <1>2, KeptSame DEF Doomed, Unlinking
<1>4. ASSUME cut # "since"
      PROVE  /\ Files'
             /\ \E l \in ToSet(levels), f \in Kept :
                   /\ ~l.file /\ l.index = n.index /\ l.sub_index = n.sub_index /\ f.name = n
                   /\ \A x : x \in ToSet(levels') <=> x = Level(f) \/ (x \in ToSet(levels) /\ x # l)
  <2>1. Unique /\ Placed /\ Backed /\ Dumping
    BY <1>1, <1>4 DEF ContentsInv, Files
  <2>2. PICK l \in ToSet(levels), f \in Kept, i \in DOMAIN levels :
           /\ ~l.file /\ l.index = n.index /\ l.sub_index = n.sub_index /\ f.name = n
           /\ levels[i] = l /\ levels'[i] = Level(f)
           /\ \A j \in DOMAIN levels : levels[j] = l => j = i
           /\ \A j \in DOMAIN levels : j # i => levels'[j] = levels[j]
    BY <1>1, <2>1, PublishedIs
  <2>3. DOMAIN levels' = DOMAIN levels
    BY <1>1, PublishedAt
  <2>4. PICK p : p = Level(f)
    OBVIOUS
  <2>5. p.file /\ p.index = l.index /\ p.sub_index = l.sub_index
    <3>1. f \in FileType
      BY <1>1 DEF Kept, Types
    <3>2. QED
      BY <2>2, <2>4, <3>1, LevelIs
  <2>6. \A x : x \in ToSet(levels') <=> x = p \/ (x \in ToSet(levels) /\ x # l)
    <3>1. \A x : x \in ToSet(levels') <=> \E j \in DOMAIN levels : x = levels'[j]
      BY <2>3, InSet
    <3>2. \A x : x \in ToSet(levels) <=> \E j \in DOMAIN levels : x = levels[j]
      BY InSet
    <3>3. QED
      BY <2>2, <2>4, <3>1, <3>2
  <2>7. \A j \in DOMAIN levels : \A x : /\ Less(levels'[j], x) <=> Less(levels[j], x)
                                        /\ Less(x, levels'[j]) <=> Less(x, levels[j])
    BY <2>2, <2>4, <2>5 DEF Less
  <2>8. Placed'
    <3>1. ASSUME NEW j \in DOMAIN levels, NEW k \in DOMAIN levels, j < k
          PROVE  \/ Less(levels'[j], levels'[k])
                 \/ /\ cut = "among" /\ levels'[j].file /\ levels'[k].file
                    /\ ~Less(levels'[k], levels'[j])
      <4>1. CASE Less(levels[j], levels[k])
        BY <2>7, <4>1
      <4>2. CASE cut = "among" /\ levels[j].file /\ levels[k].file /\ ~Less(levels[k], levels[j])
        BY <2>2, <2>7, <4>2
      <4>3. QED
        BY <2>1, <3>1, <4>1, <4>2 DEF Placed
    <3>2. QED
      BY <1>2, <2>3, <3>1 DEF Placed
  <2>9. Unique' /\ Backed'
    BY <1>2, <1>3, <2>1, <2>2, <2>4, <2>5, <2>6 DEF Unique, Backed
  <2>10. ASSUME NEW m \in renaming' \cup dumped' PROVE Dumps(m)'
    <3>1. m \in renaming \cup dumped /\ m # n
      BY <1>2, <2>1 DEF Dumping
    <3>2. m.sub_index # n.sub_index
      BY <2>1, <3>1 DEF Dumping
    <3>3. PICK k \in ToSet(levels), g \in index :
             ~k.file /\ k.index = m.index /\ k.sub_index = m.sub_index /\ g.name = m /\ g.map = k.map
      BY <2>1, <3>1 DEF Dumping, Dumps
    <3>4. k \in ToSet(levels')
      BY <2>2, <2>6, <3>2, <3>3
    <3>5. QED
      BY <1>2, <3>3, <3>4 DEF Dumps
  <2>11. Dumping'
    <3>1. \A m \in renaming' \cup dumped' : m \notin Doomed'
      BY <1>2, <1>3, <2>1 DEF Dumping
    <3>2. QED
      BY <1>2, <2>1, <2>10, <3>1 DEF Dumping, Names
  <2>12. Files'
    BY <2>8, <2>9, <2>11 DEF Files
  <2>13. QED
    BY <2>2, <2>4, <2>6, <2>12
<1>5. ASSUME cut = "never" PROVE Merging' /\ Complete'
  <2>1. Merging /\ Complete /\ Unique
    BY <1>1, <1>5 DEF ContentsInv, Files
  <2>2. PICK l \in ToSet(levels), f \in Kept :
           /\ ~l.file /\ l.index = n.index /\ l.sub_index = n.sub_index /\ f.name = n
           /\ \A x : x \in ToSet(levels') <=> x = Level(f) \/ (x \in ToSet(levels) /\ x # l)
    BY <1>4, <1>5
  <2>3. f \in FileType
    BY <1>1 DEF Kept, Types
  <2>4. PICK p : p = Level(f)
    OBVIOUS
  <2>5. p.file /\ p.index = l.index /\ p.sub_index = l.sub_index
    BY <2>2, <2>3, <2>4, LevelIs
  <2>6. ASSUME merge.step \in {"writing", "written"}
        PROVE  /\ ToSet(merge.sources) \subseteq ToSet(levels')
               /\ \A m \in ToSet(levels') \ ToSet(merge.sources) : Apart(m, merge.sources)
    <3>1. /\ ToSet(merge.sources) \subseteq ToSet(levels)
          /\ \A m \in ToSet(levels) \ ToSet(merge.sources) : Apart(m, merge.sources)
      BY <2>1, <2>6 DEF Merging
    <3>2. \A m \in ToSet(merge.sources) : m.file
      BY <1>1, InSet DEF FilesInv, Numbered
    <3>3. l \notin ToSet(merge.sources)
      BY <2>2, <3>2
    <3>4. Apart(p, merge.sources)
      BY <2>2, <2>5, <3>1, <3>3, ApartCell
    <3>5. QED
      BY <2>2, <2>4, <3>1, <3>3, <3>4
  <2>7. Merging'
    BY <1>2, <2>1, <2>6 DEF Merging
  <2>8. Found'
    <3>1. ASSUME NEW g \in Kept PROVE Level(g) \in ToSet(levels') \/ g.name \in dumped'
      <4>1. CASE Level(g) \in ToSet(levels)
        <5>1. Level(g).file
          BY <1>1, LevelIs DEF Kept, Types
        <5>2. QED
          BY <2>2, <4>1, <5>1
      <4>2. CASE g.name \in dumped /\ g.name # n
        BY <1>2, <4>2
      <4>3. CASE g.name = n
        <5>1. g = f
          BY <2>1, <2>2, <4>3 DEF Unique, Kept
        <5>2. QED
          BY <2>2, <5>1
      <4>4. Found
        BY <1>2, <2>1 DEF Complete
      <4>5. QED
        BY <4>1, <4>2, <4>3, <4>4 DEF Found
    <3>2. QED
      BY <1>3, <3>1 DEF Found
  <2>9. Differ' /\ Newest'
    BY <1>2, <1>3, <2>1 DEF Complete, Differ, Newest
  <2>10. QED
    BY <2>7, <2>8, <2>9 DEF Complete
<1>6. cut = "among" => Preserved'
  BY <1>1, <1>2, <1>3, PreservedSame DEF ContentsInv, Preserved
<1>7. QED
  BY <1>2, <1>4, <1>5, <1>6 DEF ContentsInv

LEMMA UnlinkIndexContents == ASSUME IndInv, UnlinkIndex PROVE ContentsInv'
<1>1. Types /\ FilesInv /\ ContentsInv /\ merge.step = "unlinkIndex" /\ merge \in MergeType
  BY DEF IndInv, FilesInv, UnlinkIndex, Types
<1>2. /\ UNCHANGED <<levels, renaming, dumped, body, saved, cut>> /\ state = "up" /\ state' = "up"
      /\ merge' = [merge EXCEPT !.step = "unlinkBody"]
      /\ index' = {f \in index : f.name /= NameOf(Head(merge.sources))}
  BY DEF UnlinkIndex, Change, history
<1>3. merge'.step = "unlinkBody" /\ merge'.sources = merge.sources
  BY <1>1, <1>2 DEF MergeType
<1>4. PICK h : h = NameOf(Head(merge.sources))
  OBVIOUS
<1>5. Unlinking /\ Unlinking' /\ Doomed' = Doomed /\ h \in Doomed
  <2>1. Unlinking /\ Unlinking' /\ Doomed' = Doomed
    BY <1>1, <1>3 DEF Unlinking, Doomed
  <2>2. merge.sources # <<>> /\ merge.sources \in Seq(LevelType)
    BY <1>1, MergeIs DEF Types
  <2>3. 1 \in DOMAIN merge.sources /\ Head(merge.sources) = merge.sources[1]
    BY <2>2, TailIs
  <2>4. QED
    BY <1>4, <2>1, <2>3 DEF Doomed
<1>6. Kept' = Kept
  <2>1. Names(body') = Names(body)
    BY <1>2 DEF Names
  <2>2. QED
    BY <1>2, <1>4, <1>5, <2>1 DEF Kept
<1>7. ASSUME cut # "since" PROVE Files'
  <2>1. Unique /\ Placed /\ Backed /\ Dumping
    BY <1>1, <1>7 DEF ContentsInv, Files
  <2>2. Unique' /\ Placed' /\ Backed'
    BY <1>2, <1>6, <2>1 DEF Unique, Placed, Backed, ToSet
  <2>3. ASSUME NEW n \in renaming' \cup dumped' PROVE Dumps(n)' /\ n \notin Doomed'
    <3>1. n \in renaming \cup dumped /\ Dumps(n) /\ n \notin Doomed
      BY <1>2, <2>1, <2>3 DEF Dumping
    <3>2. PICK l \in ToSet(levels), f \in index :
             ~l.file /\ l.index = n.index /\ l.sub_index = n.sub_index /\ f.name = n /\ f.map = l.map
      BY <3>1 DEF Dumps
    <3>3. f \in index'
      BY <1>2, <1>4, <1>5, <3>1, <3>2
    <3>4. l \in ToSet(levels')
      BY <1>2
    <3>5. Dumps(n)'
      BY <3>2, <3>3, <3>4 DEF Dumps
    <3>6. QED
      BY <1>5, <3>1, <3>5
  <2>4. Dumping'
    BY <1>2, <2>1, <2>3 DEF Dumping, Names
  <2>5. QED
    BY <2>2, <2>4 DEF Files
<1>8. cut = "never" => Merging' /\ Complete'
  <2>1. ToSet(levels') = ToSet(levels)
    BY <1>2
  <2>2. QED
    BY <1>1, <1>2, <1>3, <1>6, <2>1, CompleteSame DEF ContentsInv, Merging
<1>9. cut # "among"
  BY <1>1, <1>5 DEF ContentsInv, Preserved
<1>10. QED
  BY <1>2, <1>7, <1>8, <1>9 DEF ContentsInv

LEMMA UnlinkBodyContents == ASSUME IndInv, UnlinkBody PROVE ContentsInv'
<1>1. Types /\ FilesInv /\ ContentsInv /\ merge.step = "unlinkBody"
  BY DEF IndInv, FilesInv, UnlinkBody
<1>2. /\ UNCHANGED <<levels, renaming, dumped, index, saved, cut>> /\ state = "up" /\ state' = "up"
      /\ body' = {b \in body : b.name /= NameOf(Head(merge.sources))}
  BY DEF UnlinkBody, Change, history
<1>3. /\ merge'.step \in {"none", "unlinkIndex"}
      /\ \A x : (\E i \in DOMAIN merge.sources : x = merge.sources[i])
                   <=> x = Head(merge.sources) \/ \E i \in DOMAIN merge'.sources : x = merge'.sources[i]
      /\ merge'.step = "none" => merge'.sources = <<>>
  BY <1>1, UnlinkedIs
<1>4. PICK h : h = NameOf(Head(merge.sources))
  OBVIOUS
<1>5. Unlinking /\ \A n : n \in Doomed <=> n = h \/ n \in Doomed'
  <2>1. Unlinking /\ Doomed = {NameOf(merge.sources[i]) : i \in DOMAIN merge.sources}
    BY <1>1 DEF Unlinking, Doomed
  <2>2. Doomed' = {NameOf(merge'.sources[i]) : i \in DOMAIN merge'.sources}
    BY <1>3 DEF Unlinking, Doomed
  <2>3. \A n : n \in Doomed <=> \E x : (\E i \in DOMAIN merge.sources : x = merge.sources[i]) /\ n = NameOf(x)
    BY <2>1
  <2>4. \A n : n \in Doomed' <=> \E x : (\E i \in DOMAIN merge'.sources : x = merge'.sources[i]) /\ n = NameOf(x)
    BY <2>2
  <2>5. QED
    BY <1>3, <1>4, <2>1, <2>3, <2>4
<1>6. Names(body') = Names(body) \ {h}
  BY <1>2, <1>4 DEF Names
<1>7. Kept' = Kept
  BY <1>2, <1>5, <1>6 DEF Kept
<1>8. ASSUME cut # "since" PROVE Files'
  <2>1. Unique /\ Placed /\ Backed /\ Dumping
    BY <1>1, <1>8 DEF ContentsInv, Files
  <2>2. Unique' /\ Placed' /\ Backed'
    BY <1>2, <1>7, <2>1 DEF Unique, Placed, Backed, ToSet
  <2>3. \A n \in renaming' \cup dumped' : Dumps(n)' /\ n \notin Doomed'
    BY <1>2, <1>5, <2>1, DumpsSame DEF Dumping
  <2>4. dumped' \subseteq Names(body')
    BY <1>2, <1>5, <1>6, <2>1 DEF Dumping
  <2>5. Dumping'
    BY <1>2, <2>1, <2>3, <2>4 DEF Dumping
  <2>6. QED
    BY <2>2, <2>5 DEF Files
<1>9. cut = "never" => Merging' /\ Complete'
  <2>1. ToSet(levels') = ToSet(levels)
    BY <1>2
  <2>2. Merging'
    BY <1>3 DEF Merging
  <2>3. QED
    BY <1>1, <1>2, <1>7, <2>1, <2>2, CompleteSame DEF ContentsInv
<1>10. cut # "among"
  BY <1>1, <1>5 DEF ContentsInv, Preserved
<1>11. QED
  BY <1>2, <1>8, <1>9, <1>10 DEF ContentsInv

\* The result of a merge takes the place of its sources, in the levels and in
\* the files that stay: nothing else that a reader finds changes.
LEMMA RenameMergeBodyContents == ASSUME IndInv, FilesInv', RenameMergeBody PROVE ContentsInv'
<1>1. Types /\ FilesInv /\ ContentsInv /\ Types'
  BY DEF IndInv, FilesInv
<1>2. /\ merge.step = "renaming" /\ state = "up" /\ state' = "up"
      /\ merge'.step = "unlinkIndex" /\ merge'.sources = merge.sources
  BY <1>1, RenamedBodyIs DEF RenameMergeBody, Change
<1>3. /\ UNCHANGED <<renaming, dumped, index, saved, torn>>
      /\ cut' = IF cut = "among" THEN "since" ELSE cut
  BY DEF RenameMergeBody
<1>4. CASE cut # "never"
  <2>1. cut' = "since"
    BY <1>1, <1>3, <1>4 DEF Types
  <2>2. QED
    BY <2>1 DEF ContentsInv
<1>5. CASE cut = "never"
  <2>1. Unique /\ Placed /\ Backed /\ Dumping /\ Merging /\ Found /\ Differ /\ Newest
    BY <1>1, <1>2, <1>5 DEF ContentsInv, Files, Complete
  <2>2. PICK ms : ms = merge.sources
    OBVIOUS
  <2>3. /\ ms \in Seq(LevelType) /\ ms # <<>> /\ Ordered(ms) /\ ToSet(ms) \subseteq ToSet(levels)
        /\ \A l \in ToSet(levels) \ ToSet(ms) : Apart(l, ms)
        /\ \A i \in DOMAIN ms : ms[i].file /\ ms[i].uniq_index # merge.uniq
    BY <1>1, <1>2, <2>1, <2>2, MergeIs DEF Types, Merging, FilesInv, Numbered
  <2>4. PICK fr \in index : fr.name = ResultName /\ fr.map = Result.map
    BY <1>2, <2>1 DEF Merging
  <2>5. /\ Result \in LevelType /\ Result.map = Overlay(ms) /\ merge.uniq \in Nat
        /\ Result.index = MergedLevel(ms).index /\ Result.sub_index = MergedLevel(ms).sub_index
        /\ ResultName \in NameType /\ ResultName.uniq = merge.uniq
    <3>1. merge.step # "none"
      BY <1>2
    <3>2. QED
      BY <1>1, <2>2, <3>1, ResultIs
  <2>6. PICK n : n = InFile(Result, merge.uniq)
    OBVIOUS
  <2>7. /\ n \in LevelType /\ n.file /\ n.map = Overlay(ms)
        /\ n.index = MergedLevel(ms).index /\ n.sub_index = MergedLevel(ms).sub_index
    <3>1. Result.index \in Nat /\ Result.sub_index \in Nat /\ Result.map \in Maps
      BY <2>5, LevelParts
    <3>2. QED
      BY <2>5, <2>6, <3>1, InFileIs
  <2>8. n = Level(fr)
    <3>1. fr.name.index = Result.index /\ fr.name.sub_index = Result.sub_index /\ fr.name.uniq = merge.uniq
      BY <2>4 DEF ResultName, Name
    <3>2. QED
      BY <2>4, <2>6, <3>1 DEF InFile, Level
  <2>9. Ordered(levels)
    BY <1>5, <2>1, NeverOrdered
  <2>10. PICK p \in Ascending(Unmerged(levels, ms)) : levels' = InsertLevel(Select(levels, p), n)
    BY <2>2, <2>6 DEF RenameMergeBody
  <2>11. /\ levels' \in Seq(LevelType) /\ Ordered(levels')
         /\ ToSet(levels') = (ToSet(levels) \ ToSet(ms)) \cup {n}
    BY <1>1, <2>3, <2>7, <2>9, <2>10, MergePlaces DEF Types
  <2>12. /\ ~Unlinking /\ Doomed = {}
         /\ \A x : x \in Doomed' <=> \E m \in ToSet(ms) : x = NameOf(m)
    <3>1. ~Unlinking /\ Doomed = {} /\ Doomed' = {NameOf(ms[i]) : i \in DOMAIN ms}
      BY <1>2, <2>2 DEF Unlinking, Doomed
    <3>2. \A m : m \in ToSet(ms) <=> \E i \in DOMAIN ms : m = ms[i]
      BY InSet
    <3>3. QED
      BY <3>1, <3>2
  <2>13. Names(body') = Names(body) \cup {ResultName}
    <3>1. \E b : body' = body \cup {b} /\ b.name = ResultName
      BY <1>1, RenamedBodyIs
    <3>2. QED
      BY <3>1 DEF Names
  <2>14. \A m \in ToSet(ms) : m \in ToSet(levels) /\ m \in LevelType /\ m.file
                              /\ \E f \in Kept : m = Level(f) /\ NameOf(m) = f.name
    <3>1. ASSUME NEW m \in ToSet(ms)
          PROVE  m \in ToSet(levels) /\ m.file /\ \E f \in Kept : m = Level(f) /\ NameOf(m) = f.name
      <4>1. m \in ToSet(levels) /\ m.file
        BY <2>3, InSet
      <4>2. PICK f \in Kept : m = Level(f)
        BY <2>1, <4>1 DEF Backed
      <4>3. f \in FileType
        BY <1>1 DEF Kept, Types
      <4>4. QED
        BY <4>1, <4>2, <4>3, LevelIs
    <3>2. QED
      BY <2>3, <3>1, SetType
  <2>15. ResultName \notin Doomed'
    <3>1. SUFFICES ASSUME NEW m \in ToSet(ms), ResultName = NameOf(m) PROVE FALSE
      BY <2>12
    <3>2. m \in LevelType /\ m.uniq_index # merge.uniq
      BY <2>3, <2>14, InSet
    <3>3. NameOf(m).uniq = m.uniq_index
      BY <3>2, LevelParts, NameIs DEF NameOf
    <3>4. QED
      BY <2>5, <3>1, <3>2, <3>3
  <2>16. \A f : f \in Kept' <=> f = fr \/ (f \in Kept /\ Level(f) \notin ToSet(ms))
    <3>1. fr \in Kept'
      BY <1>3, <2>4, <2>13, <2>15 DEF Kept
    <3>2. ASSUME NEW f \in Kept, Level(f) \notin ToSet(ms) PROVE f \in Kept'
      <4>1. ASSUME f.name \in Doomed' PROVE FALSE
        <5>1. PICK m \in ToSet(ms) : f.name = NameOf(m)
          BY <2>12, <4>1
        <5>2. PICK g \in Kept : m = Level(g) /\ NameOf(m) = g.name
          BY <2>14
        <5>3. f = g
          BY <2>1, <5>1, <5>2 DEF Unique, Kept
        <5>4. QED
          BY <3>2, <5>2, <5>3
      <4>2. QED
        BY <1>3, <2>13, <4>1 DEF Kept
    <3>3. ASSUME NEW f \in Kept', f # fr PROVE f \in Kept /\ Level(f) \notin ToSet(ms)
      <4>1. f \in index /\ f.name \notin Doomed' /\ f.name \in Names(body) \cup {ResultName}
        BY <1>3, <2>13 DEF Kept
      <4>2. f.name # ResultName
        BY <2>1, <2>4, <3>3, <4>1 DEF Unique
      <4>3. f \in Kept
        BY <2>12, <4>1, <4>2 DEF Kept
      <4>4. NameOf(Level(f)) = f.name
        BY <1>1, <4>1, LevelIs DEF Types
      <4>5. QED
        BY <2>12, <4>1, <4>3, <4>4
    <3>4. QED
      BY <3>1, <3>2, <3>3
  <2>17. Unique' /\ Placed' /\ InOrder'
    BY <1>3, <2>1, <2>11 DEF Unique, Placed, Ordered, InOrder
  <2>18. Backed'
    <3>1. ASSUME NEW l \in ToSet(levels') PROVE (l.file => \E f \in Kept' : l = Level(f)) /\ (~l.file => l.index = 0)
      <4>1. CASE l = n
        BY <2>7, <2>8, <2>16, <4>1
      <4>2. CASE l \in ToSet(levels) /\ l \notin ToSet(ms)
        BY <2>1, <2>16, <4>2 DEF Backed
      <4>3. QED
        BY <2>11, <4>1, <4>2
    <3>2. QED
      BY <3>1 DEF Backed
  <2>19. ASSUME NEW m \in renaming' \cup dumped'
         PROVE  /\ Dumps(m)' /\ m \notin Doomed'
                /\ \E l \in ToSet(levels) \ ToSet(ms) : l.index = m.index /\ l.sub_index = m.sub_index
    <3>1. PICK l \in ToSet(levels), f \in index :
             ~l.file /\ l.index = m.index /\ l.sub_index = m.sub_index /\ f.name = m /\ f.map = l.map
      BY <1>3, <2>1 DEF Dumping, Dumps
    <3>2. l \notin ToSet(ms)
      BY <2>14, <3>1
    <3>3. Dumps(m)'
      BY <1>3, <2>11, <3>1, <3>2 DEF Dumps
    <3>4. ASSUME NEW s \in ToSet(ms), m = NameOf(s) PROVE FALSE
      <4>1. s \in ToSet(levels) /\ s \in LevelType /\ s.file
        BY <2>14
      <4>2. m.index = s.index /\ m.sub_index = s.sub_index
        BY <3>4, <4>1, LevelParts, NameIs DEF NameOf
      <4>3. l = s
        BY <1>1, <2>9, <3>1, <4>1, <4>2, DistinctCells DEF Types
      <4>4. QED
        BY <3>1, <4>1, <4>3
    <3>5. QED
      BY <2>12, <3>1, <3>2, <3>3, <3>4
  <2>20. Dumping'
    BY <1>3, <2>1, <2>13, <2>19 DEF Dumping
  <2>21. Found'
    <3>1. ASSUME NEW f \in Kept' PROVE Level(f) \in ToSet(levels') \/ f.name \in dumped'
      <4>1. CASE f = fr
        BY <2>8, <2>11, <4>1
      <4>2. CASE f \in Kept /\ Level(f) \notin ToSet(ms)
        BY <1>3, <2>1, <2>11, <4>2 DEF Found
      <4>3. QED
        BY <2>16, <4>1, <4>2
    <3>2. QED
      BY <3>1 DEF Found
  <2>22. Differ'
    BY <1>1, <2>17, <2>20, <2>21, CellsDiffer, PTL
  <2>23. Newest'
    <3>1. PICK S : S = LevelsOf(Kept)
      OBVIOUS
    <3>2. S \subseteq LevelType /\ ToSet(ms) \subseteq S
      BY <1>1, <2>14, <3>1, LevelsOfType DEF LevelsOf
    <3>3. ASSUME NEW l \in S \ ToSet(ms) PROVE Apart(l, ms)
      <4>1. PICK f \in Kept : l = Level(f)
        BY <3>1 DEF LevelsOf
      <4>2. CASE l \in ToSet(levels)
        BY <2>3, <4>2
      <4>3. CASE f.name \in dumped
        <5>1. PICK m \in ToSet(levels) \ ToSet(ms) : m.index = f.name.index /\ m.sub_index = f.name.sub_index
          BY <1>3, <2>19, <4>3
        <5>2. l.index = m.index /\ l.sub_index = m.sub_index
          BY <1>1, <4>1, <5>1, LevelIs DEF Kept, Types
        <5>3. QED
          BY <2>3, <5>1, <5>2, ApartCell
      <4>4. QED
        BY <2>1, <4>1, <4>2, <4>3 DEF Found
    <3>4. LevelsOf(Kept') = (S \ ToSet(ms)) \cup {n}
      <4>1. \A x : x \in LevelsOf(Kept') <=> \E f \in Kept' : x = Level(f)
        BY DEF LevelsOf
      <4>2. \A x : x \in S <=> \E f \in Kept : x = Level(f)
        BY <3>1 DEF LevelsOf
      <4>3. ASSUME NEW x PROVE x \in LevelsOf(Kept') <=> x = n \/ (x \in S /\ x \notin ToSet(ms))
        BY <2>8, <2>16, <4>1, <4>2
      <4>4. QED
        BY <4>3
    <3>5. ASSUME NEW k \in Keys PROVE Shows(LevelsOf(Kept'), k, saved'[k])
      <4>1. Shows(S, k, saved[k])
        BY <2>1, <3>1 DEF Newest
      <4>2. PICK v : v = saved[k]
        OBVIOUS
      <4>3. Shows((S \ ToSet(ms)) \cup {n}, k, v)
        BY <2>3, <2>7, <3>2, <3>3, <4>1, <4>2, MergedShows
      <4>4. QED
        BY <1>3, <3>4, <4>2, <4>3
    <3>6. QED
      BY <3>5 DEF Newest
  <2>24. Files' /\ Complete'
    BY <2>17, <2>18, <2>20, <2>21, <2>22, <2>23 DEF Files, Complete
  <2>25. Merging' /\ cut' = "never"
    BY <1>2, <1>3, <1>5 DEF Merging
  <2>26. QED
    BY <2>24, <2>25 DEF ContentsInv
<1>6. QED
  BY <1>4, <1>5

-----------------------------------------------------------------------------
(* Crashes and restarts, and the theorems.                                   *)

LEMMA CrashContents == ASSUME IndInv, Crash PROVE ContentsInv'
<1>1. Types /\ ContentsInv
  BY DEF IndInv, FilesInv
<1>2. /\ UNCHANGED <<index, body, saved>> /\ state' = "down"
      /\ levels' = <<>> /\ renaming' = {} /\ dumped' = {} /\ merge' = NoMerge
      /\ cut' = IF cut = "never" /\ Unlinking THEN "among" ELSE cut
  BY DEF Crash, Change, Unlinking
<1>3. DOMAIN levels' = {} /\ ToSet(levels') = {}
  BY <1>2, InSet
<1>4. ~Unlinking' /\ Doomed' = {} /\ Merging'
  BY <1>2, NoMergeIs DEF Unlinking, Doomed, Merging
<1>5. Kept \subseteq Kept' /\ (~Unlinking => Kept' = Kept)
  BY <1>2, <1>4 DEF Kept, Doomed, Names
<1>6. cut' # "since" => Files'
  <2>1. ASSUME cut' # "since" PROVE Unique'
    BY <1>1, <1>2, <2>1 DEF ContentsInv, Files, Unique
  <2>2. Placed' /\ Backed' /\ Dumping'
    BY <1>2, <1>3 DEF Placed, Backed, Dumping
  <2>3. QED
    BY <2>1, <2>2 DEF Files
<1>7. cut' = "never" => Complete'
  <2>1. SUFFICES ASSUME cut' = "never" PROVE Complete'
    OBVIOUS
  <2>2. cut = "never" /\ Kept' = Kept
    BY <1>2, <1>5, <2>1
  <2>3. QED
    BY <1>1, <1>2, <2>2 DEF ContentsInv, Complete, Differ, Newest
<1>8. cut' = "among" => Preserved'
  <2>1. CASE cut = "never"
    <3>1. ASSUME NEW k \in Keys, saved[k] # NOT_FOUND PROVE \E f \in Kept : f.map[k] = saved[k]
      <4>1. PICK S : S = LevelsOf(Kept)
        OBVIOUS
      <4>2. Shows(S, k, saved[k])
        BY <1>1, <2>1, <4>1 DEF ContentsInv, Complete, Newest
      <4>3. PICK l \in S : l.map[k] = saved[k]
        BY <3>1, <4>2 DEF Shows
      <4>4. PICK f \in Kept : l = Level(f)
        BY <4>1 DEF LevelsOf
      <4>5. l.map = f.map
        BY <1>1, <4>4, LevelIs DEF Kept, Types
      <4>6. QED
        BY <4>3, <4>5
    <3>2. QED
      BY <1>2, <1>4, <1>5, <3>1 DEF Preserved
  <2>2. CASE cut = "among"
    BY <1>1, <1>2, <1>4, <1>5, <2>2, PreservedSame DEF ContentsInv
  <2>3. QED
    BY <1>2, <2>1, <2>2
<1>9. QED
  BY <1>4, <1>6, <1>7, <1>8 DEF ContentsInv

\* A map that is loaded has a level for every file, and nothing else.
LEMMA RestartContents == ASSUME IndInv, Restart PROVE ContentsInv'
<1>1. Types /\ ContentsInv
  BY DEF IndInv, FilesInv
<1>2. /\ state = "down"
      /\ UNCHANGED <<renaming, dumped, merge, index, body, saved, cut>>
  BY DEF Restart, directory, history
<1>3. levels = <<>> /\ renaming = {} /\ dumped = {} /\ merge = NoMerge
  BY <1>2 DEF IndInv, FilesInv, Stopped
<1>4. ~Unlinking /\ ~Unlinking' /\ Doomed = {} /\ Doomed' = {} /\ Merging'
  BY <1>2, <1>3, NoMergeIs DEF Unlinking, Doomed, Merging
<1>5. Kept' = Kept
  BY <1>2, <1>4, KeptSame
<1>6. cut = "among" => Preserved'
  BY <1>1, <1>2, <1>4, <1>5, PreservedSame DEF ContentsInv
<1>7. cut # "since" => Unique' /\ Dumping'
  BY <1>1, <1>2, <1>3 DEF ContentsInv, Files, Unique, Dumping
<1>8. cut = "never" => Differ' /\ Newest'
  BY <1>1, <1>2, <1>5 DEF ContentsInv, Complete, Differ, Newest
<1>9. CASE state' = "refused" /\ levels' = levels
  <2>1. DOMAIN levels' = {} /\ ToSet(levels') = {}
    BY <1>3, <1>9, InSet
  <2>2. Placed' /\ Backed'
    BY <2>1 DEF Placed, Backed
  <2>3. state' # "up"
    BY <1>9
  <2>4. QED
    BY <1>2, <1>4, <1>6, <1>7, <1>8, <2>2, <2>3 DEF ContentsInv, Files, Complete
<1>10. CASE (\A f \in index : Readable(f)) /\ levels' \in Loaded
  <2>1. Kept = index
    BY <1>4, <1>10 DEF Kept, Readable, Names
  <2>2. /\ levels' \in Seq(LevelType) /\ ToSet(levels') = LevelsOf(Kept)
        /\ \A i \in DOMAIN levels' : levels'[i] \in LevelsOf(Kept)
        /\ \A i, j \in DOMAIN levels' : i < j => levels'[i] # levels'[j] /\ ~Less(levels'[j], levels'[i])
    BY <1>1, <1>10, <2>1, LoadedIs
  <2>3. \A x \in LevelsOf(Kept) : \E f \in Kept : x = Level(f)
    BY DEF LevelsOf
  <2>4. \A f \in Kept : Level(f) \in LevelType /\ Level(f).file
    BY <1>1, LevelIs DEF Kept, Types
  <2>5. ASSUME cut # "since" PROVE Placed'
    <3>1. SUFFICES ASSUME NEW i \in DOMAIN levels', NEW j \in DOMAIN levels', i < j
                   PROVE  \/ Less(levels'[i], levels'[j])
                          \/ (cut = "among" /\ levels'[i].file /\ levels'[j].file
                              /\ ~Less(levels'[j], levels'[i]))
      BY <1>2 DEF Placed
    <3>2. PICK f \in Kept, g \in Kept : levels'[i] = Level(f) /\ levels'[j] = Level(g)
      BY <2>2, <2>3
    <3>3. PICK x, y : x = levels'[i] /\ y = levels'[j]
      OBVIOUS
    <3>4. x \in LevelType /\ y \in LevelType /\ x.file /\ y.file /\ x # y /\ ~Less(y, x)
      BY <2>2, <2>4, <3>1, <3>2, <3>3
    <3>5. CASE cut = "never"
      <4>1. ~SameCell(x, y)
        BY <1>1, <3>2, <3>3, <3>4, <3>5 DEF ContentsInv, Complete, Differ
      <4>2. QED
        BY <3>3, <3>4, <4>1 DEF SameCell
    <3>6. CASE cut = "among"
      BY <3>3, <3>4, <3>6
    <3>7. QED
      BY <1>1, <2>5, <3>5, <3>6 DEF Types
  <2>6. Backed'
    BY <1>5, <2>2, <2>3, <2>4 DEF Backed
  <2>7. Found'
    BY <1>5, <2>2 DEF Found, LevelsOf
  <2>8. QED
    BY <1>2, <1>4, <1>6, <1>7, <1>8, <2>5, <2>6, <2>7 DEF ContentsInv, Files, Complete
<1>11. QED
  BY <1>9, <1>10 DEF Restart

LEMMA ContentsInit == ASSUME Init PROVE ContentsInv
<1>1. /\ index = {} /\ levels = <<>> /\ renaming = {} /\ dumped = {} /\ cut = "never"
      /\ merge = NoMerge /\ saved = Empty
  BY DEF Init
<1>2. Kept = {} /\ LevelsOf(Kept) = {} /\ DOMAIN levels = {} /\ ToSet(levels) = {}
  BY <1>1, InSet DEF Kept, LevelsOf
<1>3. Files
  BY <1>1, <1>2 DEF Files, Unique, Placed, Backed, Dumping
<1>4. Merging
  BY <1>1, NoMergeIs DEF Merging
<1>5. Complete
  BY <1>1, <1>2 DEF Complete, Found, Differ, Newest, Shows, Empty
<1>6. QED
  BY <1>1, <1>3, <1>4, <1>5 DEF ContentsInv

LEMMA ContentsStay == ASSUME IndInv, UNCHANGED vars PROVE ContentsInv'
<1>1. /\ UNCHANGED <<state, levels, renaming, dumped, merge, index, body, saved, cut>>
      /\ ContentsInv
  BY DEF IndInv, vars, process, directory, history
<1>2. /\ Doomed' = Doomed /\ Unlinking' = Unlinking /\ ToSet(levels') = ToSet(levels)
      /\ (Merging => Merging')
  BY <1>1 DEF Doomed, Unlinking, Merging, ResultName, Result
<1>3. cut # "since" => Files' /\ Kept' = Kept
  BY <1>1, <1>2, FilesSame DEF ContentsInv
<1>4. cut = "never" => Complete'
  BY <1>1, <1>2, <1>3, CompleteSame DEF ContentsInv
<1>5. cut = "among" => Preserved'
  BY <1>1, <1>2, <1>3, PreservedSame DEF ContentsInv, Preserved
<1>6. QED
  BY <1>1, <1>2, <1>3, <1>4, <1>5 DEF ContentsInv

LEMMA IndKept == ASSUME IndInv, [Next]_vars PROVE IndInv'
<1>1. FilesInv'
  BY FilesKept DEF IndInv
<1>2. CASE UNCHANGED vars
  BY <1>2, ContentsStay, <1>1 DEF IndInv
<1>3. CASE Next
  <2>1. ContentsInv'
    BY <1>1, <1>3, ExchangeContents, DumpIndexContents, DumpBodyContents, DumpBodyFailsContents,
       PublishDumpContents, BeginMergeContents, WriteMergeContents, MergeEnds,
       RenameMergeIndexContents, RenameMergeBodyContents, UnlinkIndexContents, UnlinkBodyContents,
       CrashContents, RestartContents, Zenon DEF Next
  <2>2. QED
    BY <1>1, <2>1 DEF IndInv
<1>4. QED
  BY <1>2, <1>3

\* Whatever is done in whatever order, and wherever a crash or an error falls:
\* the files have their names, pairs and tails, and the whole files that stay are
\* the levels of the map, one in a cell, with what was written last on top.
THEOREM FilesInvariance == Spec => []IndInv
<1>1. Init => IndInv
  BY FilesInit, ContentsInit DEF IndInv
<1>2. IndInv /\ [Next]_vars => IndInv'
  BY IndKept
<1>3. QED
  BY <1>1, <1>2, PTL DEF Spec

\* The levels of a map that is up, as far as they are in files, have for every
\* key what was written last, through dumps, merges, failed renames, crashes and
\* restarts, until a crash falls among the unlinks of a merge.
THEOREM NewestAlwaysFound == Spec => []FindsNewest
<1>1. IndInv => FindsNewest
  <2>1. SUFFICES ASSUME IndInv, state = "up", cut = "never" PROVE OnDisk(levels, dumped) = saved
    BY DEF FindsNewest
  <2>2. Types /\ Files /\ Found /\ Differ /\ Newest
    BY <2>1 DEF IndInv, FilesInv, ContentsInv, Complete
  <2>3. InOrder
    BY <2>1, <2>2, NeverOrdered DEF Files, InOrder
  <2>4. OnDisk(levels, dumped) \in Maps /\ saved \in Maps
    BY <2>2, OnDiskIs DEF Types
  <2>5. PICK d : d = OnDisk(levels, dumped)
    OBVIOUS
  <2>6. ASSUME NEW k \in Keys PROVE d[k] = saved[k]
    <3>1. PICK S, v, w : S = LevelsOf(Kept) /\ v = d[k] /\ w = saved[k]
      OBVIOUS
    <3>2. S \subseteq LevelType /\ Shows(S, k, v) /\ Shows(S, k, w)
      BY <2>2, <2>3, <2>5, <3>1, LevelsOfType, DiskIs DEF DiskShown, Newest
    <3>3. QED
      BY <3>1, <3>2, ShowsOne
  <2>7. QED
    BY <2>4, <2>5, <2>6 DEF Maps
<1>2. QED
  BY <1>1, FilesInvariance, PTL

\* What was written last under a key is in a file that has its index and its
\* body, in every state between two steps of a dump, a merge, a crash or a
\* restart, a crash among unlinks included, until the merge that follows one.
THEOREM NothingEverLost == Spec => []NothingLost
<1>1. IndInv => NothingLost
  <2>1. SUFFICES ASSUME IndInv, cut # "since", NEW k \in Keys, saved[k] # NOT_FOUND
                 PROVE  \E f \in index : f.map[k] = saved[k] /\ f.name \in Names(body)
    BY DEF NothingLost
  <2>2. Types /\ ContentsInv
    BY <2>1 DEF IndInv, FilesInv
  <2>3. \E f \in Kept : f.map[k] = saved[k]
    <3>1. CASE cut = "never"
      <4>1. PICK S : S = LevelsOf(Kept)
        OBVIOUS
      <4>2. Shows(S, k, saved[k])
        BY <2>2, <3>1, <4>1 DEF ContentsInv, Complete, Newest
      <4>3. PICK l \in S : l.map[k] = saved[k]
        BY <2>1, <4>2 DEF Shows
      <4>4. PICK f \in Kept : l = Level(f)
        BY <4>1 DEF LevelsOf
      <4>5. l.map = f.map
        BY <2>2, <4>4, LevelIs DEF Kept, Types
      <4>6. QED
        BY <4>3, <4>5
    <3>2. CASE cut = "among"
      BY <2>1, <2>2, <3>2 DEF ContentsInv, Preserved
    <3>3. QED
      BY <2>1, <2>2, <3>1, <3>2 DEF Types
  <2>4. QED
    BY <2>3 DEF Kept
<1>2. QED
  BY <1>1, FilesInvariance, PTL
=============================================================================
