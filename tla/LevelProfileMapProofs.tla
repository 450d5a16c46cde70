------------------------ MODULE LevelProfileMapProofs ------------------------
(***************************************************************************)
(* Proofs about LevelProfileMap, for any keys, users, threads and limits,  *)
(* and whatever fails.  IndInv is about tasks: a level in memory has one   *)
(* task that dumps it, and two files of index 0 have a merge.              *)
(* ContentsKept is about contents, places and sizes, of a map that could   *)
(* open every level it had to merge: what was written last is found, the   *)
(* sizes are right, and dump() returns when all is in files.               *)
(***************************************************************************)
EXTENDS LevelProfileMap, LevelsProofs, TLAPS

With(f, arg, value) == [f EXCEPT ![arg] = value]

-------------------------------------------------------------------------------
(***************************************************************************)
(* Levels.                                                                 *)
(***************************************************************************)
\* A level that is a file and has no cell of a level 0 goes to a place where
\* the levels 0 stay first, and in order.
LEMMA InsertedZeroFirst ==
    ASSUME NEW ls \in Seq(LevelType), ZeroFirst(ls), NEW l \in LevelType, l.file,
           \A i \in DOMAIN ls : ls[i].index = 0 /\ l.index = 0 => ls[i].sub_index # l.sub_index
    PROVE  ZeroFirst(InsertLevel(ls, l))
<1> DEFINE L == {i \in DOMAIN ls : Less(ls[i], l)}
<1>1. PICK n \in Nat : n = Len(ls) /\ DOMAIN ls = 1 .. n
  BY Lists
<1>2. PICK c \in 0 .. n, r \in Seq(LevelType) :
        /\ c = Cardinality(L) /\ r = InsertLevel(ls, l) /\ DOMAIN r = 1 .. n + 1
        /\ \A i \in 1 .. n + 1 : r[i] = IF i <= c THEN ls[i] ELSE IF i = c + 1 THEN l ELSE ls[i - 1]
  <2>1. /\ Cardinality(L) \in 0 .. n
        /\ InsertLevel(ls, l) \in Seq(LevelType)
        /\ Len(InsertLevel(ls, l)) = n + 1
        /\ \A i \in 1 .. n + 1 : InsertLevel(ls, l)[i] =
              IF i <= Cardinality(L) THEN ls[i] ELSE IF i = Cardinality(L) + 1 THEN l ELSE ls[i - 1]
    BY <1>1, Inserted
  <2>2. DOMAIN InsertLevel(ls, l) = 1 .. n + 1
    BY <2>1, Lists
  <2> HIDE DEF L
  <2>3. QED
    BY <2>1, <2>2
<1>3. /\ \A i \in 1 .. n : (1 .. i) \subseteq L => i <= c
      /\ \A i \in 1 .. n : L \subseteq 1 .. (i - 1) => c <= i - 1
  <2>1. L \in SUBSET (1 .. n)
    BY <1>1
  <2> HIDE DEF L
  <2>2. /\ \A i \in 1 .. n : (1 .. i) \subseteq L => i <= Cardinality(L)
        /\ \A i \in 1 .. n : L \subseteq 1 .. (i - 1) => Cardinality(L) <= i - 1
    BY <2>1, Prefix
  <2>3. QED
    BY <1>2, <2>2
<1>4. /\ l.index \in Nat /\ l.sub_index \in Nat
      /\ \A i \in 1 .. n : ls[i] \in LevelType /\ ls[i].index \in Nat /\ ls[i].sub_index \in Nat
  <2>1. \A i \in 1 .. n : ls[i] \in LevelType
    BY <1>1, Lists
  <2>2. QED
    BY <2>1, Cells
<1>5. \A i, j \in 1 .. n : i < j /\ ls[j].index = 0 =>
          ls[i].index = 0 /\ ls[i].sub_index > ls[j].sub_index
  BY <1>1 DEF ZeroFirst
<1>6. ASSUME l.index = 0, NEW i \in 1 .. n, i <= c
      PROVE  ls[i].index = 0 /\ ls[i].sub_index > l.sub_index
  <2> SUFFICES ASSUME i \notin L PROVE FALSE
    BY <1>1, <1>4, <1>6, Cells
  <2>1. ASSUME NEW m \in L PROVE m \in 1 .. (i - 1)
    <3>1. m \in 1 .. n /\ ls[m].index = 0 /\ ls[m].sub_index > l.sub_index
      BY <1>1, <1>4, <1>6, <2>1, Cells
    <3>2. ~(i < m)
      <4>1. SUFFICES ASSUME i < m PROVE FALSE
        OBVIOUS
      <4>2. ls[i].index = 0 /\ ls[i].sub_index > ls[m].sub_index
        BY <1>5, <3>1, <4>1
      <4>3. ls[i].sub_index > l.sub_index
        BY <1>4, <3>1, <4>2
      <4>4. QED
        BY <1>1, <1>4, <1>6, <4>2, <4>3, Cells
    <3>3. m # i
      BY <2>1
    <3>4. QED
      BY <3>1, <3>2, <3>3
  <2>2. c <= i - 1
    BY <1>3, <2>1
  <2>3. QED
    BY <1>6, <2>2
<1>7. ASSUME NEW i \in 1 .. n, i > c, ls[i].index = 0
      PROVE  l.index = 0 /\ l.sub_index > ls[i].sub_index
  <2>1. ~((1 .. i) \subseteq L)
    <3> HIDE DEF L
    <3>1. QED
      BY <1>2, <1>3, <1>7
  <2>2. PICK m \in 1 .. i : m \notin L
    BY <2>1
  <2>3. m \in 1 .. n /\ ls[m].index = 0 /\ ls[m].sub_index >= ls[i].sub_index
    <3>1. CASE m = i
      BY <1>4, <1>7, <3>1
    <3>2. CASE m < i
      BY <1>4, <1>5, <1>7, <3>2
    <3>3. QED
      BY <2>2, <3>1, <3>2
  <2>4. ~Less(ls[m], l)
    BY <1>1, <2>2, <2>3
  <2>5. l.index = 0 /\ ~(ls[m].sub_index > l.sub_index)
    BY <1>4, <2>3, <2>4, Cells
  <2>6. ls[i].sub_index # l.sub_index
    BY <1>1, <1>7, <2>5
  <2>7. QED
    BY <1>4, <2>3, <2>5, <2>6
<1> HIDE DEF L
<1>8. ASSUME NEW i \in 1 .. n + 1, NEW j \in 1 .. n + 1, i < j, r[j].index = 0
      PROVE  r[i].index = 0 /\ r[i].sub_index > r[j].sub_index
  <2>1. CASE j <= c
    <3>1. i \in 1 .. n /\ j \in 1 .. n /\ i <= c /\ r[i] = ls[i] /\ r[j] = ls[j]
      BY <1>2, <1>8, <2>1
    <3>2. QED
      BY <1>5, <1>8, <3>1
  <2>2. CASE j = c + 1
    <3>1. i \in 1 .. n /\ i <= c /\ r[i] = ls[i] /\ r[j] = l
      BY <1>2, <1>8, <2>2
    <3>2. QED
      BY <1>6, <1>8, <3>1
  <2>3. CASE j > c + 1
    <3>1. j - 1 \in 1 .. n /\ j - 1 > c /\ r[j] = ls[j - 1]
      BY <1>2, <1>8, <2>3
    <3>2. CASE i <= c
      <4>1. i \in 1 .. n /\ i < j - 1 /\ r[i] = ls[i]
        BY <1>2, <1>8, <2>3, <3>2
      <4>2. QED
        BY <1>5, <1>8, <3>1, <4>1
    <3>3. CASE i = c + 1
      <4>1. r[i] = l
        BY <1>2, <3>3
      <4>2. QED
        BY <1>7, <1>8, <3>1, <4>1
    <3>4. CASE i > c + 1
      <4>1. i - 1 \in 1 .. n /\ i - 1 < j - 1 /\ r[i] = ls[i - 1]
        BY <1>2, <1>8, <3>4
      <4>2. QED
        BY <1>5, <1>8, <3>1, <4>1
    <3>5. QED
      BY <3>2, <3>3, <3>4
  <2>4. QED
    BY <1>2, <2>1, <2>2, <2>3
<1>9. ASSUME NEW i \in 1 .. n + 1 PROVE r[i].file \/ r[i].index = 0
  <2>1. \A k \in 1 .. n : ls[k].file \/ ls[k].index = 0
    BY <1>1 DEF ZeroFirst
  <2>2. CASE i <= c
    BY <1>2, <2>1, <2>2
  <2>3. CASE i > c + 1
    <3>1. i - 1 \in 1 .. n /\ r[i] = ls[i - 1]
      BY <1>2, <2>3
    <3>2. QED
      BY <2>1, <3>1
  <2>4. QED
    BY <1>2, <2>2, <2>3
<1>10. QED
  BY <1>2, <1>8, <1>9 DEF ZeroFirst

\* The levels after a merge: the levels 0 are first, and the same are in memory.
LEMMA Merged ==
    ASSUME NEW ls \in Seq(LevelType), ZeroFirst(ls),
           NEW ms \in Seq(LevelType), ms # <<>>, Filed(ls, ms),
           NEW p \in Ascending(Unmerged(ls, ms)),
           NEW new, new = InsertLevel(Select(ls, p), MergedLevel(ms))
    PROVE  /\ new \in Seq(LevelType) /\ ZeroFirst(new)
           /\ \A i \in DOMAIN ls : ~ls[i].file => \E k \in DOMAIN new : new[k] = ls[i]
           /\ \A k \in DOMAIN new : ~new[k].file => \E i \in DOMAIN ls : ls[i] = new[k]
<1>1. PICK l \in LevelType :
        /\ l = MergedLevel(ms) /\ l.file
        /\ l.index = 0 => ms[1].index = 0 /\ l.sub_index = ms[1].sub_index
  <2>1. Head(ms) = ms[1]
    OBVIOUS
  <2>2. QED
    BY <2>1, MergedLevelType, MergedZero
<1>2. 1 \in DOMAIN ms /\ ms[1] \in LevelType
  BY EmptySeq, Lists
<1>3. PICK s \in Seq(LevelType) :
        /\ s = Select(ls, p) /\ DOMAIN s = DOMAIN p
        /\ \A i \in DOMAIN p : p[i] \in Unmerged(ls, ms) /\ s[i] = ls[p[i]]
        /\ \A i, j \in DOMAIN p : i < j => p[i] < p[j]
        /\ \A k \in Unmerged(ls, ms) : \E i \in DOMAIN p : p[i] = k
  <2>1. Unmerged(ls, ms) \in SUBSET DOMAIN ls
    BY DEF Unmerged
  <2>2. QED
    BY <2>1, Selected
<1>4. \A i \in DOMAIN s :
          p[i] \in DOMAIN ls /\ s[i] = ls[p[i]] /\ \A j \in DOMAIN ms : ~SameCell(s[i], ms[j])
  BY <1>3 DEF Unmerged
<1>5. ZeroFirst(s)
  BY <1>3, <1>4 DEF ZeroFirst
<1>6. \A i \in DOMAIN s : s[i].index = 0 /\ l.index = 0 => s[i].sub_index # l.sub_index
  <2> SUFFICES ASSUME NEW i \in DOMAIN s, s[i].index = 0, l.index = 0, s[i].sub_index = l.sub_index
               PROVE  FALSE
    OBVIOUS
  <2>1. s[i] \in LevelType
    BY Lists
  <2>2. SameCell(s[i], ms[1])
    BY <1>1, <1>2, <2>1, Cells
  <2>3. QED
    BY <1>2, <1>4, <2>2
<1>7. PICK n \in Nat, c \in Nat :
        /\ c <= n /\ DOMAIN s = 1 .. n /\ DOMAIN new = 1 .. n + 1
        /\ new \in Seq(LevelType)
        /\ \A i \in 1 .. n + 1 : new[i] = IF i <= c THEN s[i] ELSE IF i = c + 1 THEN l ELSE s[i - 1]
  <2> DEFINE L == {i \in DOMAIN s : Less(s[i], l)}
  <2>1. PICK n \in Nat : n = Len(s) /\ DOMAIN s = 1 .. n
    BY Lists
  <2>2. new = InsertLevel(s, l)
    BY <1>1, <1>3
  <2>3. /\ Cardinality(L) \in 0 .. n
        /\ InsertLevel(s, l) \in Seq(LevelType)
        /\ Len(InsertLevel(s, l)) = n + 1
        /\ \A i \in 1 .. n + 1 : InsertLevel(s, l)[i] =
              IF i <= Cardinality(L) THEN s[i] ELSE IF i = Cardinality(L) + 1 THEN l ELSE s[i - 1]
    BY <2>1, Inserted
  <2>4. DOMAIN InsertLevel(s, l) = 1 .. n + 1
    BY <2>3, Lists
  <2> HIDE DEF L
  <2>5. PICK c \in 0 .. n : c = Cardinality(L)
    BY <2>3
  <2>6. \A i \in 1 .. n + 1 :
            new[i] = IF i <= c THEN s[i] ELSE IF i = c + 1 THEN l ELSE s[i - 1]
    BY <2>2, <2>3, <2>5
  <2>7. c \in Nat /\ c <= n /\ new \in Seq(LevelType) /\ DOMAIN new = 1 .. n + 1
    BY <2>2, <2>3, <2>4
  <2>8. QED
    BY <2>1, <2>6, <2>7
<1>8. ZeroFirst(new)
  BY <1>1, <1>3, <1>5, <1>6, InsertedZeroFirst
<1>9. ASSUME NEW i \in DOMAIN ls, ~ls[i].file PROVE \E k \in DOMAIN new : new[k] = ls[i]
  <2>1. ls[i].index = 0 /\ ls[i] \in LevelType
    BY <1>9, Lists DEF ZeroFirst
  <2>2. ASSUME NEW j \in DOMAIN ms, SameCell(ls[i], ms[j]) PROVE FALSE
    <3>1. ms[j] \in LevelType
      BY Lists
    <3>2. ms[j].index = 0 /\ ms[j].sub_index = ls[i].sub_index
      BY <2>1, <2>2, <3>1, Cells
    <3>3. PICK h \in DOMAIN ls : ls[h].file /\ ls[h].index = 0 /\ ls[h].sub_index = ls[i].sub_index
      BY <3>2 DEF Filed
    <3>4. h \in Int /\ i \in Int /\ h # i /\ ls[i].sub_index \in Nat
      BY <1>9, <2>1, <3>3, Lists, Cells
    <3>5. ~(h < i) /\ ~(i < h)
      BY <2>1, <3>3, <3>4 DEF ZeroFirst
    <3>6. QED
      BY <3>4, <3>5
  <2>3. PICK h \in 1 .. n : s[h] = ls[i]
    <3>1. i \in Unmerged(ls, ms)
      BY <2>2 DEF Unmerged
    <3>2. QED
      BY <1>3, <1>7, <3>1
  <2>4. CASE h <= c
    BY <1>7, <2>3, <2>4
  <2>5. CASE h > c
    <3>1. h + 1 \in 1 .. n + 1 /\ ~(h + 1 <= c) /\ h + 1 # c + 1 /\ (h + 1) - 1 = h
      BY <1>7, <2>5
    <3>2. QED
      BY <1>7, <2>3, <3>1
  <2>6. QED
    BY <1>7, <2>4, <2>5
<1>10. ASSUME NEW k \in DOMAIN new, ~new[k].file PROVE \E i \in DOMAIN ls : ls[i] = new[k]
  <2>1. k \in 1 .. n + 1 /\ k # c + 1
    BY <1>1, <1>7, <1>10
  <2>2. \E h \in 1 .. n : new[k] = s[h]
    <3>1. CASE k <= c
      BY <1>7, <2>1, <3>1
    <3>2. CASE k > c + 1
      <4>1. k - 1 \in 1 .. n
        BY <1>7, <2>1, <3>2
      <4>2. QED
        BY <1>7, <2>1, <3>2, <4>1
    <3>3. QED
      BY <1>7, <2>1, <3>1, <3>2
  <2>3. QED
    BY <1>4, <1>7, <2>2
<1>11. QED
  BY <1>7, <1>8, <1>9, <1>10

LEMMA OneOfIndex ==
    ASSUME NEW ls \in Seq(LevelType), ZeroFirst(ls), NEW i \in DOMAIN ls, NEW j \in DOMAIN ls,
           ls[i].index = 0, ls[j].index = 0, ls[i].sub_index = ls[j].sub_index
    PROVE  i = j
<1>1. i \in Int /\ j \in Int /\ ls[i].sub_index \in Nat
  BY Lists, Cells
<1>2. ~(i < j) /\ ~(j < i)
  BY <1>1 DEF ZeroFirst
<1>3. QED
  BY <1>1, <1>2

\* A new level in memory before the others.
LEMMA Exchanged ==
    ASSUME NEW ls \in Seq(LevelType), ZeroFirst(ls), NEW l \in LevelType, l.index = 0, ~l.file,
           ls # <<>> => l.sub_index = Head(ls).sub_index + 1
    PROVE  /\ OnTop(l, ls) \in Seq(LevelType) /\ ZeroFirst(OnTop(l, ls)) /\ ~InMemory(ls, l.sub_index)
           /\ \A i \in DOMAIN ls : \E k \in DOMAIN OnTop(l, ls) : OnTop(l, ls)[k] = ls[i]
           /\ \A k \in DOMAIN OnTop(l, ls) :
                 OnTop(l, ls)[k] = l \/ \E i \in DOMAIN ls : OnTop(l, ls)[k] = ls[i]
           /\ \E k \in DOMAIN OnTop(l, ls) : OnTop(l, ls)[k] = l
           /\ merge_check_(OnTop(l, ls)) => merge_check_(ls)
<1>1. PICK n \in Nat : n = Len(ls) /\ DOMAIN ls = 1 .. n
  BY Lists
<1> DEFINE new == OnTop(l, ls)
<1>2. /\ new \in Seq(LevelType) /\ DOMAIN new = 1 .. n + 1 /\ new[1] = l
      /\ \A i \in 1 .. n : new[i + 1] = ls[i]
  BY <1>1, Prepended, ZenonT(40) DEF OnTop
<1> HIDE DEF new
<1>3. \A k \in 1 .. n + 1 : k = 1 \/ (k - 1 \in 1 .. n /\ new[k] = ls[k - 1])
  <2>1. \A k \in 1 .. n + 1 : k = 1 \/ (k - 1 \in 1 .. n /\ (k - 1) + 1 = k)
    OBVIOUS
  <2>2. QED
    BY <1>2, <2>1
<1>4. \A i \in 1 .. n : ls[i] \in LevelType /\ ls[i].sub_index \in Nat
  BY <1>1, Lists, Cells
<1>5. ASSUME NEW i \in 1 .. n, ls[i].index = 0 PROVE l.sub_index > ls[i].sub_index
  <2>1. ls # <<>> /\ Head(ls) = ls[1] /\ 1 \in 1 .. n
    BY <1>1
  <2>2. i = 1 \/ ls[1].sub_index > ls[i].sub_index
    <3>1. i = 1 \/ 1 < i
      OBVIOUS
    <3>2. QED
      BY <1>1, <1>5, <2>1, <3>1 DEF ZeroFirst
  <2>3. QED
    BY <1>4, <2>1, <2>2
<1>6. ASSUME NEW i \in 1 .. n + 1, NEW j \in 1 .. n + 1, i < j, new[j].index = 0
      PROVE  new[i].index = 0 /\ new[i].sub_index > new[j].sub_index
  <2>1. j - 1 \in 1 .. n /\ new[j] = ls[j - 1]
    <3>1. j # 1
      BY <1>6
    <3>2. QED
      BY <1>3, <3>1
  <2>2. CASE i = 1
    BY <1>2, <1>5, <1>6, <2>1, <2>2
  <2>3. CASE i # 1
    <3>1. i - 1 \in 1 .. n /\ new[i] = ls[i - 1] /\ i - 1 < j - 1
      BY <1>3, <1>6, <2>3
    <3>2. QED
      BY <1>1, <1>6, <2>1, <3>1 DEF ZeroFirst
  <2>4. QED
    BY <2>2, <2>3
<1>7. ZeroFirst(new)
  <2>1. \A k \in 1 .. n : ls[k].file \/ ls[k].index = 0
    BY <1>1 DEF ZeroFirst
  <2>2. \A k \in 1 .. n + 1 : new[k].file \/ new[k].index = 0
    BY <1>2, <1>3, <2>1
  <2>3. QED
    BY <1>2, <1>6, <2>2 DEF ZeroFirst
<1>8. ~InMemory(ls, l.sub_index)
  <2>1. \A i \in 1 .. n : ls[i].file \/ ls[i].index = 0
    BY <1>1 DEF ZeroFirst
  <2>2. l.sub_index \in Nat
    BY Cells
  <2>3. ASSUME NEW i \in 1 .. n, ~ls[i].file PROVE ls[i].sub_index # l.sub_index
    BY <1>4, <1>5, <2>1, <2>2, <2>3
  <2>4. QED
    BY <1>1, <2>3 DEF InMemory
<1>9. ASSUME merge_check_(new) PROVE merge_check_(ls)
  <2>1. PICK i \in 1 .. n + 1, j \in 1 .. n + 1 :
          i < j /\ new[i].file /\ new[j].file /\ \A k \in 1 .. j : new[k].index = 0
    BY <1>2, <1>9 DEF merge_check_
  <2>2. /\ i - 1 \in 1 .. n /\ new[i] = ls[i - 1]
        /\ j - 1 \in 1 .. n /\ new[j] = ls[j - 1] /\ i - 1 < j - 1
    BY <1>2, <1>3, <2>1
  <2>3. ASSUME NEW k \in 1 .. j - 1 PROVE ls[k].index = 0
    <3>1. k \in 1 .. n /\ k + 1 \in 1 .. j
      BY <2>2
    <3>2. QED
      BY <1>2, <2>1, <3>1
  <2>4. QED
    BY <1>1, <2>1, <2>2, <2>3 DEF merge_check_
<1>10. ASSUME NEW i \in DOMAIN ls PROVE \E k \in DOMAIN new : new[k] = ls[i]
  <2>1. i \in 1 .. n /\ i + 1 \in 1 .. n + 1
    BY <1>1
  <2>2. QED
    BY <1>2, <2>1
<1>11. ASSUME NEW k \in DOMAIN new PROVE new[k] = l \/ \E i \in DOMAIN ls : new[k] = ls[i]
  BY <1>1, <1>2, <1>3
<1>12. \E k \in DOMAIN new : new[k] = l
  <2>1. 1 \in 1 .. n + 1
    OBVIOUS
  <2>2. QED
    BY <1>2, <2>1
<1>13. QED
  BY <1>2, <1>7, <1>8, <1>9, <1>10, <1>11, <1>12 DEF new

\* A file in the place of a level in memory.
LEMMA Dumped ==
    ASSUME NEW ls \in Seq(LevelType), ZeroFirst(ls), NEW i \in DOMAIN ls, ~ls[i].file,
           NEW f \in LevelType, f.file, f.index = 0, f.sub_index = ls[i].sub_index,
           NEW new, new = With(ls, i, f)
    PROVE  /\ new \in Seq(LevelType) /\ ZeroFirst(new) /\ DOMAIN new = DOMAIN ls
           /\ new[i] = f /\ \A k \in DOMAIN ls \ {i} : new[k] = ls[k]
           /\ \A s : InMemory(new, s) <=> InMemory(ls, s) /\ s # f.sub_index
           /\ \A ms : Filed(ls, ms) => Filed(new, ms)
<1>1. /\ new \in Seq(LevelType) /\ DOMAIN new = DOMAIN ls /\ new[i] = f
      /\ \A k \in DOMAIN ls \ {i} : new[k] = ls[k]
  BY DEF With
<1>2. ls[i].index = 0
  BY DEF ZeroFirst
<1>3. \A k \in DOMAIN ls : new[k].index = ls[k].index /\ new[k].sub_index = ls[k].sub_index
  BY <1>1, <1>2
<1>4. \A k \in DOMAIN ls : ls[k].file => new[k].file
  BY <1>1
<1>5. ZeroFirst(new)
  BY <1>1, <1>3, <1>4 DEF ZeroFirst
<1>6. ASSUME NEW s PROVE InMemory(new, s) <=> InMemory(ls, s) /\ s # f.sub_index
  <2>1. ASSUME NEW k \in DOMAIN ls, ~ls[k].file, ls[k].sub_index = f.sub_index PROVE k = i
    <3>1. ls[k].index = 0
      BY <2>1 DEF ZeroFirst
    <3>2. QED
      BY <1>2, <2>1, <3>1, OneOfIndex
  <2>2. QED
    BY <1>1, <2>1 DEF InMemory
<1>7. ASSUME NEW ms, Filed(ls, ms) PROVE Filed(new, ms)
  BY <1>1, <1>3, <1>4, <1>7 DEF Filed
<1>8. QED
  BY <1>1, <1>5, <1>6, <1>7

LEMMA Found ==
    ASSUME levels \in Seq(LevelType), ZeroFirst(levels), NEW i \in DOMAIN levels, levels[i].index = 0
    PROVE  FindLevel(levels[i].sub_index) = i
<1> DEFINE I == {k \in 1 .. Len(levels) : levels[k].index = 0 /\ levels[k].sub_index = levels[i].sub_index}
<1>1. Len(levels) \in Nat /\ DOMAIN levels = 1 .. Len(levels) /\ i \in I
  BY Lists
<1>2. \A k \in I : k = i
  BY <1>1, OneOfIndex
<1>3. FindLevel(levels[i].sub_index) = IF I # {} THEN Min(I) ELSE 0
  BY DEF FindLevel, SelectInSeq
<1>4. Min(I) \in I
  BY <1>1, FirstOf
<1>5. QED
  BY <1>1, <1>2, <1>3, <1>4

-------------------------------------------------------------------------------
(***************************************************************************)
(* Where the tasks are: what happens to them when one is dropped by a      *)
(* worker or by the planner, or goes to a worker, a plan or the queue.     *)
(***************************************************************************)
Placed(queue, plan, hands) ==
    /\ queue \in Seq(TaskType) /\ plan \in SUBSET TaskType
    /\ hands \in [Workers -> TaskType \cup {NoTask}]
    /\ HeldOnce(queue, plan, hands)

LEMMA Tasks ==
    /\ MergeTask \in TaskType /\ NoTask \notin TaskType
    /\ \A s \in Nat : DumpTask(s) \in TaskType /\ DumpTask(s).task = "dump"
                      /\ DumpTask(s).sub_index = s /\ DumpTask(s) # MergeTask
    /\ \A x \in TaskType : x = MergeTask \/ (x.task = "dump" /\ x.sub_index \in Nat /\ x = DumpTask(x.sub_index))
    /\ MergeTask.task = "merge"
  BY DEF TaskType, NoTask, MergeTask, DumpTask

LEMMA Appended ==
    ASSUME NEW ts, NEW pl, NEW h, Placed(ts, pl, h), NEW x \in TaskType, x \notin Underway(ts, pl, h)
    PROVE  /\ Placed(Append(ts, x), pl, h)
           /\ Underway(Append(ts, x), pl, h) = Underway(ts, pl, h) \cup {x}
<1>1. PICK n \in Nat : n = Len(ts) /\ DOMAIN ts = 1 .. n
  BY Lists DEF Placed
<1>2. PICK q \in Seq(TaskType) :
        /\ q = Append(ts, x) /\ DOMAIN q = 1 .. n + 1
        /\ \A i \in 1 .. n : q[i] = ts[i]
        /\ q[n + 1] = x
  <2>1. /\ Append(ts, x) \in Seq(TaskType) /\ Len(Append(ts, x)) = n + 1
        /\ \A i \in 1 .. n : Append(ts, x)[i] = ts[i]
        /\ Append(ts, x)[n + 1] = x
    BY <1>1, AppendProperties DEF Placed
  <2>2. DOMAIN Append(ts, x) = 1 .. n + 1
    BY <2>1, Lists
  <2>3. QED
    BY <2>1, <2>2
<1>3. x # NoTask
  BY Tasks
<1>4. x \notin pl /\ (\A i \in 1 .. n : ts[i] # x) /\ \A w \in Workers : h[w] # x
  BY <1>1, <1>3 DEF Underway
<1>5. \A i \in 1 .. n + 1 : i \in 1 .. n \/ i = n + 1
  OBVIOUS
<1>6. HeldOnce(q, pl, h)
  BY <1>1, <1>2, <1>4, <1>5 DEF HeldOnce, Placed
<1>7. {q[i] : i \in 1 .. n + 1} = {ts[i] : i \in 1 .. n} \cup {x}
  BY <1>2, <1>5
<1>8. QED
  BY <1>1, <1>2, <1>3, <1>6, <1>7 DEF Placed, Underway

LEMMA TakenOff ==
    ASSUME NEW ts, NEW pl, NEW h, Placed(ts, pl, h), ts # <<>>
    PROVE  /\ Placed(Tail(ts), pl, h) /\ Head(ts) \in TaskType
           /\ Head(ts) \notin Underway(Tail(ts), pl, h)
           /\ Underway(ts, pl, h) = Underway(Tail(ts), pl, h) \cup {Head(ts)}
<1>1. PICK n \in Nat : n = Len(ts) /\ DOMAIN ts = 1 .. n /\ n > 0
  BY Lists, EmptySeq DEF Placed
<1>2. PICK q \in Seq(TaskType) :
        /\ q = Tail(ts) /\ DOMAIN q = 1 .. n - 1
        /\ \A i \in 1 .. n - 1 : q[i] = ts[i + 1]
  <2>1. /\ Tail(ts) \in Seq(TaskType) /\ Len(Tail(ts)) = n - 1
        /\ \A i \in 1 .. n - 1 : Tail(ts)[i] = ts[i + 1]
    BY <1>1, HeadTailProperties DEF Placed
  <2>2. DOMAIN Tail(ts) = 1 .. n - 1
    BY <2>1, Lists
  <2>3. QED
    BY <2>1, <2>2
<1>3. PICK x \in TaskType : x = Head(ts) /\ x = ts[1] /\ x # NoTask
  BY <1>1, Tasks DEF Placed
<1>4. \A i \in 1 .. n : i = 1 \/ (i - 1 \in 1 .. n - 1 /\ q[i - 1] = ts[i])
  BY <1>1, <1>2
<1>5. \A i \in 1 .. n - 1 : i + 1 \in 1 .. n /\ i + 1 # 1
  OBVIOUS
<1>6. HeldOnce(q, pl, h)
  <2>1. ASSUME NEW i \in 1 .. n - 1, NEW j \in 1 .. n - 1, q[i] = q[j] PROVE i = j
    <3>1. i + 1 = j + 1
      BY <1>1, <1>2, <1>5, <2>1 DEF HeldOnce, Placed
    <3>2. QED
      BY <3>1
  <2>2. \A i \in 1 .. n - 1 : q[i] \notin pl /\ \A w \in Workers : q[i] # h[w]
    BY <1>1, <1>2, <1>5 DEF HeldOnce, Placed
  <2>3. QED
    BY <1>2, <2>1, <2>2 DEF HeldOnce, Placed
<1>7. {ts[i] : i \in 1 .. n} = {q[i] : i \in 1 .. n - 1} \cup {x}
  BY <1>1, <1>2, <1>3, <1>4, <1>5
<1>8. /\ \A i \in 1 .. n - 1 : q[i] # x
      /\ x \notin pl
      /\ \A w \in Workers : h[w] # x
  <2>1. \A i \in 1 .. n - 1 : ts[i + 1] # x
    BY <1>1, <1>3, <1>5 DEF HeldOnce, Placed
  <2>2. QED
    BY <1>1, <1>2, <1>3, <2>1 DEF HeldOnce, Placed
<1>9. /\ Underway(ts, pl, h) = ({ts[i] : i \in 1 .. n} \cup pl \cup {h[w] : w \in Workers}) \ {NoTask}
      /\ Underway(q, pl, h) = ({q[i] : i \in 1 .. n - 1} \cup pl \cup {h[w] : w \in Workers}) \ {NoTask}
  BY <1>1, <1>2 DEF Underway
<1>10. x \notin Underway(q, pl, h) /\ Underway(ts, pl, h) = Underway(q, pl, h) \cup {x}
  BY <1>3, <1>7, <1>8, <1>9
<1>11. QED
  BY <1>2, <1>3, <1>6, <1>10 DEF Placed

LEMMA InPlan ==
    ASSUME NEW ts, NEW pl, NEW h, Placed(ts, pl, h), NEW x \in TaskType, x \notin Underway(ts, pl, h)
    PROVE  /\ Placed(ts, pl \cup {x}, h)
           /\ Underway(ts, pl \cup {x}, h) = Underway(ts, pl, h) \cup {x}
<1>1. x # NoTask
  BY Tasks
<1>2. x \notin pl /\ (\A i \in DOMAIN ts : ts[i] # x) /\ \A w \in Workers : h[w] # x
  BY <1>1 DEF Underway
<1>3. HeldOnce(ts, pl \cup {x}, h)
  BY <1>2 DEF HeldOnce, Placed
<1>4. QED
  BY <1>1, <1>3 DEF Placed, Underway

LEMMA OutOfPlan ==
    ASSUME NEW ts, NEW pl, NEW h, Placed(ts, pl, h), NEW x \in pl, NEW rest, rest = pl \ {x}
    PROVE  /\ Placed(ts, rest, h) /\ x \in TaskType
           /\ x \notin Underway(ts, rest, h)
           /\ Underway(ts, pl, h) = Underway(ts, rest, h) \cup {x}
<1>1. x \in TaskType /\ x # NoTask
  BY Tasks DEF Placed
<1>2. (\A i \in DOMAIN ts : ts[i] # x) /\ \A w \in Workers : h[w] # x
  BY DEF HeldOnce, Placed
<1>3. HeldOnce(ts, rest, h)
  BY DEF HeldOnce, Placed
<1>4. QED
  BY <1>1, <1>2, <1>3 DEF Placed, Underway

LEMMA InHand ==
    ASSUME NEW ts, NEW pl, NEW h, Placed(ts, pl, h), NEW x \in TaskType, x \notin Underway(ts, pl, h),
           NEW w \in Workers, h[w] = NoTask
    PROVE  /\ Placed(ts, pl, With(h, w, x))
           /\ Underway(ts, pl, With(h, w, x)) = Underway(ts, pl, h) \cup {x}
<1>1. x # NoTask
  BY Tasks
<1>2. x \notin pl /\ (\A i \in DOMAIN ts : ts[i] # x) /\ \A v \in Workers : h[v] # x
  BY <1>1 DEF Underway
<1>3. PICK g : g = With(h, w, x)
  OBVIOUS
<1>4. g \in [Workers -> TaskType \cup {NoTask}] /\ g[w] = x /\ \A v \in Workers : v # w => g[v] = h[v]
  BY <1>3 DEF Placed, With
<1>5. HeldOnce(ts, pl, g)
  BY <1>2, <1>4 DEF HeldOnce, Placed
<1>6. {g[v] : v \in Workers} \ {NoTask} = ({h[v] : v \in Workers} \ {NoTask}) \cup {x}
  BY <1>1, <1>4
<1>7. QED
  BY <1>1, <1>3, <1>4, <1>5, <1>6 DEF Placed, Underway

LEMMA OutOfHand ==
    ASSUME NEW ts, NEW pl, NEW h, Placed(ts, pl, h), NEW w \in Workers, h[w] # NoTask
    PROVE  /\ Placed(ts, pl, With(h, w, NoTask)) /\ h[w] \in TaskType
           /\ h[w] \notin Underway(ts, pl, With(h, w, NoTask))
           /\ Underway(ts, pl, h) = Underway(ts, pl, With(h, w, NoTask)) \cup {h[w]}
<1>1. h[w] \in TaskType
  BY DEF Placed
<1>2. h[w] \notin pl /\ (\A i \in DOMAIN ts : ts[i] # h[w]) /\ \A v \in Workers : v # w => h[v] # h[w]
  BY DEF HeldOnce, Placed
<1>3. PICK g : g = With(h, w, NoTask)
  OBVIOUS
<1>4. g \in [Workers -> TaskType \cup {NoTask}] /\ g[w] = NoTask /\ \A v \in Workers : v # w => g[v] = h[v]
  BY <1>3 DEF Placed, With
<1>5. \A i \in DOMAIN ts : ts[i] # NoTask
  BY Tasks, Lists DEF Placed
<1>6. NoTask \notin pl
  BY Tasks DEF Placed
<1>7. HeldOnce(ts, pl, g)
  BY <1>4, <1>5, <1>6 DEF HeldOnce, Placed
<1>8. {h[v] : v \in Workers} \ {NoTask} = ({g[v] : v \in Workers} \ {NoTask}) \cup {h[w]}
  BY <1>4
<1>9. \A v \in Workers : g[v] # h[w]
  BY <1>2, <1>4
<1>10. QED
  BY <1>1, <1>2, <1>3, <1>4, <1>7, <1>8, <1>9 DEF Placed, Underway

-------------------------------------------------------------------------------
(***************************************************************************)
(* What a step of a worker has to keep.                                    *)
(***************************************************************************)
LEMMA Work ==
    ASSUME NEW x \in WorkType
    PROVE  /\ x.job = "write" => x.level \in LevelType /\ TaskIn(x) = DumpTask(x.level.sub_index)
           /\ x.job = "account" => x.area \in Int /\ x.merge \in BOOLEAN
           /\ x.job = "merge" => x.levels \in Seq(LevelType) /\ x.levels0 \in Nat
           /\ x.job = "recount" => x.added \in Nat /\ x.removed \in Nat /\ x.again \in BOOLEAN
           /\ x.job = "recheck" => x.again \in BOOLEAN /\ x.failed \in BOOLEAN
           /\ x.job \in MergeJobs => TaskIn(x) = MergeTask
           /\ x.job \in {"idle", "request", "account"} => TaskIn(x) = NoTask
           /\ x.job \in {"idle", "request", "write", "account"} \cup MergeJobs
           /\ x.job = "idle" => x = Idle
           /\ TaskIn(x) \in TaskType \cup {NoTask}
<1>1. x.job \in {"idle", "request", "write", "account"} \cup MergeJobs
  BY DEF WorkType, MergeJobs
<1>2. /\ x.job = "write" => x.level \in LevelType
      /\ x.job = "account" => x.area \in Int /\ x.merge \in BOOLEAN
      /\ x.job = "merge" => x.levels \in Seq(LevelType) /\ x.levels0 \in Nat
      /\ x.job = "recount" => x.added \in Nat /\ x.removed \in Nat /\ x.again \in BOOLEAN
      /\ x.job = "recheck" => x.again \in BOOLEAN /\ x.failed \in BOOLEAN
      /\ x.job = "idle" => x = Idle
  BY DEF WorkType, Idle
<1>3. /\ x.job \in MergeJobs => TaskIn(x) = MergeTask
      /\ x.job \in {"idle", "request", "account"} => TaskIn(x) = NoTask
      /\ x.job = "write" => TaskIn(x) = DumpTask(x.level.sub_index)
  BY DEF TaskIn, MergeJobs
<1>4. x.job = "write" => x.level.sub_index \in Nat
  BY <1>2, Cells
<1>5. TaskIn(x) \in TaskType \cup {NoTask}
  BY <1>1, <1>3, <1>4, Tasks
<1>6. QED
  BY <1>1, <1>2, <1>3, <1>5

LEMMA HandsKnown ==
    ASSUME work \in [Workers -> WorkType]
    PROVE  /\ Hands \in [Workers -> TaskType \cup {NoTask}]
           /\ \A w \in Workers : Hands[w] = TaskIn(work[w])
  BY Work DEF Hands

LEMMA HandsChanged ==
    ASSUME work \in [Workers -> WorkType], NEW w \in Workers, NEW x \in WorkType, Do(w, x)
    PROVE  Hands' = With(Hands, w, TaskIn(x))
<1>1. work' = [work EXCEPT ![w] = x]
  BY DEF Do
<1>2. \A v \in Workers : work'[v] = IF v = w THEN x ELSE work[v]
  BY <1>1
<1>3. Hands' = [v \in Workers |-> TaskIn(work'[v])]
  BY DEF Hands
<1>4. With(Hands, w, TaskIn(x)) = [v \in Workers |-> IF v = w THEN TaskIn(x) ELSE TaskIn(work[v])]
  BY DEF Hands, With
<1>5. \A v \in Workers : TaskIn(work'[v]) = IF v = w THEN TaskIn(x) ELSE TaskIn(work[v])
  BY <1>2
<1>6. QED
  BY <1>3, <1>4, <1>5

\* Nothing of the invariant is about a worker when all are closed.
LEMMA Known ==
    ASSUME IndInv
    PROVE  /\ Types /\ ZeroFirst(levels) /\ merge_tasks_count_ <= 1 /\ MergeNotForgotten
           /\ \A w \in Workers : work[w] \in WorkType /\ Current(work[w], levels)
           /\ owner # "closed" =>
                /\ Placed(tasks, planned, Hands)
                /\ Needed(Underway(tasks, planned, Hands), merge_tasks_count_, levels)
           /\ \A w \in Workers : work[w].job # "idle" => owner # "closed"
<1>1. Types
  BY DEF IndInv
<1>2. work \in [Workers -> WorkType]
  BY <1>1 DEF Types
<1>3. Hands \in [Workers -> TaskType \cup {NoTask}]
  BY <1>2, HandsKnown
<1>4. Idle.job = "idle"
  BY DEF Idle
<1>5. owner # "closed" => Placed(tasks, planned, Hands)
  BY <1>1, <1>3 DEF IndInv, Types, Placed
<1>6. \A w \in Workers : work[w].job # "idle" => owner # "closed"
  BY <1>4 DEF IndInv
<1>7. QED
  BY <1>1, <1>2, <1>5, <1>6 DEF IndInv

LEMMA WorkerDone ==
    ASSUME IndInv, owner # "closed", NEW w \in Workers, NEW x \in WorkType, Do(w, x),
           UNCHANGED <<rw_level, area_size_, profiles, owner>>,
           levels' \in Seq(LevelType), ZeroFirst(levels'),
           \A v \in Workers \ {w} : Current(work[v], levels'),
           Current(x, levels'),
           Placed(tasks', planned', With(Hands, w, TaskIn(x))),
           Needed(Underway(tasks', planned', With(Hands, w, TaskIn(x))), merge_tasks_count_', levels'),
           merge_check_(levels') /\ ~interrupted' =>
               merge_tasks_count_' > 0 \/ Asks(x) \/ \E v \in Workers \ {w} : Asks(work[v])
    PROVE  IndInv'
<1>1. /\ work \in [Workers -> WorkType] /\ rw_level \in Maps /\ area_size_ \in Int /\ profiles \in Nat
  BY DEF IndInv, Types
<1>2. work' \in [Workers -> WorkType] /\ work'[w] = x /\ \A v \in Workers \ {w} : work'[v] = work[v]
  BY <1>1 DEF Do
<1>3. Hands' = With(Hands, w, TaskIn(x))
  BY <1>1, HandsChanged
<1>4. /\ tasks' \in Seq(TaskType) /\ planned' \subseteq TaskType /\ HeldOnce(tasks', planned', Hands')
  BY <1>3 DEF Placed
<1>5. /\ Needed(Underway(tasks', planned', Hands'), merge_tasks_count_', levels')
  BY <1>3
<1>6. merge_tasks_count_' \in Int /\ merge_tasks_count_' <= 1
  BY <1>5 DEF Needed
<1>7. Types'
  BY <1>1, <1>2, <1>4, <1>6 DEF Types
<1>8. \A v \in Workers : Current(work'[v], levels')
  BY <1>2
<1>9. MergeNotForgotten'
  <2> SUFFICES ASSUME merge_check_(levels'), ~interrupted', ~(merge_tasks_count_' > 0)
               PROVE  \E v \in Workers : Asks(work'[v])
    BY DEF MergeNotForgotten
  <2>1. QED
    BY <1>2
<1>10. QED
  BY <1>4, <1>5, <1>6, <1>7, <1>8, <1>9 DEF IndInv

\* The levels stay as they are.
LEMMA WorkerMoves ==
    ASSUME IndInv, owner # "closed", NEW w \in Workers, NEW x \in WorkType, Do(w, x),
           UNCHANGED <<rw_level, area_size_, profiles, owner, levels, interrupted>>,
           Current(x, levels),
           Placed(tasks', planned', With(Hands, w, TaskIn(x))),
           Needed(Underway(tasks', planned', With(Hands, w, TaskIn(x))), merge_tasks_count_', levels),
           merge_tasks_count_' >= merge_tasks_count_,
           Asks(work[w]) => Asks(x) \/ merge_tasks_count_' > 0
    PROVE  IndInv'
<1>1. levels \in Seq(LevelType) /\ ZeroFirst(levels) /\ merge_tasks_count_ \in Int
  BY DEF IndInv, Types
<1>2. \A v \in Workers \ {w} : Current(work[v], levels)
  BY DEF IndInv
<1>3. merge_tasks_count_' \in Int
  BY DEF Needed
<1>4. merge_check_(levels) /\ ~interrupted =>
          merge_tasks_count_' > 0 \/ Asks(x) \/ \E v \in Workers \ {w} : Asks(work[v])
  <2>1. merge_check_(levels) /\ ~interrupted =>
            merge_tasks_count_ > 0 \/ \E v \in Workers : Asks(work[v])
    BY Known DEF MergeNotForgotten
  <2>2. QED
    BY <1>1, <1>3, <2>1
<1>5. /\ levels' \in Seq(LevelType) /\ ZeroFirst(levels')
      /\ \A v \in Workers \ {w} : Current(work[v], levels')
      /\ Current(x, levels')
  BY <1>1, <1>2
<1>6. merge_check_(levels') /\ ~interrupted' =>
          merge_tasks_count_' > 0 \/ Asks(x) \/ \E v \in Workers \ {w} : Asks(work[v])
  BY <1>4
<1>7. Needed(Underway(tasks', planned', With(Hands, w, TaskIn(x))), merge_tasks_count_', levels')
  OBVIOUS
<1>8. UNCHANGED <<rw_level, area_size_, profiles, owner>>
  OBVIOUS
<1>9. QED
  BY <1>5, <1>6, <1>7, <1>8, WorkerDone

-------------------------------------------------------------------------------
(***************************************************************************)
(* Steps of workers.                                                       *)
(***************************************************************************)
LEMMA SameHands ==
    ASSUME IndInv, owner # "closed", NEW w \in Workers, NEW x, TaskIn(x) = TaskIn(work[w])
    PROVE  /\ Placed(tasks, planned, With(Hands, w, TaskIn(x)))
           /\ Underway(tasks, planned, With(Hands, w, TaskIn(x))) = Underway(tasks, planned, Hands)
<1>1. work \in [Workers -> WorkType]
  BY Known DEF Types
<1>2. Hands \in [Workers -> TaskType \cup {NoTask}] /\ Hands[w] = TaskIn(x)
  BY <1>1, HandsKnown
<1>3. With(Hands, w, TaskIn(x)) = Hands
  BY <1>2 DEF With
<1>4. Placed(tasks, planned, Hands)
  BY Known
<1>5. QED
  BY <1>3, <1>4

LEMMA Taken ==
    ASSUME IndInv, owner # "closed", NEW w \in Workers, work[w] = Idle, tasks # <<>>
    PROVE  /\ Placed(Tail(tasks), planned, With(Hands, w, Head(tasks)))
           /\ Underway(Tail(tasks), planned, With(Hands, w, Head(tasks)))
                = Underway(tasks, planned, Hands)
           /\ Head(tasks) \in TaskType /\ Head(tasks) \in Underway(tasks, planned, Hands)
<1>1. work \in [Workers -> WorkType]
  BY Known DEF Types
<1>2. Hands[w] = NoTask
  BY <1>1, HandsKnown, Work DEF Idle
<1>3. Placed(tasks, planned, Hands)
  BY Known
<1>4. /\ Placed(Tail(tasks), planned, Hands) /\ Head(tasks) \in TaskType
      /\ Head(tasks) \notin Underway(Tail(tasks), planned, Hands)
      /\ Underway(tasks, planned, Hands) = Underway(Tail(tasks), planned, Hands) \cup {Head(tasks)}
  BY <1>3, TakenOff
<1>5. /\ Placed(Tail(tasks), planned, With(Hands, w, Head(tasks)))
      /\ Underway(Tail(tasks), planned, With(Hands, w, Head(tasks)))
           = Underway(Tail(tasks), planned, Hands) \cup {Head(tasks)}
  BY <1>2, <1>4, InHand
<1>6. QED
  BY <1>4, <1>5

LEMMA PutDown ==
    ASSUME IndInv, owner # "closed", NEW w \in Workers, TaskIn(work[w]) # NoTask
    PROVE  /\ Placed(tasks, planned, With(Hands, w, NoTask))
           /\ TaskIn(work[w]) \in TaskType
           /\ TaskIn(work[w]) \notin Underway(tasks, planned, With(Hands, w, NoTask))
           /\ Underway(tasks, planned, Hands)
                = Underway(tasks, planned, With(Hands, w, NoTask)) \cup {TaskIn(work[w])}
<1>1. work \in [Workers -> WorkType]
  BY Known DEF Types
<1>2. Hands[w] = TaskIn(work[w])
  BY <1>1, HandsKnown
<1>3. Placed(tasks, planned, Hands)
  BY Known
<1>4. Hands[w] # NoTask
  BY <1>2
<1>5. /\ Placed(tasks, planned, With(Hands, w, NoTask))
      /\ Hands[w] \in TaskType
      /\ Hands[w] \notin Underway(tasks, planned, With(Hands, w, NoTask))
      /\ Underway(tasks, planned, Hands)
           = Underway(tasks, planned, With(Hands, w, NoTask)) \cup {Hands[w]}
  BY <1>3, <1>4, OutOfHand
<1>6. QED
  BY <1>2, <1>5

LEMMA TakeDumpStep ==
    ASSUME IndInv, NEW w \in Workers, TakeDump(w) PROVE IndInv'
<1> DEFINE task == Head(tasks)
<1>1. /\ owner # "closed" /\ work[w] = Idle /\ tasks # <<>> /\ task.task = "dump"
      /\ tasks' = Tail(tasks) /\ planned' = planned
      /\ UNCHANGED <<rw_level, area_size_, profiles, owner, levels, interrupted, merge_tasks_count_>>
  BY DEF TakeDump, NextTask, Running, content_vars, merge_vars, owner_vars
<1>2. /\ levels \in Seq(LevelType) /\ ZeroFirst(levels)
      /\ Needed(Underway(tasks, planned, Hands), merge_tasks_count_, levels)
  BY <1>1, Known DEF Types
<1>3. task \in TaskType /\ task \in Underway(tasks, planned, Hands)
  BY <1>1, Taken
<1>4. task.sub_index \in Nat /\ task = DumpTask(task.sub_index)
  BY <1>1, <1>3, Tasks
<1>5. PICK i \in DOMAIN levels : ~levels[i].file /\ levels[i].sub_index = task.sub_index
  BY <1>1, <1>2, <1>3 DEF Needed, InMemory
<1>6. levels[i].index = 0
  BY <1>2, <1>5 DEF ZeroFirst
<1>7. FindLevel(task.sub_index) = i /\ i # 0
  BY <1>2, <1>5, <1>6, Found, Lists
<1> DEFINE x == [job |-> "write", level |-> levels[i]]
<1>8. Do(w, x)
  BY <1>7 DEF TakeDump
<1>9. levels[i] \in LevelType
  BY <1>2, Lists
<1>10. x \in WorkType /\ x.job = "write" /\ x.level = levels[i]
  BY <1>9 DEF WorkType
<1>11. Current(x, levels)
  BY <1>5, <1>10 DEF Current
<1>12. TaskIn(x) = task
  BY <1>4, <1>5, <1>10, Work
<1>13. /\ Placed(tasks', planned', With(Hands, w, TaskIn(x)))
       /\ Underway(tasks', planned', With(Hands, w, TaskIn(x))) = Underway(tasks, planned, Hands)
  BY <1>1, <1>12, Taken
<1>14. ~Asks(work[w])
  BY <1>1 DEF Asks, Idle
<1>15. merge_tasks_count_' >= merge_tasks_count_
  BY <1>1, <1>2 DEF Needed
<1> HIDE DEF x, task
<1>16. QED
  BY <1>1, <1>2, <1>8, <1>10, <1>11, <1>13, <1>14, <1>15, WorkerMoves

LEMMA DumpFailsStep ==
    ASSUME IndInv, NEW w \in Workers, DumpFails(w) PROVE IndInv'
<1>1. /\ work[w].job = "write" /\ Do(w, Idle)
      /\ planned' = planned \cup {DumpTask(work[w].level.sub_index)} /\ tasks' = tasks
      /\ UNCHANGED <<rw_level, area_size_, profiles, owner, levels, interrupted, merge_tasks_count_>>
  BY DEF DumpFails, content_vars, merge_vars, owner_vars
<1>2. work[w] \in WorkType /\ owner # "closed"
      /\ Needed(Underway(tasks, planned, Hands), merge_tasks_count_, levels)
  BY <1>1, Known
<1>3. work[w].level \in LevelType /\ TaskIn(work[w]) = DumpTask(work[w].level.sub_index)
  BY <1>1, <1>2, Work
<1>4. TaskIn(work[w]) # NoTask
  BY <1>3, Cells, Tasks
<1>5. Idle \in WorkType /\ Idle.job = "idle"
  BY DEF WorkType, Idle
<1>6. TaskIn(Idle) = NoTask /\ Current(Idle, levels) /\ ~Asks(work[w])
  BY <1>1, <1>5, Work DEF Current, Asks
<1>7. /\ Placed(tasks', planned', With(Hands, w, TaskIn(Idle)))
      /\ Underway(tasks', planned', With(Hands, w, TaskIn(Idle))) = Underway(tasks, planned, Hands)
  <2>1. /\ Placed(tasks, planned, With(Hands, w, NoTask))
        /\ TaskIn(work[w]) \in TaskType
        /\ TaskIn(work[w]) \notin Underway(tasks, planned, With(Hands, w, NoTask))
        /\ Underway(tasks, planned, Hands)
             = Underway(tasks, planned, With(Hands, w, NoTask)) \cup {TaskIn(work[w])}
    BY <1>2, <1>4, PutDown
  <2>2. /\ Placed(tasks, planned \cup {TaskIn(work[w])}, With(Hands, w, NoTask))
        /\ Underway(tasks, planned \cup {TaskIn(work[w])}, With(Hands, w, NoTask))
             = Underway(tasks, planned, With(Hands, w, NoTask)) \cup {TaskIn(work[w])}
    BY <2>1, InPlan
  <2>3. planned' = planned \cup {TaskIn(work[w])}
    BY <1>1, <1>3
  <2>4. QED
    BY <1>1, <1>6, <2>1, <2>2, <2>3
<1>8. merge_tasks_count_' >= merge_tasks_count_
  BY <1>1, <1>2 DEF Needed
<1>9. QED
  BY <1>1, <1>2, <1>5, <1>6, <1>7, <1>8, WorkerMoves

LEMMA DumpAccountsStep ==
    ASSUME IndInv, NEW w \in Workers, DumpAccounts(w) PROVE IndInv'
<1> DEFINE x == IF work[w].merge THEN [job |-> "request"] ELSE Idle
<1>1. /\ work[w].job = "account" /\ Do(w, x) /\ tasks' = tasks /\ planned' = planned
      /\ UNCHANGED <<rw_level, area_size_, profiles, owner, levels, interrupted, merge_tasks_count_>>
  BY DEF DumpAccounts, content_vars, merge_vars
<1>2. work[w] \in WorkType /\ owner # "closed"
      /\ Needed(Underway(tasks, planned, Hands), merge_tasks_count_, levels)
  BY <1>1, Known
<1>3. work[w].merge \in BOOLEAN /\ TaskIn(work[w]) = NoTask
  BY <1>1, <1>2, Work
<1>4. x \in WorkType /\ x.job \in {"idle", "request"} /\ (work[w].merge => x.job = "request")
  BY <1>3 DEF WorkType, Idle
<1>5. Asks(work[w]) => Asks(x)
  BY <1>1, <1>4 DEF Asks
<1>6. TaskIn(x) = NoTask /\ Current(x, levels)
  BY <1>4, Work DEF Current
<1>7. merge_tasks_count_' >= merge_tasks_count_
  BY <1>1, <1>2 DEF Needed
<1> HIDE DEF x
<1>8. /\ Placed(tasks', planned', With(Hands, w, TaskIn(x)))
      /\ Underway(tasks', planned', With(Hands, w, TaskIn(x))) = Underway(tasks, planned, Hands)
  BY <1>1, <1>2, <1>3, <1>6, SameHands
<1>9. QED
  BY <1>1, <1>2, <1>4, <1>5, <1>6, <1>7, <1>8, WorkerMoves

LEMMA RequestMergeStep ==
    ASSUME IndInv, NEW w \in Workers, RequestMerge(w) PROVE IndInv'
<1>1. /\ work[w].job = "request" /\ Do(w, Idle) /\ planned' = planned
      /\ UNCHANGED <<rw_level, area_size_, profiles, owner, levels>>
      /\ IF merge_tasks_count_ >= 1 THEN UNCHANGED <<merge_tasks_count_, tasks, interrupted>>
         ELSE merge_tasks_count_' = merge_tasks_count_ + 1 /\ tasks' = Append(tasks, MergeTask)
  BY DEF RequestMerge, content_vars, owner_vars
<1>2. /\ work[w] \in WorkType /\ owner # "closed" /\ levels \in Seq(LevelType) /\ ZeroFirst(levels)
      /\ Needed(Underway(tasks, planned, Hands), merge_tasks_count_, levels)
      /\ \A v \in Workers : Current(work[v], levels)
  BY <1>1, Known DEF Types
<1>3. Idle \in WorkType /\ Idle.job = "idle"
  BY DEF WorkType, Idle
<1>4. TaskIn(Idle) = TaskIn(work[w]) /\ Current(Idle, levels)
  BY <1>1, <1>2, <1>3, Work DEF Current
<1>5. /\ Placed(tasks, planned, With(Hands, w, TaskIn(Idle)))
      /\ Underway(tasks, planned, With(Hands, w, TaskIn(Idle))) = Underway(tasks, planned, Hands)
  BY <1>2, <1>4, SameHands
<1>6. merge_tasks_count_ \in {0, 1} /\ (merge_tasks_count_ = 1 <=> MergeTask \in Underway(tasks, planned, Hands))
  BY <1>2 DEF Needed
<1>7. CASE merge_tasks_count_ >= 1
  <2>1. tasks' = tasks /\ merge_tasks_count_' = merge_tasks_count_ /\ interrupted' = interrupted
    BY <1>1, <1>7
  <2>2. merge_tasks_count_' >= merge_tasks_count_ /\ merge_tasks_count_' > 0
    BY <1>6, <1>7, <2>1
  <2>3. QED
    BY <1>1, <1>2, <1>3, <1>4, <1>5, <2>1, <2>2, WorkerMoves
<1>8. CASE ~(merge_tasks_count_ >= 1)
  <2>1. tasks' = Append(tasks, MergeTask) /\ merge_tasks_count_' = 1
    BY <1>1, <1>6, <1>8
  <2>2. MergeTask \notin Underway(tasks, planned, With(Hands, w, TaskIn(Idle)))
    BY <1>5, <1>6, <1>8
  <2>3. /\ Placed(tasks', planned', With(Hands, w, TaskIn(Idle)))
        /\ Underway(tasks', planned', With(Hands, w, TaskIn(Idle))) = Underway(tasks, planned, Hands) \cup {MergeTask}
    BY <1>1, <1>5, <2>1, <2>2, Tasks, Appended
  <2>4. Needed(Underway(tasks, planned, Hands) \cup {MergeTask}, 1, levels)
    BY <1>2, Tasks DEF Needed
  <2>5. /\ levels' \in Seq(LevelType) /\ ZeroFirst(levels')
        /\ \A v \in Workers \ {w} : Current(work[v], levels')
        /\ Current(Idle, levels')
    BY <1>1, <1>2, <1>4
  <2>6. Needed(Underway(tasks', planned', With(Hands, w, TaskIn(Idle))), merge_tasks_count_', levels')
    BY <1>1, <2>1, <2>3, <2>4
  <2>7. merge_tasks_count_' > 0
    BY <2>1
  <2>8. QED
    BY <1>1, <1>2, <1>3, <2>3, <2>5, <2>6, <2>7, WorkerDone
<1>9. QED
  BY <1>7, <1>8

LEMMA TakeMergeStep ==
    ASSUME IndInv, NEW w \in Workers, TakeMerge(w) PROVE IndInv'
<1> DEFINE all == MergeLevels(levels)
           mergeJob(p) == [job |-> "merge", levels |-> Select(all, p), levels0 |-> Levels0(all)]
           noMerge == [job |-> "recheck", again |-> FALSE, failed |-> FALSE]
<1>1. /\ owner # "closed" /\ work[w] = Idle /\ tasks # <<>> /\ Head(tasks).task = "merge"
      /\ tasks' = Tail(tasks) /\ planned' = planned
      /\ UNCHANGED <<rw_level, area_size_, profiles, owner, levels, interrupted, merge_tasks_count_>>
  BY DEF TakeMerge, NextTask, Running, content_vars, merge_vars, owner_vars
<1>2. /\ levels \in Seq(LevelType) /\ ZeroFirst(levels)
      /\ Needed(Underway(tasks, planned, Hands), merge_tasks_count_, levels)
  BY <1>1, Known DEF Types
<1>3. Head(tasks) = MergeTask
  BY <1>1, Taken, Tasks
<1>4. /\ Placed(tasks', planned', With(Hands, w, MergeTask))
      /\ Underway(tasks', planned', With(Hands, w, MergeTask)) = Underway(tasks, planned, Hands)
  BY <1>1, <1>3, Taken
<1>5. ~Asks(work[w])
  BY <1>1 DEF Asks, Idle
<1>6. merge_tasks_count_' >= merge_tasks_count_
  BY <1>1, <1>2 DEF Needed
<1>7. \E x \in WorkType : Do(w, x) /\ x.job \in MergeJobs /\ Current(x, levels)
  <2>1. ASSUME NEW opened \in (SUBSET DOMAIN all) \ {{}}, NEW p \in Ascending(opened), Do(w, mergeJob(p))
        PROVE  \E x \in WorkType : Do(w, x) /\ x.job \in MergeJobs /\ Current(x, levels)
    <3>1. /\ all \in Seq(LevelType)
          /\ \A j \in DOMAIN all : \E i \in DOMAIN levels : levels[i] = all[j] /\ levels[i].file
      BY <1>2, MergeLevelsType
    <3> HIDE DEF all
    <3>2. PICK ms \in Seq(LevelType) :
            /\ ms = Select(all, p) /\ DOMAIN ms = DOMAIN p
            /\ \A i \in DOMAIN p : p[i] \in opened /\ ms[i] = all[p[i]]
            /\ \A k \in opened : \E i \in DOMAIN p : p[i] = k
      <4>1. opened \in SUBSET DOMAIN all
        OBVIOUS
      <4>2. QED
        BY <3>1, <4>1, Selected
    <3>3. ms # <<>>
      <4>1. PICK k \in opened : TRUE
        OBVIOUS
      <4>2. DOMAIN ms # {}
        BY <3>2, <4>1
      <4>3. QED
        BY <4>2
    <3>4. \A i \in DOMAIN ms : \E k \in DOMAIN levels : levels[k] = ms[i] /\ levels[k].file
      <4>1. \A i \in DOMAIN ms : p[i] \in DOMAIN all /\ ms[i] = all[p[i]]
        BY <3>2
      <4>2. QED
        BY <3>1, <4>1
    <3>5. Filed(levels, ms)
      BY <3>4 DEF Filed
    <3>6. Levels0(all) \in Nat
      BY <3>1, Levels0Type
    <3>7. mergeJob(p) \in WorkType /\ mergeJob(p).job = "merge" /\ mergeJob(p).levels = ms
      BY <3>2, <3>6 DEF WorkType
    <3> HIDE DEF mergeJob
    <3>8. QED
      BY <2>1, <3>3, <3>5, <3>7 DEF Current, MergeJobs
  <2>2. ASSUME Do(w, noMerge)
        PROVE  \E x \in WorkType : Do(w, x) /\ x.job \in MergeJobs /\ Current(x, levels)
    <3>1. noMerge \in WorkType /\ noMerge.job = "recheck"
      BY DEF WorkType
    <3> HIDE DEF noMerge
    <3>2. QED
      BY <2>2, <3>1 DEF Current, MergeJobs
  <2>3. \/ \E opened \in (SUBSET DOMAIN all) \ {{}} : \E p \in Ascending(opened) : Do(w, mergeJob(p))
        \/ Do(w, noMerge)
    BY DEF TakeMerge
  <2> HIDE DEF mergeJob, noMerge, all
  <2>4. QED
    BY <2>1, <2>2, <2>3
<1>8. PICK x \in WorkType : Do(w, x) /\ x.job \in MergeJobs /\ Current(x, levels)
  BY <1>7
<1>9. TaskIn(x) = MergeTask
  BY <1>8, Work
<1>10. QED
  BY <1>1, <1>2, <1>4, <1>5, <1>6, <1>8, <1>9, WorkerMoves

\* A merge goes on, or ends without a result.
LEMMA MergeGoesOn ==
    ASSUME IndInv, NEW w \in Workers, work[w].job \in {"merge", "recount"}, tasks' = tasks, planned' = planned,
           UNCHANGED <<rw_level, area_size_, profiles, owner, levels, interrupted, merge_tasks_count_>>,
           NEW again \in BOOLEAN, NEW failed \in BOOLEAN,
           Do(w, [job |-> "recheck", again |-> again, failed |-> failed])
    PROVE  IndInv'
<1> DEFINE x == [job |-> "recheck", again |-> again, failed |-> failed]
<1>1. x \in WorkType /\ x.job = "recheck" /\ Do(w, x)
  BY DEF WorkType
<1> HIDE DEF x
<1>2. /\ work[w] \in WorkType /\ owner # "closed"
      /\ Needed(Underway(tasks, planned, Hands), merge_tasks_count_, levels)
  BY Known
<1>3. TaskIn(x) = TaskIn(work[w])
  BY <1>1, <1>2, Work DEF MergeJobs
<1>4. Current(x, levels) /\ ~Asks(work[w])
  BY <1>1 DEF Current, Asks
<1>5. /\ Placed(tasks', planned', With(Hands, w, TaskIn(x)))
      /\ Underway(tasks', planned', With(Hands, w, TaskIn(x))) = Underway(tasks, planned, Hands)
  BY <1>2, <1>3, SameHands
<1>6. merge_tasks_count_' >= merge_tasks_count_
  BY <1>2 DEF Needed
<1>7. QED
  BY <1>1, <1>2, <1>4, <1>5, <1>6, WorkerMoves

LEMMA MergeInterruptedStep ==
    ASSUME IndInv, NEW w \in Workers, MergeInterrupted(w) PROVE IndInv'
  BY MergeGoesOn DEF MergeInterrupted, content_vars, merge_vars, owner_vars

LEMMA MergeFailsStep ==
    ASSUME IndInv, NEW w \in Workers, MergeFails(w) PROVE IndInv'
  BY MergeGoesOn DEF MergeFails, content_vars, merge_vars, owner_vars

LEMMA MergeAccountsStep ==
    ASSUME IndInv, NEW w \in Workers, MergeAccounts(w) PROVE IndInv'
<1>1. work[w].job = "recount" /\ work[w] \in WorkType
  BY Known DEF MergeAccounts
<1>2. work[w].again \in BOOLEAN
  BY <1>1, Work
<1>3. QED
  BY <1>1, <1>2, MergeGoesOn DEF MergeAccounts, content_vars, merge_vars

\* A worker that has a merge in hand is the only one, and is counted.
LEMMA OneInHand ==
    ASSUME IndInv, NEW w \in Workers, TaskIn(work[w]) # NoTask, owner # "closed"
    PROVE  /\ TaskIn(work[w]) \in Underway(tasks, planned, Hands)
           /\ \A v \in Workers \ {w} : TaskIn(work[v]) # TaskIn(work[w])
           /\ TaskIn(work[w]) = MergeTask => merge_tasks_count_ = 1
<1>1. work \in [Workers -> WorkType]
  BY Known DEF Types
<1>2. \A v \in Workers : Hands[v] = TaskIn(work[v])
  BY <1>1, HandsKnown
<1>3. TaskIn(work[w]) \in Underway(tasks, planned, Hands)
  BY PutDown
<1>4. HeldOnce(tasks, planned, Hands) /\ Needed(Underway(tasks, planned, Hands), merge_tasks_count_, levels)
  BY Known DEF Placed
<1>5. \A v \in Workers \ {w} : TaskIn(work[v]) # TaskIn(work[w])
  BY <1>2, <1>4 DEF HeldOnce
<1>6. TaskIn(work[w]) = MergeTask => merge_tasks_count_ = 1
  BY <1>3, <1>4 DEF Needed
<1>7. QED
  BY <1>3, <1>5, <1>6

LEMMA MergeAgainStep ==
    ASSUME IndInv, NEW w \in Workers, MergeAgain(w) PROVE IndInv'
<1>1. /\ work[w].job = "recheck" /\ Do(w, Idle)
      /\ \/ planned' = planned \cup {MergeTask} /\ tasks' = tasks
         \/ tasks' = Append(tasks, MergeTask) /\ planned' = planned
      /\ UNCHANGED <<rw_level, area_size_, profiles, owner, levels, interrupted, merge_tasks_count_>>
  BY DEF MergeAgain, content_vars, merge_vars, owner_vars
<1>2. work[w] \in WorkType /\ owner # "closed"
      /\ Needed(Underway(tasks, planned, Hands), merge_tasks_count_, levels)
  BY <1>1, Known
<1>3. TaskIn(work[w]) = MergeTask /\ MergeTask # NoTask
  BY <1>1, <1>2, Work, Tasks DEF MergeJobs
<1>4. Idle \in WorkType /\ Idle.job = "idle"
  BY DEF WorkType, Idle
<1>5. TaskIn(Idle) = NoTask /\ Current(Idle, levels) /\ ~Asks(work[w])
  BY <1>1, <1>4, Work DEF Current, Asks
<1>6. /\ Placed(tasks, planned, With(Hands, w, NoTask))
      /\ MergeTask \in TaskType
      /\ MergeTask \notin Underway(tasks, planned, With(Hands, w, NoTask))
      /\ Underway(tasks, planned, Hands)
           = Underway(tasks, planned, With(Hands, w, NoTask)) \cup {MergeTask}
  BY <1>2, <1>3, PutDown
<1>7. /\ Placed(tasks', planned', With(Hands, w, NoTask))
      /\ Underway(tasks', planned', With(Hands, w, NoTask)) = Underway(tasks, planned, Hands)
  <2>1. /\ Placed(tasks, planned \cup {MergeTask}, With(Hands, w, NoTask))
        /\ Underway(tasks, planned \cup {MergeTask}, With(Hands, w, NoTask))
             = Underway(tasks, planned, With(Hands, w, NoTask)) \cup {MergeTask}
    BY <1>6, InPlan
  <2>2. /\ Placed(Append(tasks, MergeTask), planned, With(Hands, w, NoTask))
        /\ Underway(Append(tasks, MergeTask), planned, With(Hands, w, NoTask))
             = Underway(tasks, planned, With(Hands, w, NoTask)) \cup {MergeTask}
    BY <1>6, Appended
  <2>3. QED
    BY <1>1, <1>6, <2>1, <2>2
<1>8. merge_tasks_count_' >= merge_tasks_count_
  BY <1>1, <1>2 DEF Needed
<1>9. QED
  BY <1>1, <1>2, <1>4, <1>5, <1>7, <1>8, WorkerMoves

\* Nothing is left to merge, unless dump() has stopped the merges.
LEMMA MergeEndsStep ==
    ASSUME IndInv, NEW w \in Workers, MergeEnds(w) PROVE IndInv'
<1>1. /\ work[w].job = "recheck" /\ Do(w, Idle) /\ tasks' = tasks /\ planned' = planned
      /\ merge_tasks_count_' = merge_tasks_count_ - 1
      /\ UNCHANGED <<rw_level, area_size_, profiles, owner, levels>>
  BY DEF MergeEnds, content_vars
<1>2. ~(merge_check_(levels) /\ ~interrupted')
  BY DEF MergeEnds, Again
<1>3. /\ work[w] \in WorkType /\ owner # "closed" /\ levels \in Seq(LevelType) /\ ZeroFirst(levels)
      /\ Needed(Underway(tasks, planned, Hands), merge_tasks_count_, levels)
      /\ \A v \in Workers : Current(work[v], levels)
  BY <1>1, Known DEF Types
<1>4. TaskIn(work[w]) = MergeTask /\ MergeTask # NoTask
  BY <1>1, <1>3, Work, Tasks DEF MergeJobs
<1>5. Idle \in WorkType /\ Idle.job = "idle"
  BY DEF WorkType, Idle
<1>6. TaskIn(Idle) = NoTask /\ Current(Idle, levels)
  BY <1>5, Work DEF Current
<1>7. /\ Placed(tasks, planned, With(Hands, w, NoTask))
      /\ MergeTask \notin Underway(tasks, planned, With(Hands, w, NoTask))
      /\ Underway(tasks, planned, Hands)
           = Underway(tasks, planned, With(Hands, w, NoTask)) \cup {MergeTask}
  BY <1>3, <1>4, PutDown
<1>8. merge_tasks_count_' = 0
  BY <1>1, <1>3, <1>4, OneInHand
<1>9. Needed(Underway(tasks, planned, With(Hands, w, NoTask)), 0, levels)
  BY <1>3, <1>7, Tasks, Lists, Cells DEF Needed
<1>10. /\ levels' \in Seq(LevelType) /\ ZeroFirst(levels')
       /\ \A v \in Workers \ {w} : Current(work[v], levels')
       /\ Current(Idle, levels')
  BY <1>1, <1>3, <1>6
<1>11. Needed(Underway(tasks', planned', With(Hands, w, TaskIn(Idle))), merge_tasks_count_', levels')
  BY <1>1, <1>6, <1>8, <1>9
<1>12. Placed(tasks', planned', With(Hands, w, TaskIn(Idle)))
  BY <1>1, <1>6, <1>7
<1>13. ~(merge_check_(levels') /\ ~interrupted')
  BY <1>1, <1>2
<1>14. QED
  BY <1>1, <1>3, <1>5, <1>10, <1>11, <1>12, <1>13, WorkerDone

\* The worker that makes two dumped levels 0 of one asks for their merge.
LEMMA DumpPublishesStep ==
    ASSUME IndInv, NEW w \in Workers, DumpPublishes(w) PROVE IndInv'
<1> DEFINE sub == work[w].level.sub_index
           file == FileLevel(0, sub, work[w].level.map)
<1>1. /\ work[w].job = "write" /\ tasks' = tasks /\ planned' = planned
      /\ UNCHANGED <<rw_level, area_size_, profiles, owner, interrupted, merge_tasks_count_>>
  BY DEF DumpPublishes, merge_vars, owner_vars
<1>2. /\ work[w] \in WorkType /\ owner # "closed" /\ levels \in Seq(LevelType) /\ ZeroFirst(levels)
      /\ Needed(Underway(tasks, planned, Hands), merge_tasks_count_, levels)
      /\ \A v \in Workers : Current(work[v], levels) /\ work[v] \in WorkType
  BY <1>1, Known DEF Types
<1>3. work[w].level \in LevelType /\ TaskIn(work[w]) = DumpTask(sub)
  BY <1>1, <1>2, Work
<1>4. sub \in Nat /\ TaskIn(work[w]) # NoTask /\ work[w].level.map \in Maps /\ work[w].level.area \in Nat
  BY <1>3, Cells, Tasks DEF LevelType
<1>5. PICK i \in DOMAIN levels : ~levels[i].file /\ levels[i] = work[w].level
  BY <1>1, <1>2 DEF Current
<1>6. levels[i].index = 0
  BY <1>2, <1>5 DEF ZeroFirst
<1>7. FindLevel(sub) = i
  BY <1>2, <1>5, <1>6, Found
<1> DEFINE new == With(levels, i, file)
           x == [job |-> "account", area |-> work[w].level.area, merge |-> merge_check_(new)]
<1>8. levels' = new /\ Do(w, x)
  BY <1>5, <1>7 DEF DumpPublishes, With
<1>9. file \in LevelType /\ file.file /\ file.index = 0 /\ file.sub_index = sub
  BY <1>4, AreaType DEF FileLevel, LevelType
<1>10. merge_check_(new) \in BOOLEAN
  BY DEF merge_check_
<1>11. x \in WorkType /\ x.job = "account" /\ x.merge = merge_check_(new)
  BY <1>4, <1>10 DEF WorkType
<1> HIDE DEF file
<1>12. /\ new \in Seq(LevelType) /\ ZeroFirst(new) /\ DOMAIN new = DOMAIN levels
       /\ \A k \in DOMAIN levels \ {i} : new[k] = levels[k]
       /\ \A s : InMemory(new, s) <=> InMemory(levels, s) /\ s # sub
       /\ \A ms : Filed(levels, ms) => Filed(new, ms)
       /\ new[i] = file
  BY <1>2, <1>5, <1>9, Dumped
<1> HIDE DEF new, x
<1>13. TaskIn(x) = NoTask /\ Current(x, new)
  BY <1>11, Work DEF Current
<1>14. Asks(x) <=> merge_check_(new)
  BY <1>11 DEF Asks
<1>15. ASSUME NEW v \in Workers \ {w} PROVE Current(work[v], new)
  <2>1. Current(work[v], levels) /\ work[v] \in WorkType
    BY <1>2
  <2>2. ASSUME work[v].job = "write" PROVE \E k \in DOMAIN new : ~new[k].file /\ new[k] = work[v].level
    <3>1. PICK k \in DOMAIN levels : ~levels[k].file /\ levels[k] = work[v].level
      BY <2>1, <2>2 DEF Current
    <3>2. TaskIn(work[v]) = DumpTask(work[v].level.sub_index)
      BY <2>1, <2>2, Work
    <3>3. TaskIn(work[v]) # TaskIn(work[w])
      BY <1>2, <1>4, OneInHand
    <3>4. k # i
      BY <1>3, <1>5, <3>1, <3>2, <3>3
    <3>5. QED
      BY <1>12, <3>1, <3>4
  <2>3. QED
    BY <1>12, <2>1, <2>2 DEF Current
<1>16. /\ Placed(tasks, planned, With(Hands, w, NoTask))
       /\ DumpTask(sub) \notin Underway(tasks, planned, With(Hands, w, NoTask))
       /\ Underway(tasks, planned, Hands)
            = Underway(tasks, planned, With(Hands, w, NoTask)) \cup {DumpTask(sub)}
  BY <1>2, <1>3, <1>4, PutDown
<1>17. Needed(Underway(tasks, planned, With(Hands, w, NoTask)), merge_tasks_count_, new)
  <2> DEFINE all == Underway(tasks, planned, With(Hands, w, NoTask))
  <2>1. merge_tasks_count_ \in {0, 1} /\ (merge_tasks_count_ = 1 <=> MergeTask \in all)
    <3>1. DumpTask(sub) # MergeTask
      BY <1>4, Tasks
    <3>2. QED
      BY <1>2, <1>16, <3>1 DEF Needed
  <2>2. ASSUME NEW k \in DOMAIN new, ~new[k].file PROVE DumpTask(new[k].sub_index) \in all
    <3>1. InMemory(new, new[k].sub_index)
      BY <2>2 DEF InMemory
    <3>2. new[k].sub_index # sub /\ new[k] = levels[k] /\ k \in DOMAIN levels
      BY <1>9, <1>12, <2>2, <3>1
    <3>3. DumpTask(new[k].sub_index) # DumpTask(sub)
      BY <3>2 DEF DumpTask
    <3>4. QED
      BY <1>2, <1>16, <2>2, <3>2, <3>3 DEF Needed
  <2>3. ASSUME NEW t \in all, t.task = "dump" PROVE InMemory(new, t.sub_index)
    <3>1. InMemory(levels, t.sub_index) /\ t # DumpTask(sub) /\ t \in TaskType
      <4>1. t \in Underway(tasks, planned, Hands) /\ t # DumpTask(sub)
        BY <1>16
      <4>2. t \in TaskType
        BY <1>16, Lists DEF Underway, Placed
      <4>3. QED
        BY <1>2, <2>3, <4>1, <4>2 DEF Needed
    <3>2. t.sub_index # sub
      BY <2>3, <3>1, Tasks
    <3>3. QED
      BY <1>12, <3>1, <3>2
  <2>4. QED
    BY <2>1, <2>2, <2>3 DEF Needed
<1>18. /\ levels' \in Seq(LevelType) /\ ZeroFirst(levels')
       /\ \A v \in Workers \ {w} : Current(work[v], levels')
       /\ Current(x, levels')
  BY <1>8, <1>12, <1>13, <1>15
<1>19. Needed(Underway(tasks', planned', With(Hands, w, TaskIn(x))), merge_tasks_count_', levels')
  BY <1>1, <1>8, <1>13, <1>17
<1>20. Placed(tasks', planned', With(Hands, w, TaskIn(x)))
  BY <1>1, <1>13, <1>16
<1>21. merge_check_(levels') => Asks(x)
  BY <1>8, <1>14
<1>22. QED
  BY <1>1, <1>2, <1>8, <1>11, <1>18, <1>19, <1>20, <1>21, WorkerDone

LEMMA MergePublishesStep ==
    ASSUME IndInv, NEW w \in Workers, MergePublishes(w) PROVE IndInv'
<1> DEFINE x == [job |-> "recount", added |-> IF MergedLevel(work[w].levels).index = 0 THEN 1 ELSE 0,
                 removed |-> work[w].levels0, again |-> merge_check_(levels')]
<1>1. /\ work[w].job = "merge" /\ tasks' = tasks /\ planned' = planned /\ Do(w, x)
      /\ UNCHANGED <<rw_level, area_size_, profiles, owner, interrupted, merge_tasks_count_>>
  BY DEF MergePublishes, merge_vars, owner_vars
<1>2. /\ work[w] \in WorkType /\ owner # "closed" /\ levels \in Seq(LevelType) /\ ZeroFirst(levels)
      /\ Needed(Underway(tasks, planned, Hands), merge_tasks_count_, levels)
      /\ \A v \in Workers : Current(work[v], levels) /\ work[v] \in WorkType
  BY <1>1, Known DEF Types
<1>3. work[w].levels \in Seq(LevelType) /\ work[w].levels0 \in Nat /\ TaskIn(work[w]) = MergeTask
  BY <1>1, <1>2, Work DEF MergeJobs
<1>4. work[w].levels # <<>> /\ Filed(levels, work[w].levels)
  BY <1>1, <1>2 DEF Current
<1>5. PICK p \in Ascending(Unmerged(levels, work[w].levels)) :
        levels' = InsertLevel(Select(levels, p), MergedLevel(work[w].levels))
  BY DEF MergePublishes
<1>6. /\ levels' \in Seq(LevelType) /\ ZeroFirst(levels')
      /\ \A i \in DOMAIN levels : ~levels[i].file => \E k \in DOMAIN levels' : levels'[k] = levels[i]
      /\ \A k \in DOMAIN levels' : ~levels'[k].file => \E i \in DOMAIN levels : levels[i] = levels'[k]
  BY <1>2, <1>3, <1>4, <1>5, Merged
<1>7. merge_check_(levels') \in BOOLEAN
  BY DEF merge_check_
<1>8. x \in WorkType /\ x.job = "recount"
  BY <1>3, <1>7 DEF WorkType
<1> HIDE DEF x
<1>9. TaskIn(x) = TaskIn(work[w]) /\ Current(x, levels')
  BY <1>3, <1>8, Work DEF MergeJobs, Current
<1>10. merge_tasks_count_ = 1 /\ \A v \in Workers \ {w} : TaskIn(work[v]) # MergeTask
  BY <1>2, <1>3, OneInHand, Tasks
<1>11. ASSUME NEW v \in Workers \ {w} PROVE Current(work[v], levels')
  <2>1. work[v].job # "merge"
    BY <1>2, <1>10, Work DEF MergeJobs
  <2>2. QED
    BY <1>2, <1>6, <2>1 DEF Current
<1>12. /\ Placed(tasks', planned', With(Hands, w, TaskIn(x)))
       /\ Underway(tasks', planned', With(Hands, w, TaskIn(x))) = Underway(tasks, planned, Hands)
  BY <1>1, <1>2, <1>9, SameHands
<1>13. Needed(Underway(tasks, planned, Hands), merge_tasks_count_, levels')
  BY <1>2, <1>6 DEF Needed, InMemory
<1>14. Needed(Underway(tasks', planned', With(Hands, w, TaskIn(x))), merge_tasks_count_', levels')
  BY <1>1, <1>12, <1>13
<1>15. merge_tasks_count_' > 0
  BY <1>1, <1>10
<1>16. QED
  BY <1>1, <1>2, <1>6, <1>8, <1>9, <1>11, <1>12, <1>14, <1>15, WorkerDone

-------------------------------------------------------------------------------
(***************************************************************************)
(* Steps of users, of the planner and of the owner.                        *)
(***************************************************************************)
LEMMA Idling ==
    ASSUME IndInv, work' = work,
           rw_level' \in Maps, area_size_' \in Int, profiles' \in Nat,
           tasks' \in Seq(TaskType), planned' \subseteq TaskType,
           levels' \in Seq(LevelType), ZeroFirst(levels'),
           \A w \in Workers : Current(work[w], levels'),
           merge_tasks_count_' = merge_tasks_count_, interrupted' = interrupted,
           merge_check_(levels') => merge_check_(levels),
           owner = "closed" => owner' = "closed",
           owner' = "closed" => \A w \in Workers : work[w] = Idle,
           owner' # "closed" => /\ Placed(tasks', planned', Hands)
                                /\ Needed(Underway(tasks', planned', Hands), merge_tasks_count_, levels')
    PROVE  IndInv'
<1>1. /\ work \in [Workers -> WorkType] /\ merge_tasks_count_ \in Int
      /\ merge_tasks_count_ <= 1 /\ MergeNotForgotten
  BY Known DEF Types
<1>2. Types'
  BY <1>1 DEF Types
<1>3. Hands' = Hands
  BY DEF Hands
<1>4. MergeNotForgotten'
  BY <1>1 DEF MergeNotForgotten
<1>5. owner' # "closed" =>
          /\ HeldOnce(tasks', planned', Hands')
          /\ Needed(Underway(tasks', planned', Hands'), merge_tasks_count_', levels')
  BY <1>3 DEF Placed
<1>6. \A w \in Workers : Current(work'[w], levels')
  OBVIOUS
<1>7. merge_tasks_count_' <= 1
  BY <1>1
<1>8. owner' = "closed" => \A w \in Workers : work'[w] = Idle
  OBVIOUS
<1>9. QED
  BY <1>2, <1>4, <1>5, <1>6, <1>7, <1>8 DEF IndInv

LEMMA Quiet ==
    ASSUME IndInv, rw_level' \in Maps, area_size_' \in Int, profiles' \in Nat,
           UNCHANGED <<levels, tasks, planned, work, merge_tasks_count_, interrupted>>,
           owner' = "closed" <=> owner = "closed"
    PROVE  IndInv'
<1>1. /\ tasks \in Seq(TaskType) /\ planned \subseteq TaskType /\ levels \in Seq(LevelType)
      /\ ZeroFirst(levels) /\ \A w \in Workers : Current(work[w], levels)
      /\ owner # "closed" =>
                /\ Placed(tasks, planned, Hands)
                /\ Needed(Underway(tasks, planned, Hands), merge_tasks_count_, levels)
  BY Known DEF Types
<1>2. owner = "closed" => \A w \in Workers : work[w] = Idle
  BY DEF IndInv
<1>3. QED
  BY <1>1, <1>2, Idling

LEMMA Exchange ==
    ASSUME IndInv, NEW map \in Maps, NEW area \in Int, exchange_rw_level_i_(map, area),
           profiles' \in Nat, owner' = "closed" <=> owner = "closed",
           UNCHANGED <<planned, work, merge_tasks_count_, interrupted>>
    PROVE  IndInv'
<1> DEFINE task == DumpTask(NewSubIndex)
           l == MemLevel(NewSubIndex, map, area)
<1>1. /\ tasks \in Seq(TaskType) /\ planned \subseteq TaskType /\ levels \in Seq(LevelType)
      /\ rw_level \in Maps /\ area_size_ \in Int
      /\ ZeroFirst(levels) /\ \A w \in Workers : Current(work[w], levels)
      /\ owner # "closed" =>
                /\ Placed(tasks, planned, Hands)
                /\ Needed(Underway(tasks, planned, Hands), merge_tasks_count_, levels)
  BY Known DEF Types
<1>2. CASE ~(area > 0)
  <2>1. UNCHANGED <<rw_level, area_size_, levels, tasks>>
    BY <1>2 DEF exchange_rw_level_i_
  <2>2. QED
    BY <1>1, <2>1, Quiet
<1>3. CASE area > 0
  <2>1. NewSubIndex \in Nat /\ (levels # <<>> => NewSubIndex = Head(levels).sub_index + 1)
    <3>1. levels # <<>> => Head(levels) \in LevelType
      BY <1>1
    <3>2. levels # <<>> => Head(levels).sub_index \in Nat
      BY <3>1, Cells
    <3>3. QED
      BY <3>2 DEF NewSubIndex
  <2>2. /\ levels' = <<l>> \o levels /\ tasks' = Append(tasks, task)
        /\ rw_level' = Empty /\ area_size_' = 0
    BY <1>3 DEF exchange_rw_level_i_
  <2>3. l \in LevelType /\ l.index = 0 /\ ~l.file /\ l.sub_index = NewSubIndex
    <3>1. area \in Nat
      BY <1>3
    <3>2. QED
      BY <2>1, <3>1 DEF MemLevel, LevelType
  <2>4. Empty \in Maps
    BY DEF Empty, Maps, NOT_FOUND
  <2> HIDE DEF l
  <2>5. PICK new \in Seq(LevelType) :
          /\ new = OnTop(l, levels) /\ ZeroFirst(new) /\ ~InMemory(levels, l.sub_index)
          /\ \A i \in DOMAIN levels : \E k \in DOMAIN new : new[k] = levels[i]
          /\ \A k \in DOMAIN new : new[k] = l \/ \E i \in DOMAIN levels : new[k] = levels[i]
          /\ \E k \in DOMAIN new : new[k] = l
          /\ merge_check_(new) => merge_check_(levels)
    BY <1>1, <2>1, <2>3, Exchanged
  <2>6. levels' = new
    BY <2>2, <2>5 DEF OnTop
  <2>7. \A w \in Workers : Current(work[w], new)
    <3>1. ASSUME NEW ms, Filed(levels, ms) PROVE Filed(new, ms)
      <4>1. SUFFICES ASSUME NEW j \in DOMAIN ms, ms[j].index = 0
                     PROVE  \E i \in DOMAIN new :
                                new[i].file /\ new[i].index = 0 /\ new[i].sub_index = ms[j].sub_index
        BY DEF Filed
      <4>2. PICK i \in DOMAIN levels :
              levels[i].file /\ levels[i].index = 0 /\ levels[i].sub_index = ms[j].sub_index
        BY <3>1, <4>1 DEF Filed
      <4>3. PICK k \in DOMAIN new : new[k] = levels[i]
        BY <2>5
      <4>4. QED
        BY <4>2, <4>3
    <3>2. ASSUME NEW i \in DOMAIN levels PROVE \E k \in DOMAIN new : new[k] = levels[i]
      BY <2>5
    <3>3. ASSUME NEW w \in Workers, work[w].job = "write"
          PROVE  \E i \in DOMAIN new : ~new[i].file /\ new[i] = work[w].level
      <4>1. PICK i \in DOMAIN levels : ~levels[i].file /\ levels[i] = work[w].level
        BY <1>1, <3>3 DEF Current
      <4>2. PICK k \in DOMAIN new : new[k] = levels[i]
        BY <3>2
      <4>3. QED
        BY <4>1, <4>2
    <3>4. QED
      BY <1>1, <3>1, <3>3 DEF Current
  <2>8. task \in TaskType /\ task # MergeTask /\ task.task = "dump" /\ task.sub_index = NewSubIndex
    BY <2>1, Tasks
  <2>9. tasks' \in Seq(TaskType)
    BY <1>1, <2>2, <2>8
  <2> HIDE DEF task
  <2>10. owner' # "closed" => /\ Placed(tasks', planned', Hands)
                              /\ Needed(Underway(tasks', planned', Hands), merge_tasks_count_, new)
    <3> SUFFICES ASSUME owner # "closed"
                 PROVE  /\ Placed(tasks', planned', Hands)
                        /\ Needed(Underway(tasks', planned', Hands), merge_tasks_count_, new)
      OBVIOUS
    <3> DEFINE all == Underway(tasks, planned, Hands)
    <3>1. Needed(all, merge_tasks_count_, levels) /\ Placed(tasks, planned, Hands)
      BY <1>1
    <3>2. task \notin all
      BY <2>3, <2>5, <2>8, <3>1 DEF Needed
    <3>3. Placed(tasks', planned', Hands) /\ Underway(tasks', planned', Hands) = all \cup {task}
      BY <2>2, <2>8, <3>1, <3>2, Appended
    <3> HIDE DEF all
    <3>4. \A i \in DOMAIN new : ~new[i].file => DumpTask(new[i].sub_index) \in all \cup {task}
      BY <2>3, <2>5, <3>1 DEF Needed, task
    <3>5. \A s : InMemory(levels, s) => InMemory(new, s)
      BY <2>5 DEF InMemory
    <3>6. InMemory(new, NewSubIndex)
      BY <2>3, <2>5 DEF InMemory
    <3>7. \A t \in all \cup {task} : t.task = "dump" => InMemory(new, t.sub_index)
      BY <2>8, <3>1, <3>5, <3>6 DEF Needed
    <3>8. Needed(all \cup {task}, merge_tasks_count_, new)
      BY <2>8, <3>1, <3>4, <3>7 DEF Needed
    <3>9. QED
      BY <3>3, <3>8
  <2>11. owner = "closed" => \A w \in Workers : work[w] = Idle
    BY DEF IndInv
  <2>12. merge_check_(levels') => merge_check_(levels)
    BY <2>5, <2>6
  <2>13. /\ levels' \in Seq(LevelType) /\ ZeroFirst(levels')
         /\ \A w \in Workers : Current(work[w], levels')
         /\ owner' # "closed" => /\ Placed(tasks', planned', Hands)
                                 /\ Needed(Underway(tasks', planned', Hands), merge_tasks_count_, levels')
    BY <2>5, <2>6, <2>7, <2>10
  <2>14. rw_level' \in Maps /\ area_size_' \in Int
    BY <2>2, <2>4
  <2>15. planned' \subseteq TaskType
    BY <1>1
  <2>16. QED
    BY <2>9, <2>11, <2>12, <2>13, <2>14, <2>15, Idling
<1>4. QED
  BY <1>2, <1>3

LEMMA ChangeStep ==
    ASSUME IndInv, NEW u \in Users, NEW k \in Keys, NEW entry \in Nat, NEW area \in Int,
           Change(u, k, entry, area), profiles' \in Nat
    PROVE  IndInv'
<1> DEFINE map == [rw_level EXCEPT ![k] = entry]
<1>1. map \in Maps
  BY Known DEF Types, Maps
<1>2. UNCHANGED <<planned, work, merge_tasks_count_, interrupted, owner>>
  BY DEF Change, merge_vars
<1>3. CASE area >= rwlevel_max_size_
  <2>1. exchange_rw_level_i_(map, area)
    BY <1>3 DEF Change
  <2> HIDE DEF map
  <2>2. QED
    BY <1>1, <1>2, <2>1, Exchange
<1>4. CASE ~(area >= rwlevel_max_size_)
  <2>1. rw_level' = map /\ area_size_' = area /\ UNCHANGED <<levels, tasks>>
    BY <1>4 DEF Change
  <2> HIDE DEF map
  <2>2. QED
    BY <1>1, <1>2, <2>1, Quiet
<1>5. QED
  BY <1>3, <1>4

LEMMA SaveStep == ASSUME IndInv, NEW u \in Users, save_profile(u) PROVE IndInv'
<1>1. profiles \in Nat /\ area_size_ \in Int /\ rw_level \in Maps
  BY Known DEF Types
<1>2. profiles' = profiles + 1
  BY DEF save_profile
<1>3. PICK k \in Keys :
        Change(u, k, profiles + 1, area_size_ - Size(rw_level[k]) + Size(profiles + 1))
  BY DEF save_profile
<1>4. area_size_ - Size(rw_level[k]) + Size(profiles + 1) \in Int
  <2>1. rw_level[k] \in Nat /\ profiles + 1 \in Nat
    BY <1>1 DEF Maps
  <2>2. Size(rw_level[k]) \in Int /\ Size(profiles + 1) \in Int
    BY <2>1, SizeType
  <2>3. QED
    BY <1>1, <2>2
<1>5. profiles + 1 \in Nat /\ profiles' \in Nat
  BY <1>1, <1>2
<1>6. QED
  BY <1>3, <1>4, <1>5, ChangeStep

LEMMA RemoveStep == ASSUME IndInv, NEW u \in Users, remove_profile(u) PROVE IndInv'
<1>1. profiles \in Nat /\ area_size_ \in Int /\ profiles' = profiles
  BY Known DEF Types, remove_profile
<1>2. ERASE \in Nat
  BY DEF ERASE
<1>3. PICK k \in Keys :
        Change(u, k, ERASE,
               IF rw_level[k] = NOT_FOUND THEN area_size_ + Size(ERASE) ELSE area_size_)
  BY DEF remove_profile
<1>4. (IF rw_level[k] = NOT_FOUND THEN area_size_ + Size(ERASE) ELSE area_size_) \in Int
  BY <1>1, <1>2, SizeType
<1>5. QED
  BY <1>1, <1>2, <1>3, <1>4, ChangeStep

LEMMA UserSteps ==
    ASSUME IndInv, NEW u \in Users, Call(u) \/ UserStep(u) PROVE IndInv'
<1>1. ASSUME UNCHANGED <<content_vars, task_vars, merge_vars, owner_vars>> PROVE IndInv'
  BY <1>1, Known, Quiet DEF Types, content_vars, task_vars, merge_vars, owner_vars
<1>2. CASE Call(u)
  BY <1>1, <1>2 DEF Call
<1>3. ASSUME NEW from, NEW to, Leave(u, from, to) PROVE IndInv'
  BY <1>1, <1>3 DEF Leave
<1>4. CASE UserStep(u)
  BY <1>3, <1>4, SaveStep, RemoveStep
     DEF UserStep, WaitBackground, BackgroundNotActive, PreconditionsHold, WaitRoom, NotActive, Blocked
<1>5. QED
  BY <1>2, <1>4

LEMMA ReaderSteps ==
    ASSUME IndInv, NEW r \in Readers, TakeSnapshot(r) \/ EndGet(r) PROVE IndInv'
<1>1. UNCHANGED <<rw_level, area_size_, profiles, levels, task_vars, merge_vars, owner_vars>>
  BY DEF TakeSnapshot, EndGet
<1>2. QED
  BY <1>1, Known, Quiet DEF Types, task_vars, merge_vars, owner_vars

LEMMA DeliverStep == ASSUME IndInv, Deliver PROVE IndInv'
<1>1. PICK x \in planned : planned' = planned \ {x} /\ tasks' = Append(tasks, x)
  BY DEF Deliver
<1>2. /\ owner # "closed"
      /\ UNCHANGED <<rw_level, area_size_, profiles, levels, work, merge_tasks_count_, interrupted, owner>>
  BY DEF Deliver, Running, content_vars, merge_vars, owner_vars
<1>3. /\ rw_level \in Maps /\ area_size_ \in Int /\ profiles \in Nat
      /\ levels \in Seq(LevelType) /\ ZeroFirst(levels) /\ \A w \in Workers : Current(work[w], levels)
      /\ Placed(tasks, planned, Hands)
      /\ Needed(Underway(tasks, planned, Hands), merge_tasks_count_, levels)
  BY <1>2, Known DEF Types
<1>4. /\ Placed(tasks, planned', Hands) /\ x \in TaskType
      /\ x \notin Underway(tasks, planned', Hands)
      /\ Underway(tasks, planned, Hands) = Underway(tasks, planned', Hands) \cup {x}
  BY <1>1, <1>3, OutOfPlan
<1>5. /\ Placed(tasks', planned', Hands)
      /\ Underway(tasks', planned', Hands) = Underway(tasks, planned, Hands)
  <2>1. /\ Placed(Append(tasks, x), planned', Hands)
        /\ Underway(Append(tasks, x), planned', Hands) = Underway(tasks, planned', Hands) \cup {x}
    BY <1>4, Appended
  <2>2. QED
    BY <1>1, <1>4, <2>1
<1>6. tasks' \in Seq(TaskType) /\ planned' \subseteq TaskType
  BY <1>5 DEF Placed
<1>7. Needed(Underway(tasks', planned', Hands), merge_tasks_count_, levels')
  BY <1>2, <1>3, <1>5
<1>8. QED
  BY <1>2, <1>3, <1>5, <1>6, <1>7, Idling

LEMMA OwnerSteps ==
    ASSUME IndInv, activate_object \/ deactivate_object \/ wait_object \/ DumpStep
    PROVE  IndInv'
<1>1. rw_level \in Maps /\ area_size_ \in Int /\ profiles \in Nat
  BY Known DEF Types
<1>2. CASE activate_object \/ wait_object
  BY <1>1, <1>2, Quiet DEF activate_object, wait_object, content_vars, task_vars, merge_vars
<1>3. CASE deactivate_object
  BY <1>1, <1>3, Exchange DEF deactivate_object, merge_vars
<1>4. CASE dump
  BY <1>1, <1>4, Exchange DEF dump, merge_vars
<1>5. CASE WaitUndumped \/ AllDumped \/ WaitMerges \/ MergesStopped
  BY <1>1, <1>5, Quiet
     DEF WaitUndumped, AllDumped, WaitMerges, MergesStopped, DumpGoto, content_vars, task_vars, merge_vars
<1>6. QED
  BY <1>2, <1>3, <1>4, <1>5 DEF DumpStep

LEMMA CloseStep == ASSUME IndInv, Close PROVE IndInv'
<1>1. /\ owner = "drained" /\ owner' = "closed" /\ \A w \in Workers : work[w] = Idle
      /\ tasks' = <<>> /\ planned' = {}
      /\ UNCHANGED <<rw_level, area_size_, profiles, levels, work, merge_tasks_count_, interrupted>>
  BY DEF Close, content_vars, merge_vars
<1>2. /\ rw_level \in Maps /\ area_size_ \in Int /\ profiles \in Nat
      /\ levels \in Seq(LevelType) /\ ZeroFirst(levels) /\ \A w \in Workers : Current(work[w], levels)
  BY Known DEF Types
<1>3. <<>> \in Seq(TaskType)
  BY EmptySeq
<1>4. QED
  BY <1>1, <1>2, <1>3, Idling

-------------------------------------------------------------------------------
LEMMA InitIndInv == ASSUME Init PROVE IndInv
<1>1. /\ levels \in Seq(LevelType)
      /\ \A i \in DOMAIN levels : levels[i].file
      /\ \A i, j \in DOMAIN levels : i < j => Less(levels[i], levels[j])
  BY InitialLevelsAssumption DEF Init, Ordered
<1>2. ZeroFirst(levels)
  <2>1. \A i \in DOMAIN levels : levels[i] \in LevelType
    BY <1>1, Lists
  <2>2. ASSUME NEW i \in DOMAIN levels, NEW j \in DOMAIN levels, i < j, levels[j].index = 0
        PROVE  levels[i].index = 0 /\ levels[i].sub_index > levels[j].sub_index
    <3>1. Less(levels[i], levels[j])
      BY <1>1, <2>2
    <3>2. QED
      BY <2>1, <2>2, <3>1, Cells
  <2>3. QED
    BY <1>1, <2>2 DEF ZeroFirst
<1>3. /\ work = [w \in Workers |-> Idle] /\ planned = {} /\ owner = "new"
      /\ rw_level = Empty /\ area_size_ = 0 /\ profiles = 2
      /\ merge_tasks_count_ = (IF merge_check_(levels) THEN 1 ELSE 0)
      /\ tasks = (IF merge_check_(levels) THEN <<MergeTask>> ELSE <<>>)
  BY DEF Init
<1>4. Idle \in WorkType /\ Idle.job = "idle" /\ TaskIn(Idle) = NoTask /\ Current(Idle, levels)
  <2>1. Idle \in WorkType /\ Idle.job = "idle"
    BY DEF WorkType, Idle
  <2>2. QED
    BY <2>1, Work DEF Current
<1>5. Empty \in Maps
  BY DEF Empty, Maps, NOT_FOUND
<1>6. tasks \in Seq(TaskType) /\ \A m \in DOMAIN tasks : m = 1 /\ tasks[m] = MergeTask
  <2>1. MergeTask \in TaskType
    BY Tasks
  <2>2. CASE merge_check_(levels)
    <3>1. tasks = <<MergeTask>>
      BY <1>3, <2>2
    <3>2. QED
      BY <2>1, <3>1
  <2>3. CASE ~merge_check_(levels)
    <3>1. tasks = <<>>
      BY <1>3, <2>3
    <3>2. QED
      BY <3>1
  <2>4. QED
    BY <2>2, <2>3
<1>7. merge_check_(levels) => 1 \in DOMAIN tasks
  BY <1>3
<1>8. ~merge_check_(levels) => DOMAIN tasks = {}
  BY <1>3
<1>9. Types
  BY <1>1, <1>3, <1>4, <1>5, <1>6 DEF Types
<1>10. \A w \in Workers : Hands[w] = NoTask
  BY <1>3, <1>4 DEF Hands
<1>11. HeldOnce(tasks, planned, Hands)
  BY <1>3, <1>6, <1>10, Tasks DEF HeldOnce
<1>12. Needed(Underway(tasks, planned, Hands), merge_tasks_count_, levels)
  <2>1. Underway(tasks, planned, Hands) = IF merge_check_(levels) THEN {MergeTask} ELSE {}
    <3>1. {Hands[w] : w \in Workers} \subseteq {NoTask}
      BY <1>10
    <3>2. {tasks[n] : n \in DOMAIN tasks} = IF merge_check_(levels) THEN {MergeTask} ELSE {}
      BY <1>6, <1>7, <1>8
    <3>3. MergeTask # NoTask
      BY Tasks
    <3>4. QED
      BY <1>3, <3>1, <3>2, <3>3 DEF Underway
  <2>2. \A x \in Underway(tasks, planned, Hands) : x.task # "dump"
    BY <2>1, Tasks
  <2>3. merge_tasks_count_ \in {0, 1} /\ (merge_tasks_count_ = 1 <=> MergeTask \in Underway(tasks, planned, Hands))
    BY <1>3, <2>1
  <2>4. QED
    BY <1>1, <2>2, <2>3 DEF Needed
<1>13. MergeNotForgotten
  BY <1>3 DEF MergeNotForgotten
<1>14. merge_tasks_count_ <= 1 /\ \A w \in Workers : Current(work[w], levels)
  BY <1>3, <1>4
<1>15. QED
  BY <1>2, <1>3, <1>9, <1>11, <1>12, <1>13, <1>14 DEF IndInv

LEMMA WorkerSteps == ASSUME IndInv, NEW w \in Workers, WorkerStep(w) PROVE IndInv'
  BY TakeDumpStep, DumpFailsStep, DumpPublishesStep, DumpAccountsStep, RequestMergeStep, TakeMergeStep,
     MergeInterruptedStep, MergeFailsStep, MergePublishesStep, MergeAccountsStep, MergeAgainStep, MergeEndsStep
     DEF WorkerStep

LEMMA NextIndInv == ASSUME IndInv, [Next]_vars PROVE IndInv'
<1>1. CASE UNCHANGED vars
  <2>1. UNCHANGED <<rw_level, area_size_, profiles, levels, tasks, planned, work, merge_tasks_count_,
                    interrupted, owner>>
    BY <1>1 DEF vars, content_vars, task_vars, merge_vars, owner_vars
  <2>2. QED
    BY <2>1, Known, Quiet DEF Types
<1>2. CASE Next
  BY <1>2, WorkerSteps, UserSteps, ReaderSteps, DeliverStep, OwnerSteps, CloseStep DEF Next
<1>3. QED
  BY <1>1, <1>2

\* Whatever the order in which threads save, exchange, dump, merge and fail,
\* every task is in one place, for a level in memory or for a merge, and what
\* threads work on is still there (dump_mem_level_, merge_levels_).
THEOREM MapInvariance == Spec => []IndInv
<1>1. Init => IndInv
  BY InitIndInv
<1>2. IndInv /\ [Next]_vars => IndInv'
  BY NextIndInv
<1>3. QED
  BY <1>1, <1>2, PTL DEF Spec

-------------------------------------------------------------------------------
(***************************************************************************)
(* What the invariant says of the queue, the planner and the threads.      *)
(***************************************************************************)
LEMMA AtMostOne ==
    ASSUME NEW S, \A a, b \in S : a = b
    PROVE  Cardinality(S) = IF S = {} THEN 0 ELSE 1
<1>1. CASE S = {}
  BY <1>1, FS_EmptySet
<1>2. CASE S # {}
  <2>1. PICK a \in S : TRUE
    BY <1>2
  <2>2. S = {a}
    BY <2>1
  <2>3. QED
    BY <1>2, <2>2, FS_Singleton
<1>3. QED
  BY <1>1, <1>2

LEMMA OnePlace ==
    ASSUME NEW ts, NEW pl, NEW h, Placed(ts, pl, h), NEW x \in TaskType
    PROVE  Cardinality({n \in DOMAIN ts : ts[n] = x}) + Cardinality(pl \cap {x})
             + Cardinality({w \in Workers : h[w] = x})
               = IF x \in Underway(ts, pl, h) THEN 1 ELSE 0
<1> DEFINE N == {n \in DOMAIN ts : ts[n] = x}
           P == pl \cap {x}
           W == {w \in Workers : h[w] = x}
<1>1. x # NoTask
  BY Tasks
<1>2. /\ \A a, b \in N : a = b
      /\ \A a, b \in P : a = b
      /\ \A a, b \in W : a = b
  BY <1>1 DEF Placed, HeldOnce
<1>3. (N = {} \/ P = {}) /\ (N = {} \/ W = {}) /\ (P = {} \/ W = {})
  BY DEF Placed, HeldOnce
<1>4. x \in Underway(ts, pl, h) <=> N # {} \/ P # {} \/ W # {}
  BY <1>1 DEF Underway
<1> HIDE DEF N, P, W
<1>5. /\ Cardinality(N) = IF N = {} THEN 0 ELSE 1
      /\ Cardinality(P) = IF P = {} THEN 0 ELSE 1
      /\ Cardinality(W) = IF W = {} THEN 0 ELSE 1
  BY <1>2, AtMostOne
<1>6. Cardinality(N) + Cardinality(P) + Cardinality(W) = IF x \in Underway(ts, pl, h) THEN 1 ELSE 0
  BY <1>3, <1>4, <1>5
<1>7. QED
  BY <1>6 DEF N, P, W

LEMMA InvMergesCounted == ASSUME IndInv PROVE MergesCounted
<1>1. merge_tasks_count_ <= 1 /\ MergeNotForgotten /\ work \in [Workers -> WorkType]
  BY Known DEF Types
<1>2. ASSUME owner # "closed"
      PROVE  merge_tasks_count_ = Cardinality({n \in DOMAIN tasks : tasks[n] = MergeTask})
                                  + Cardinality(planned \cap {MergeTask})
                                  + Cardinality({w \in Workers : work[w].job \in MergeJobs})
  <2>1. /\ Placed(tasks, planned, Hands)
        /\ Needed(Underway(tasks, planned, Hands), merge_tasks_count_, levels)
    BY <1>2, Known
  <2>2. \A w \in Workers : work[w].job \in MergeJobs <=> Hands[w] = MergeTask
    <3>1. ASSUME NEW w \in Workers PROVE work[w].job \in MergeJobs <=> Hands[w] = MergeTask
      <4>1. work[w] \in WorkType /\ Hands[w] = TaskIn(work[w])
        BY <1>1, HandsKnown
      <4>2. work[w].job = "write" => TaskIn(work[w]) # MergeTask
        BY <4>1, Work, Cells, Tasks
      <4>3. QED
        BY <4>1, <4>2, Work, Tasks
    <3>2. QED
      BY <3>1
  <2>3. {w \in Workers : work[w].job \in MergeJobs} = {w \in Workers : Hands[w] = MergeTask}
    BY <2>2
  <2>4. merge_tasks_count_ = IF MergeTask \in Underway(tasks, planned, Hands) THEN 1 ELSE 0
    BY <2>1 DEF Needed
  <2>5. Cardinality({n \in DOMAIN tasks : tasks[n] = MergeTask}) + Cardinality(planned \cap {MergeTask})
          + Cardinality({w \in Workers : Hands[w] = MergeTask})
            = IF MergeTask \in Underway(tasks, planned, Hands) THEN 1 ELSE 0
    BY <2>1, Tasks, OnePlace
  <2>6. QED
    BY <2>3, <2>4, <2>5
<1>3. QED
  BY <1>1, <1>2 DEF MergesCounted, OneMerge

LEMMA InvEveryLevelDumpedOnce == ASSUME IndInv PROVE EveryLevelDumpedOnce
<1> SUFFICES ASSUME owner # "closed"
             PROVE
        /\ \A x \in Pending \ {MergeTask} : FindLevel(x.sub_index) # 0 /\ ~levels[FindLevel(x.sub_index)].file
        /\ \A i \in DOMAIN levels : ~levels[i].file =>
             Cardinality({n \in DOMAIN tasks : tasks[n] = DumpTask(levels[i].sub_index)})
             + Cardinality(planned \cap {DumpTask(levels[i].sub_index)})
             + Cardinality({w \in Workers : Dumping(w, levels[i].sub_index)}) = 1
        /\ \A w \in Workers : work[w].job = "write"
             => LET i == FindLevel(work[w].level.sub_index)
                IN i # 0 /\ levels[i] = work[w].level
  BY DEF EveryLevelDumpedOnce
<1>1. /\ work \in [Workers -> WorkType] /\ levels \in Seq(LevelType) /\ ZeroFirst(levels)
      /\ \A w \in Workers : Current(work[w], levels)
      /\ Placed(tasks, planned, Hands)
      /\ Needed(Underway(tasks, planned, Hands), merge_tasks_count_, levels)
  BY Known DEF Types
<1>2. ASSUME NEW i \in DOMAIN levels, ~levels[i].file
      PROVE  FindLevel(levels[i].sub_index) = i /\ i # 0
  <2>1. levels[i].index = 0
    BY <1>1, <1>2 DEF ZeroFirst
  <2>2. i # 0
    BY <1>1, Lists
  <2>3. QED
    BY <1>1, <2>1, <2>2, Found
<1>3. ASSUME NEW x \in Pending \ {MergeTask}
      PROVE  FindLevel(x.sub_index) # 0 /\ ~levels[FindLevel(x.sub_index)].file
  <2>1. x \in TaskType /\ x \in Underway(tasks, planned, Hands)
    <3>1. x \in planned \/ \E n \in DOMAIN tasks : x = tasks[n]
      BY DEF Pending, ToSet
    <3>2. x \in TaskType
      BY <1>1, <3>1, Lists DEF Placed
    <3>3. QED
      BY <3>1, <3>2, Tasks DEF Underway
  <2>2. PICK i \in DOMAIN levels : ~levels[i].file /\ levels[i].sub_index = x.sub_index
    BY <1>1, <2>1, Tasks DEF Needed, InMemory
  <2>3. QED
    BY <1>2, <2>2
<1>4. ASSUME NEW i \in DOMAIN levels, ~levels[i].file
      PROVE  Cardinality({n \in DOMAIN tasks : tasks[n] = DumpTask(levels[i].sub_index)})
             + Cardinality(planned \cap {DumpTask(levels[i].sub_index)})
             + Cardinality({w \in Workers : Dumping(w, levels[i].sub_index)}) = 1
  <2> DEFINE x == DumpTask(levels[i].sub_index)
  <2>1. levels[i].sub_index \in Nat
    BY <1>1, Lists, Cells
  <2>2. x \in TaskType /\ x # MergeTask /\ x # NoTask
    BY <2>1, Tasks
  <2>3. x \in Underway(tasks, planned, Hands)
    BY <1>1, <1>4 DEF Needed
  <2>4. ASSUME NEW w \in Workers PROVE Dumping(w, levels[i].sub_index) <=> Hands[w] = x
    <3>1. work[w] \in WorkType /\ Hands[w] = TaskIn(work[w])
      BY <1>1, HandsKnown
    <3>2. work[w].job # "write" => TaskIn(work[w]) # x
      BY <2>2, <3>1, Work
    <3>3. work[w].job = "write" =>
              (TaskIn(work[w]) = x <=> work[w].level.sub_index = levels[i].sub_index)
      BY <3>1, Work DEF DumpTask
    <3>4. QED
      BY <3>1, <3>2, <3>3 DEF Dumping
  <2>5. {w \in Workers : Dumping(w, levels[i].sub_index)} = {w \in Workers : Hands[w] = x}
    BY <2>4
  <2> HIDE DEF x
  <2>6. Cardinality({n \in DOMAIN tasks : tasks[n] = x}) + Cardinality(planned \cap {x})
          + Cardinality({w \in Workers : Hands[w] = x})
            = IF x \in Underway(tasks, planned, Hands) THEN 1 ELSE 0
    BY <1>1, <2>2, OnePlace
  <2>7. QED
    BY <2>3, <2>5, <2>6 DEF x
<1>5. ASSUME NEW w \in Workers, work[w].job = "write"
      PROVE  FindLevel(work[w].level.sub_index) # 0 /\ levels[FindLevel(work[w].level.sub_index)] = work[w].level
  <2>1. PICK i \in DOMAIN levels : ~levels[i].file /\ levels[i] = work[w].level
    BY <1>1, <1>5 DEF Current
  <2>2. QED
    BY <1>2, <2>1
<1>6. QED
  BY <1>3, <1>4, <1>5

\* Every level in memory has one task that will dump it, and every such task its
\* level (the assertions of dump_mem_level_); two files of index 0 have a merge
\* that is queued, planned, running or about to be asked for, and never two
\* (merge_tasks_count_).
THEOREM TasksAlwaysOnce == Spec => []EveryTaskOnce
<1>1. IndInv => EveryTaskOnce
  BY InvMergesCounted, InvEveryLevelDumpedOnce DEF EveryTaskOnce
<1>2. QED
  BY MapInvariance, <1>1, PTL

-------------------------------------------------------------------------------
(***************************************************************************)
(* Contents, places and sizes, of a map that could open what it merged.    *)
(***************************************************************************)
\* What all threads have still to count.
InDumps(wk) == Total([w \in Workers |-> DumpedArea(wk[w])])
InAdds(wk) == Total([w \in Workers |-> Added(wk[w])])
InRemoves(wk) == Total([w \in Workers |-> Removed(wk[w])])

LEMMA Uncounted ==
    ASSUME NEW x \in WorkType
    PROVE  DumpedArea(x) \in Nat /\ Added(x) \in Nat /\ Removed(x) \in Nat
<1>1. /\ x.job = "account" => x.area \in Nat
      /\ x.job = "recount" => x.added \in Nat /\ x.removed \in Nat
  BY DEF WorkType
<1>2. QED
  BY <1>1 DEF DumpedArea, Added, Removed

LEMMA CountsType ==
    ASSUME NEW wk \in [Workers -> WorkType]
    PROVE  InDumps(wk) \in Nat /\ InAdds(wk) \in Nat /\ InRemoves(wk) \in Nat
<1>1. IsFiniteSet(Workers)
  BY LevelProfileMapAssumption
<1>2. /\ [w \in Workers |-> DumpedArea(wk[w])] \in [Workers -> Nat]
      /\ [w \in Workers |-> Added(wk[w])] \in [Workers -> Nat]
      /\ [w \in Workers |-> Removed(wk[w])] \in [Workers -> Nat]
  BY Uncounted
<1>3. QED
  BY <1>1, <1>2, TotalType DEF InDumps, InAdds, InRemoves

LEMMA CountsChanged ==
    ASSUME NEW wk \in [Workers -> WorkType], NEW new \in [Workers -> WorkType], NEW w \in Workers,
           \A v \in Workers \ {w} : new[v] = wk[v]
    PROVE  /\ InDumps(new) = InDumps(wk) - DumpedArea(wk[w]) + DumpedArea(new[w])
           /\ InAdds(new) = InAdds(wk) - Added(wk[w]) + Added(new[w])
           /\ InRemoves(new) = InRemoves(wk) - Removed(wk[w]) + Removed(new[w])
<1> DEFINE f1 == [v \in Workers |-> DumpedArea(wk[v])]
           g1 == [v \in Workers |-> DumpedArea(new[v])]
           f2 == [v \in Workers |-> Added(wk[v])]
           g2 == [v \in Workers |-> Added(new[v])]
           f3 == [v \in Workers |-> Removed(wk[v])]
           g3 == [v \in Workers |-> Removed(new[v])]
<1>1. IsFiniteSet(Workers)
  BY LevelProfileMapAssumption
<1>2. /\ f1 \in [Workers -> Nat] /\ g1 \in [Workers -> Nat]
      /\ f2 \in [Workers -> Nat] /\ g2 \in [Workers -> Nat]
      /\ f3 \in [Workers -> Nat] /\ g3 \in [Workers -> Nat]
  BY Uncounted
<1>3. /\ \A v \in Workers \ {w} : g1[v] = f1[v]
      /\ \A v \in Workers \ {w} : g2[v] = f2[v]
      /\ \A v \in Workers \ {w} : g3[v] = f3[v]
  OBVIOUS
<1>4. /\ f1[w] = DumpedArea(wk[w]) /\ g1[w] = DumpedArea(new[w])
      /\ f2[w] = Added(wk[w]) /\ g2[w] = Added(new[w])
      /\ f3[w] = Removed(wk[w]) /\ g3[w] = Removed(new[w])
  OBVIOUS
<1>5. /\ InDumps(wk) = Total(f1) /\ InDumps(new) = Total(g1)
      /\ InAdds(wk) = Total(f2) /\ InAdds(new) = Total(g2)
      /\ InRemoves(wk) = Total(f3) /\ InRemoves(new) = Total(g3)
  BY DEF InDumps, InAdds, InRemoves
<1> HIDE DEF f1, g1, f2, g2, f3, g3
<1>6. Total(g1) = Total(f1) - f1[w] + g1[w]
  BY <1>1, <1>2, <1>3, TotalChanged
<1>7. Total(g2) = Total(f2) - f2[w] + g2[w]
  BY <1>1, <1>2, <1>3, TotalChanged
<1>8. Total(g3) = Total(f3) - f3[w] + g3[w]
  BY <1>1, <1>2, <1>3, TotalChanged
<1>9. QED
  BY <1>4, <1>5, <1>6, <1>7, <1>8

\* What a reader who takes the map holder now finds for a key.
Latest(map, ls, k) == IF map[k] # NOT_FOUND THEN map[k] ELSE Overlay(ls)[k]

LEMMA LatestOnTop ==
    ASSUME NEW map \in Maps, NEW area \in Nat, NEW ls \in Seq(LevelType), NEW sub \in Nat
    PROVE  /\ Overlay(OnTop(MemLevel(sub, map, area), ls)) \in Maps
           /\ \A k \in Keys : Overlay(OnTop(MemLevel(sub, map, area), ls))[k] = Latest(map, ls, k)
<1>1. PICK l : l = MemLevel(sub, map, area)
  OBVIOUS
<1>2. l \in LevelType /\ l.map = map
  BY <1>1 DEF MemLevel, LevelType
<1>3. OnTop(l, ls) \in Seq(LevelType)
  BY <1>2, OnTopType
<1>4. Overlay(OnTop(l, ls)) \in Maps
  BY <1>3, OverlayType
<1>5. \A k \in Keys : Overlay(OnTop(l, ls))[k] = Latest(map, ls, k)
  BY <1>2, OverlayOnTop DEF Latest
<1>6. QED
  BY <1>1, <1>4, <1>5

Wins(map, ls, wr) == wr \in Maps /\ \A k \in Keys : wr[k] = Latest(map, ls, k)

LEMMA WinsOnTop ==
    ASSUME NEW map \in Maps, NEW area \in Nat, NEW ls \in Seq(LevelType), NEW wr
    PROVE  Overlay(<<MemLevel(0, map, area)>> \o ls) = wr <=> Wins(map, ls, wr)
<1>1. PICK top : top = Overlay(OnTop(MemLevel(0, map, area), ls))
  OBVIOUS
<1>2. top \in Maps /\ \A k \in Keys : top[k] = Latest(map, ls, k)
  <2>1. 0 \in Nat
    OBVIOUS
  <2>2. QED
    BY <1>1, <2>1, LatestOnTop
<1>3. top = wr <=> Wins(map, ls, wr)
  BY <1>2 DEF Wins, Maps
<1>4. QED
  BY <1>1, <1>3 DEF OnTop

\* The parts of the invariant, of values.
Sizes0(undumped, zeros, area, ls, wk) ==
    /\ zeros \in Int
    /\ undumped = area + MemoryArea(ls) + InDumps(wk)
    /\ zeros + InAdds(wk) = Levels0(ls) + InRemoves(wk)

Areas(map, area, ls) ==
    /\ Area(map) <= area
    /\ \A l \in ToSet(ls) : IF l.file THEN l.area = Area(l.map) ELSE l.area > 0

Finds(snap, ls) ==
    /\ snap \in [Readers -> SnapshotType]
    /\ \A r \in Readers : snap[r].taken
         => (snap[r].current => snap[r].older = Overlay(ls)[snap[r].key])

Content(map, area, ls, wr, undumped, zeros, snap, wk) ==
    /\ Ordered(ls) /\ Wins(map, ls, wr) /\ Sizes0(undumped, zeros, area, ls, wk)
    /\ Areas(map, area, ls) /\ Finds(snap, ls)
    /\ \A w \in Workers : Mergeable(wk[w], ls)

ContentNow ==
    Content(rw_level, area_size_, levels, written, undumped_size_, levels0_, snapshot, work)

LEMMA ContentSplit == Types => (ContentInv <=> ContentNow)
<1> SUFFICES ASSUME Types PROVE ContentInv <=> ContentNow
  OBVIOUS
<1>1. rw_level \in Maps /\ area_size_ \in Int /\ levels \in Seq(LevelType)
  BY DEF Types
<1>2. ASSUME Area(rw_level) <= area_size_ PROVE area_size_ \in Nat
  <2>1. Area(rw_level) \in Nat
    BY <1>1, AreaType
  <2>2. QED
    BY <1>1, <1>2, <2>1
<1>3. ASSUME Area(rw_level) <= area_size_ PROVE LatestWins <=> Wins(rw_level, levels, written)
  BY <1>1, <1>2, <1>3, WinsOnTop DEF LatestWins
<1>4. AreasKnown <=> Areas(rw_level, area_size_, levels)
  BY DEF AreasKnown, Areas
<1>5. ReadersFind <=> Finds(snapshot, levels)
  BY DEF ReadersFind, Finds
<1>6. levels0_ \in Int /\ SizesCounted <=> Sizes0(undumped_size_, levels0_, area_size_, levels, work)
  BY DEF SizesCounted, UndumpedCounted, Levels0Counted, Sizes0, InDumps, InAdds, InRemoves
<1>7. LevelsOrdered <=> Ordered(levels)
  BY DEF LevelsOrdered
<1>8. QED
  BY <1>3, <1>4, <1>5, <1>6, <1>7 DEF ContentInv, ContentNow, Content, Areas

LEMMA ContentSplitNext == Types' => (ContentInv' <=> ContentNow')
  BY ContentSplit, PTL

\* A thread goes on.
LEMMA ContentMoves ==
    ASSUME NEW map, NEW area \in Int, NEW ls \in Seq(LevelType), NEW wr, NEW und, NEW zer, NEW snap,
           NEW wk \in [Workers -> WorkType], NEW new \in [Workers -> WorkType], NEW w \in Workers,
           Content(map, area, ls, wr, und, zer, snap, wk),
           \A v \in Workers \ {w} : new[v] = wk[v],
           Mergeable(new[w], ls),
           NEW und2, und2 = und - DumpedArea(wk[w]) + DumpedArea(new[w]),
           NEW zer2 \in Int, zer2 + Added(new[w]) - Added(wk[w]) = zer + Removed(new[w]) - Removed(wk[w])
    PROVE  Content(map, area, ls, wr, und2, zer2, snap, new)
<1>1. /\ Ordered(ls) /\ Wins(map, ls, wr) /\ Sizes0(und, zer, area, ls, wk)
      /\ Areas(map, area, ls) /\ Finds(snap, ls)
      /\ \A v \in Workers : Mergeable(wk[v], ls)
  BY DEF Content
<1>2. PICK a \in Nat, d \in Nat, r \in Nat, m \in Nat, z \in Nat :
        a = InAdds(wk) /\ d = InDumps(wk) /\ r = InRemoves(wk) /\ m = MemoryArea(ls) /\ z = Levels0(ls)
  BY <1>1, CountsType, MemoryAreaOf, Levels0Of
<1>3. /\ DumpedArea(wk[w]) \in Nat /\ Added(wk[w]) \in Nat /\ Removed(wk[w]) \in Nat
      /\ DumpedArea(new[w]) \in Nat /\ Added(new[w]) \in Nat /\ Removed(new[w]) \in Nat
  BY Uncounted
<1>4. /\ InDumps(new) = d - DumpedArea(wk[w]) + DumpedArea(new[w])
      /\ InAdds(new) = a - Added(wk[w]) + Added(new[w])
      /\ InRemoves(new) = r - Removed(wk[w]) + Removed(new[w])
  BY <1>2, CountsChanged
<1>5. zer \in Int /\ und = area + m + d /\ zer + a = z + r
  BY <1>1, <1>2 DEF Sizes0
<1>6. PICK d1 \in Nat, a1 \in Nat, r1 \in Nat, d2 \in Nat, a2 \in Nat, r2 \in Nat :
        /\ d1 = DumpedArea(wk[w]) /\ a1 = Added(wk[w]) /\ r1 = Removed(wk[w])
        /\ d2 = DumpedArea(new[w]) /\ a2 = Added(new[w]) /\ r2 = Removed(new[w])
  BY <1>3
<1>7. und2 = area + m + InDumps(new)
  <2>1. und2 = und - d1 + d2 /\ InDumps(new) = d - d1 + d2
    BY <1>4, <1>6
  <2>2. QED
    BY <1>5, <2>1
<1>8. zer2 + InAdds(new) = z + InRemoves(new)
  <2>1. zer2 + a2 - a1 = zer + r2 - r1 /\ InAdds(new) = a - a1 + a2 /\ InRemoves(new) = r - r1 + r2
    BY <1>4, <1>6
  <2>2. QED
    BY <1>5, <2>1
<1>9. Sizes0(und2, zer2, area, ls, new)
  BY <1>2, <1>7, <1>8 DEF Sizes0
<1>10. \A v \in Workers : Mergeable(new[v], ls)
  BY <1>1
<1>11. QED
  BY <1>1, <1>9, <1>10 DEF Content

LEMMA TypesNow ==
    ASSUME IndInv, IndInv'
    PROVE  /\ Types /\ Types'
           /\ area_size_ \in Int /\ levels \in Seq(LevelType) /\ work \in [Workers -> WorkType]
           /\ area_size_' \in Int /\ levels' \in Seq(LevelType) /\ work' \in [Workers -> WorkType]
           /\ rw_level \in Maps /\ rw_level' \in Maps
  BY DEF IndInv, Types

\* A thread that counts nothing goes on.
LEMMA WorkerGoesOn ==
    ASSUME IndInv, IndInv', ContentInv,
           UNCHANGED <<rw_level, area_size_, levels, written, undumped_size_, levels0_, snapshot>>,
           NEW w \in Workers, NEW x, Do(w, x), Mergeable(x, levels),
           DumpedArea(x) = DumpedArea(work[w]), Added(x) = Added(work[w]), Removed(x) = Removed(work[w])
    PROVE  ContentInv'
<1>1. /\ Types /\ Types' /\ area_size_ \in Int /\ levels \in Seq(LevelType)
      /\ work \in [Workers -> WorkType] /\ work' \in [Workers -> WorkType]
  BY TypesNow
<1>2. work'[w] = x /\ \A v \in Workers \ {w} : work'[v] = work[v]
  BY <1>1 DEF Do
<1>3. Content(rw_level, area_size_, levels, written, undumped_size_, levels0_, snapshot, work)
  BY <1>1, ContentSplit DEF ContentNow
<1>4. levels0_ \in Int /\ undumped_size_ \in Int
  <2>1. MemoryArea(levels) \in Nat /\ InDumps(work) \in Nat
    BY <1>1, <1>3, MemoryAreaOf, CountsType DEF Content
  <2>2. QED
    BY <1>1, <1>3, <2>1 DEF Content, Sizes0
<1>5. /\ DumpedArea(x) \in Nat /\ Added(x) \in Nat /\ Removed(x) \in Nat
  BY <1>1, <1>2, Uncounted
<1>6. /\ undumped_size_ = undumped_size_ - DumpedArea(work[w]) + DumpedArea(work'[w])
      /\ levels0_ + Added(work'[w]) - Added(work[w]) = levels0_ + Removed(work'[w]) - Removed(work[w])
  BY <1>2, <1>4, <1>5
<1>7. Mergeable(work'[w], levels)
  BY <1>2
<1>8. Content(rw_level, area_size_, levels, written, undumped_size_, levels0_, snapshot, work')
  BY <1>1, <1>2, <1>3, <1>4, <1>6, <1>7, ContentMoves
<1>9. ContentNow'
  BY <1>8 DEF ContentNow
<1>10. QED
  BY <1>1, <1>9, ContentSplitNext

\* Nobody changes contents or counts.
LEMMA ContentStays ==
    ASSUME IndInv, IndInv', ContentInv,
           UNCHANGED <<rw_level, area_size_, levels, written, undumped_size_, levels0_, snapshot, work>>
    PROVE  ContentInv'
<1>1. Types /\ Types'
  BY TypesNow
<1>2. ContentNow'
  BY <1>1, ContentSplit DEF ContentNow
<1>3. QED
  BY <1>1, <1>2, ContentSplitNext

\* The new level of an exchange precedes all others.
LEMMA NewLevelFirst ==
    ASSUME NEW ls \in Seq(LevelType), Ordered(ls), NEW l \in LevelType, l.index = 0,
           ls # <<>> => l.sub_index = Head(ls).sub_index + 1
    PROVE  \A m \in ToSet(ls) : Less(l, m)
<1>1. ASSUME NEW i \in DOMAIN ls PROVE Less(l, ls[i])
  <2>1. PICK n \in Nat : n = Len(ls) /\ DOMAIN ls = 1 .. n
    BY Lists
  <2>2. i \in 1 .. n /\ 1 \in 1 .. n /\ ls # <<>> /\ Head(ls) = ls[1]
    BY <1>1, <2>1, EmptySeq
  <2>3. PICK h \in LevelType, m \in LevelType : h = ls[1] /\ m = ls[i]
    BY <2>1, <2>2, Lists
  <2>4. h.sub_index \in Nat /\ m.sub_index \in Nat /\ l.sub_index = h.sub_index + 1
    BY <2>2, <2>3, Cells
  <2>5. h = m \/ Less(h, m)
    <3>1. i = 1 \/ 1 < i
      BY <2>2
    <3>2. 1 < i => Less(ls[1], ls[i])
      BY <2>1, <2>2 DEF Ordered
    <3>3. QED
      BY <2>3, <3>1, <3>2
  <2>6. CASE m.index # 0
    BY <2>3, <2>6, Cells
  <2>7. CASE m.index = 0
    <3>1. h = m \/ (h.index = 0 /\ h.sub_index > m.sub_index)
      BY <2>5, <2>7, Cells
    <3>2. l.sub_index > m.sub_index
      BY <2>4, <3>1
    <3>3. QED
      BY <2>3, <2>7, <3>2, Cells
  <2>8. QED
    BY <2>6, <2>7
<1>2. QED
  BY <1>1, InSet

\* A merge is not disturbed by a level that precedes what it takes.
LEMMA MergeableOnTop ==
    ASSUME NEW ls \in Seq(LevelType), NEW l \in LevelType, \A m \in ToSet(ls) : Less(l, m),
           NEW new, ToSet(new) = ToSet(ls) \cup {l},
           NEW x \in WorkType, Mergeable(x, ls), Current(x, ls)
    PROVE  Mergeable(x, new)
<1> SUFFICES ASSUME x.job = "merge" PROVE Mergeable(x, new)
  BY DEF Mergeable
<1>1. PICK ms \in Seq(LevelType) : ms = x.levels
  BY Work
<1>2. /\ Ordered(ms) /\ \A j \in DOMAIN ms : ms[j].file /\ ms[j] \in ToSet(ls)
      /\ \A m \in ToSet(ls) \ ToSet(ms) : Apart(m, ms)
      /\ x.levels0 = Levels0(ms)
  BY <1>1 DEF Mergeable
<1>3. ms # <<>>
  BY <1>1 DEF Current
<1>4. \A j \in DOMAIN ms : Less(l, ms[j])
  BY <1>2
<1>5. Less(l, Head(ms))
  <2>1. Head(ms) = ms[1] /\ 1 \in DOMAIN ms
    BY <1>3, EmptySeq, Lists
  <2>2. QED
    BY <1>4, <2>1
<1>6. Less(l, MergedLevel(ms))
  BY <1>3, <1>5, LessMerged
<1>7. \A m \in ToSet(new) \ ToSet(ms) : Apart(m, ms)
  BY <1>2, <1>4, <1>6 DEF Apart
<1>8. QED
  BY <1>1, <1>2, <1>7 DEF Mergeable

LEMMA ExchangeContent ==
    ASSUME IndInv, IndInv', ContentInv, NEW map \in Maps, NEW area \in Int, area > 0,
           exchange_rw_level_i_(map, area), Wins(map, levels, written'),
           undumped_size_' = undumped_size_ + (area - area_size_), work' = work
    PROVE  ContentInv'
<1>1. /\ Types /\ Types' /\ area_size_ \in Int /\ levels \in Seq(LevelType)
      /\ work \in [Workers -> WorkType]
  BY TypesNow
<1>2. Content(rw_level, area_size_, levels, written, undumped_size_, levels0_, snapshot, work)
  BY <1>1, ContentSplit DEF ContentNow
<1>3. PICK ls \in Seq(LevelType) : ls = levels
  BY <1>1
<1>4. /\ Ordered(ls) /\ Sizes0(undumped_size_, levels0_, area_size_, ls, work)
      /\ Areas(rw_level, area_size_, ls) /\ Finds(snapshot, ls)
      /\ \A w \in Workers : Mergeable(work[w], ls)
  BY <1>2, <1>3 DEF Content
<1>5. NewSubIndex \in Nat /\ (ls # <<>> => NewSubIndex = Head(ls).sub_index + 1)
  <2>1. ls # <<>> => Head(ls) \in LevelType
    OBVIOUS
  <2>2. ls # <<>> => Head(ls).sub_index \in Nat
    BY <2>1, Cells
  <2>3. QED
    BY <1>3, <2>2 DEF NewSubIndex
<1>6. area \in Nat
  OBVIOUS
<1>7. PICK l \in LevelType : l = MemLevel(NewSubIndex, map, area)
  BY <1>5, <1>6 DEF MemLevel, LevelType
<1>8. l.index = 0 /\ ~l.file /\ l.sub_index = NewSubIndex /\ l.map = map /\ l.area = area
  BY <1>7 DEF MemLevel
<1>9. /\ levels' = OnTop(l, ls) /\ rw_level' = Empty /\ area_size_' = 0 /\ levels0_' = levels0_ + 1
      /\ snapshot' = [r \in Readers |-> IF snapshot[r].taken THEN [snapshot[r] EXCEPT !.current = FALSE]
                                        ELSE NoSnapshot]
  BY <1>3, <1>7 DEF exchange_rw_level_i_, OnTop
<1>10. \A m \in ToSet(ls) : Less(l, m)
  BY <1>4, <1>5, <1>8, NewLevelFirst
<1>11. PICK new \in Seq(LevelType) :
         /\ new = OnTop(l, ls) /\ Ordered(new) /\ ToSet(new) = ToSet(ls) \cup {l}
         /\ MemoryArea(new) = MemoryArea(ls) + area /\ Levels0(new) = Levels0(ls) + 1
  <2>1. OnTop(l, ls) \in Seq(LevelType)
    BY OnTopType
  <2>2. Memory(l) = area
    BY <1>8 DEF Memory
  <2>3. QED
    BY <1>4, <1>8, <1>10, <2>1, <2>2, OnTopOrdered
<1>12. Empty \in Maps /\ Area(Empty) = 0
  BY AreaOfEmpty
<1>13. Wins(Empty, new, written')
  <2>1. ASSUME NEW k \in Keys PROVE written'[k] = Latest(Empty, new, k)
    <3>1. Latest(Empty, new, k) = Overlay(new)[k]
      BY DEF Latest, Empty
    <3>2. Overlay(new)[k] = Latest(map, ls, k)
      BY <1>8, <1>11, OverlayOnTop DEF Latest
    <3>3. QED
      BY <1>3, <3>1, <3>2 DEF Wins
  <2>2. QED
    BY <2>1 DEF Wins
<1>14. Sizes0(undumped_size_', levels0_', 0, new, work)
  <2>1. PICK a \in Nat, d \in Nat, r \in Nat, m \in Nat, z \in Nat :
          a = InAdds(work) /\ d = InDumps(work) /\ r = InRemoves(work) /\ m = MemoryArea(ls) /\ z = Levels0(ls)
    BY <1>1, <1>4, CountsType, MemoryAreaOf, Levels0Of
  <2>2. levels0_ \in Int /\ undumped_size_ = area_size_ + m + d /\ levels0_ + a = z + r
    BY <1>4, <2>1 DEF Sizes0
  <2>3. undumped_size_' = 0 + (m + area) + d
    BY <1>1, <2>2
  <2>4. levels0_' \in Int /\ levels0_' + a = (z + 1) + r
    BY <1>9, <2>2
  <2>5. QED
    BY <1>11, <2>1, <2>3, <2>4 DEF Sizes0
<1>15. Areas(Empty, 0, new)
  BY <1>4, <1>8, <1>11, <1>12 DEF Areas
<1>16. Finds(snapshot', new)
  <2>1. \A r \in Readers : snapshot[r] \in SnapshotType
    BY <1>4 DEF Finds
  <2>2. ASSUME NEW r \in Readers
        PROVE  snapshot'[r] \in SnapshotType /\ ~(snapshot'[r].taken /\ snapshot'[r].current)
    <3>1. CASE ~snapshot[r].taken
      BY <1>9, <3>1 DEF SnapshotType, NoSnapshot
    <3>2. CASE snapshot[r].taken
      <4>1. snapshot[r] \in [taken : {TRUE}, key : Keys, current : BOOLEAN, older : Nat]
        <5>1. NoSnapshot.taken = FALSE
          BY DEF NoSnapshot
        <5>2. snapshot[r] # NoSnapshot
          BY <3>2, <5>1
        <5>3. QED
          BY <2>1, <5>2 DEF SnapshotType
      <4>2. snapshot'[r] = [snapshot[r] EXCEPT !.current = FALSE]
        BY <1>9, <3>2
      <4>3. snapshot'[r] \in [taken : {TRUE}, key : Keys, current : BOOLEAN, older : Nat]
            /\ snapshot'[r].current = FALSE
        BY <4>1, <4>2
      <4>4. QED
        BY <4>3 DEF SnapshotType
    <3>3. QED
      BY <3>1, <3>2
  <2>3. snapshot' \in [Readers -> SnapshotType]
    BY <1>9, <2>2
  <2>4. QED
    BY <2>2, <2>3 DEF Finds
<1>17. \A w \in Workers : Mergeable(work[w], new)
  <2>1. ASSUME NEW w \in Workers PROVE Mergeable(work[w], new)
    <3>1. work[w] \in WorkType /\ Current(work[w], ls) /\ Mergeable(work[w], ls)
      BY <1>3, <1>4, Known
    <3>2. QED
      BY <1>10, <1>11, <3>1, MergeableOnTop
  <2>2. QED
    BY <2>1
<1>18. ContentNow'
  BY <1>9, <1>11, <1>13, <1>14, <1>15, <1>16, <1>17 DEF ContentNow, Content
<1>19. QED
  BY <1>1, <1>18, ContentSplitNext

-------------------------------------------------------------------------------
(* Steps of users and of the owner. *)

\* An operation puts an entry above what the levels have.
LEMMA WinsChanged ==
    ASSUME NEW map \in Maps, NEW ls, NEW wr, Wins(map, ls, wr),
           NEW k \in Keys, NEW entry \in Nat, entry # NOT_FOUND
    PROVE  Wins(With(map, k, entry), ls, With(wr, k, entry)) /\ With(map, k, entry) \in Maps
<1>1. /\ With(map, k, entry) \in Maps /\ With(wr, k, entry) \in Maps
      /\ \A j \in Keys : With(map, k, entry)[j] = IF j = k THEN entry ELSE map[j]
      /\ \A j \in Keys : With(wr, k, entry)[j] = IF j = k THEN entry ELSE wr[j]
  BY DEF With, Wins, Maps
<1>2. QED
  BY <1>1 DEF Wins, Latest

LEMMA ChangeContent ==
    ASSUME IndInv, IndInv', ContentInv, NEW u \in Users, NEW k \in Keys,
           NEW entry \in Nat, entry # NOT_FOUND, NEW area \in Int,
           Area(With(rw_level, k, entry)) <= area, Change(u, k, entry, area)
    PROVE  ContentInv'
<1>1. /\ Types /\ Types' /\ area_size_ \in Int /\ levels \in Seq(LevelType)
      /\ work \in [Workers -> WorkType] /\ rw_level \in Maps
  BY TypesNow
<1>2. Content(rw_level, area_size_, levels, written, undumped_size_, levels0_, snapshot, work)
  BY <1>1, ContentSplit DEF ContentNow
<1>3. PICK map : map = With(rw_level, k, entry)
  OBVIOUS
<1>4. /\ written' = With(written, k, entry) /\ work' = work
      /\ undumped_size_' = undumped_size_ + (area - area_size_)
      /\ IF area >= rwlevel_max_size_ THEN exchange_rw_level_i_(map, area)
         ELSE rw_level' = map /\ area_size_' = area /\ UNCHANGED <<levels, levels0_, snapshot>>
  BY <1>3 DEF Change, AreaChange, With
<1>5. map \in Maps /\ Wins(map, levels, written')
  BY <1>1, <1>2, <1>3, <1>4, WinsChanged DEF Content
<1>6. CASE area >= rwlevel_max_size_
  <2>1. area > 0
    BY <1>6, LevelsAssumption
  <2>2. QED
    BY <1>4, <1>5, <1>6, <2>1, ExchangeContent
<1>7. CASE ~(area >= rwlevel_max_size_)
  <2>1. rw_level' = map /\ area_size_' = area /\ UNCHANGED <<levels, levels0_, snapshot>>
    BY <1>4, <1>7
  <2>2. /\ Ordered(levels) /\ Sizes0(undumped_size_, levels0_, area_size_, levels, work)
        /\ Areas(rw_level, area_size_, levels) /\ Finds(snapshot, levels)
        /\ \A w \in Workers : Mergeable(work[w], levels)
    BY <1>2 DEF Content
  <2>3. Sizes0(undumped_size_', levels0_, area, levels, work)
    <3>1. PICK d \in Nat, m \in Nat : d = InDumps(work) /\ m = MemoryArea(levels)
      BY <1>1, <2>2, CountsType, MemoryAreaOf
    <3>2. undumped_size_ = area_size_ + m + d
      BY <2>2, <3>1 DEF Sizes0
    <3>3. undumped_size_' = area + m + d
      BY <1>1, <1>4, <3>2
    <3>4. QED
      BY <2>2, <3>1, <3>3 DEF Sizes0
  <2>4. Areas(map, area, levels)
    BY <1>3, <2>2 DEF Areas
  <2>5. ContentNow'
    BY <1>4, <1>5, <2>1, <2>2, <2>3, <2>4 DEF ContentNow, Content
  <2>6. QED
    BY <1>1, <2>5, ContentSplitNext
<1>8. QED
  BY <1>6, <1>7

LEMMA SaveContent ==
    ASSUME IndInv, IndInv', ContentInv, NEW u \in Users, save_profile(u) PROVE ContentInv'
<1>1. profiles \in Nat /\ area_size_ \in Int /\ rw_level \in Maps
  BY Known DEF Types
<1>2. PICK k \in Keys :
        Change(u, k, profiles + 1, area_size_ - Size(rw_level[k]) + Size(profiles + 1))
  BY DEF save_profile
<1>3. PICK entry \in Nat : entry = profiles + 1 /\ entry # NOT_FOUND
  BY <1>1 DEF NOT_FOUND
<1>4. PICK old \in Nat, new \in Nat : old = Size(rw_level[k]) /\ new = Size(entry)
  BY <1>1, SizeType DEF Maps
<1>5. Area(rw_level) <= area_size_
  BY DEF ContentInv, AreasKnown
<1>6. Area(With(rw_level, k, entry)) = Area(rw_level) - old + new /\ Area(rw_level) \in Nat
  BY <1>1, <1>4, AreaChanged, AreaType DEF With
<1>7. PICK area \in Int : area = area_size_ - old + new
  BY <1>1
<1>8. Area(With(rw_level, k, entry)) <= area
  BY <1>1, <1>5, <1>6, <1>7
<1>9. Change(u, k, entry, area)
  BY <1>2, <1>3, <1>4, <1>7
<1>10. QED
  BY <1>3, <1>8, <1>9, ChangeContent

\* area_size_ does not go down when an entry becomes a tombstone.
LEMMA RemoveContent ==
    ASSUME IndInv, IndInv', ContentInv, NEW u \in Users, remove_profile(u) PROVE ContentInv'
<1>1. area_size_ \in Int /\ rw_level \in Maps
  BY Known DEF Types
<1>2. PICK k \in Keys :
        Change(u, k, ERASE,
               IF rw_level[k] = NOT_FOUND THEN area_size_ + Size(ERASE) ELSE area_size_)
  BY DEF remove_profile
<1>3. ERASE \in Nat /\ ERASE # NOT_FOUND /\ Size(ERASE) = 1
  BY DEF ERASE, NOT_FOUND, Size, Profiles
<1>4. PICK old \in Nat : old = Size(rw_level[k]) /\ (old = 0 <=> rw_level[k] = NOT_FOUND)
  BY <1>1, SizeType DEF Maps
<1>5. Area(rw_level) <= area_size_
  BY DEF ContentInv, AreasKnown
<1>6. Area(With(rw_level, k, ERASE)) = Area(rw_level) - old + 1 /\ Area(rw_level) \in Nat
  BY <1>1, <1>3, <1>4, AreaChanged, AreaType DEF With
<1>7. PICK area \in Int :
        area = IF rw_level[k] = NOT_FOUND THEN area_size_ + Size(ERASE) ELSE area_size_
  BY <1>1, <1>3
<1>8. Area(With(rw_level, k, ERASE)) <= area
  BY <1>1, <1>3, <1>4, <1>5, <1>6, <1>7
<1>9. Change(u, k, ERASE, area)
  BY <1>2, <1>7
<1>10. QED
  BY <1>3, <1>8, <1>9, ChangeContent

LEMMA UserContent ==
    ASSUME IndInv, IndInv', ContentInv, NEW u \in Users, Call(u) \/ UserStep(u) PROVE ContentInv'
<1>1. ASSUME UNCHANGED <<content_vars, account_vars, task_vars>> PROVE ContentInv'
  BY <1>1, ContentStays DEF content_vars, account_vars, task_vars
<1>2. CASE Call(u)
  BY <1>1, <1>2 DEF Call
<1>3. ASSUME NEW from, NEW to, Leave(u, from, to) PROVE ContentInv'
  BY <1>1, <1>3 DEF Leave
<1>4. CASE UserStep(u)
  BY <1>3, <1>4, SaveContent, RemoveContent
     DEF UserStep, WaitBackground, BackgroundNotActive, PreconditionsHold, WaitRoom, NotActive, Blocked
<1>5. QED
  BY <1>2, <1>4

\* The owner exchanges what there is, if there is something.
LEMMA OwnerExchange ==
    ASSUME IndInv, IndInv', ContentInv, exchange_rw_level_i_(rw_level, area_size_),
           UNCHANGED <<written, undumped_size_, work>>
    PROVE  ContentInv'
<1>1. Types /\ area_size_ \in Int /\ rw_level \in Maps
  BY TypesNow
<1>2. CASE area_size_ > 0
  <2>1. Content(rw_level, area_size_, levels, written, undumped_size_, levels0_, snapshot, work)
    BY <1>1, ContentSplit DEF ContentNow
  <2>2. Wins(rw_level, levels, written') /\ work' = work
    BY <2>1 DEF Content
  <2>3. undumped_size_' = undumped_size_ + (area_size_ - area_size_)
    <3>1. levels \in Seq(LevelType) /\ work \in [Workers -> WorkType]
      BY TypesNow
    <3>2. MemoryArea(levels) \in Nat /\ InDumps(work) \in Nat
      BY <2>1, <3>1, MemoryAreaOf, CountsType DEF Content
    <3>3. undumped_size_ \in Int
      BY <1>1, <2>1, <3>2 DEF Content, Sizes0
    <3>4. QED
      BY <1>1, <3>3
  <2>4. QED
    BY <1>1, <1>2, <2>2, <2>3, ExchangeContent
<1>3. CASE ~(area_size_ > 0)
  <2>1. UNCHANGED <<rw_level, area_size_, levels, levels0_, snapshot>>
    BY <1>3 DEF exchange_rw_level_i_
  <2>2. QED
    BY <2>1, ContentStays
<1>4. QED
  BY <1>2, <1>3

LEMMA OwnerContent ==
    ASSUME IndInv, IndInv', ContentInv,
           activate_object \/ deactivate_object \/ wait_object \/ DumpStep \/ Close \/ Deliver
    PROVE  ContentInv'
<1>1. ASSUME UNCHANGED <<content_vars, account_vars, work>> PROVE ContentInv'
  BY <1>1, ContentStays DEF content_vars, account_vars
<1>2. CASE deactivate_object \/ dump
  BY <1>2, OwnerExchange DEF deactivate_object, dump
<1>3. CASE activate_object \/ wait_object
  BY <1>1, <1>3 DEF activate_object, wait_object, task_vars
<1>4. CASE WaitUndumped \/ AllDumped \/ WaitMerges \/ MergesStopped
  BY <1>1, <1>4 DEF WaitUndumped, AllDumped, WaitMerges, MergesStopped, DumpGoto, task_vars
<1>5. CASE Close \/ Deliver
  BY <1>1, <1>5 DEF Close, Deliver
<1>6. QED
  BY <1>2, <1>3, <1>4, <1>5 DEF DumpStep

-------------------------------------------------------------------------------
(* Steps of readers and of workers. *)

LEMMA ReaderContent ==
    ASSUME IndInv, IndInv', ContentInv, NEW r \in Readers, TakeSnapshot(r) \/ EndGet(r)
    PROVE  ContentInv'
<1>1. Types /\ Types' /\ levels \in Seq(LevelType)
  BY TypesNow
<1>2. Content(rw_level, area_size_, levels, written, undumped_size_, levels0_, snapshot, work)
  BY <1>1, ContentSplit DEF ContentNow
<1>3. UNCHANGED <<rw_level, area_size_, levels, written, undumped_size_, levels0_, work>>
  BY DEF TakeSnapshot, EndGet, account_vars, task_vars
<1>4. PICK s \in SnapshotType :
        /\ snapshot' = [snapshot EXCEPT ![r] = s]
        /\ s.taken => (s.current => s.older = Overlay(levels)[s.key])
  <2>1. CASE TakeSnapshot(r)
    <3>1. PICK k \in Keys :
            snapshot' = [snapshot EXCEPT ![r] =
                           [taken |-> TRUE, key |-> k, current |-> TRUE, older |-> Overlay(levels)[k]]]
      BY <2>1 DEF TakeSnapshot
    <3>2. Overlay(levels)[k] \in Nat
      BY <1>1, OverlayType DEF Maps
    <3>3. [taken |-> TRUE, key |-> k, current |-> TRUE, older |-> Overlay(levels)[k]] \in SnapshotType
      BY <3>2 DEF SnapshotType
    <3>4. QED
      BY <3>1, <3>3
  <2>2. CASE EndGet(r)
    <3>1. NoSnapshot \in SnapshotType /\ NoSnapshot.taken = FALSE
      BY DEF SnapshotType, NoSnapshot
    <3>2. QED
      BY <2>2, <3>1 DEF EndGet
  <2>3. QED
    BY <2>1, <2>2
<1>5. Finds(snapshot', levels)
  <2>1. snapshot \in [Readers -> SnapshotType]
    BY <1>2 DEF Content, Finds
  <2>2. /\ snapshot' \in [Readers -> SnapshotType] /\ snapshot'[r] = s
        /\ \A q \in Readers \ {r} : snapshot'[q] = snapshot[q]
    BY <1>4, <2>1
  <2>3. \A q \in Readers \ {r} : snapshot[q].taken
          => (snapshot[q].current => snapshot[q].older = Overlay(levels)[snapshot[q].key])
    BY <1>2 DEF Content, Finds
  <2>4. QED
    BY <1>4, <2>2, <2>3 DEF Finds
<1>6. ContentNow'
  BY <1>2, <1>3, <1>5 DEF ContentNow, Content
<1>7. QED
  BY <1>1, <1>6, ContentSplitNext

\* A thread that has nothing in hand, writes, asks or looks again.
LEMMA CountsNothing ==
    ASSUME NEW x, x.job \notin {"account", "recount"}
    PROVE  /\ DumpedArea(x) = 0 /\ Added(x) = 0 /\ Removed(x) = 0
  BY DEF DumpedArea, Added, Removed

LEMMA NotMerging == ASSUME NEW x, x.job # "merge", NEW ls PROVE Mergeable(x, ls)
  BY DEF Mergeable

LEMMA QuietWorker ==
    ASSUME IndInv, IndInv', ContentInv,
           UNCHANGED <<rw_level, area_size_, levels, written, undumped_size_, levels0_, snapshot>>,
           NEW w \in Workers, work[w].job \notin {"account", "recount"},
           NEW x, Do(w, x), Mergeable(x, levels), x.job \notin {"account", "recount"}
    PROVE  ContentInv'
  BY CountsNothing, WorkerGoesOn

LEMMA TakeDumpContent ==
    ASSUME IndInv, IndInv', ContentInv, NEW w \in Workers, TakeDump(w) PROVE ContentInv'
<1>1. /\ work[w] = Idle
      /\ UNCHANGED <<rw_level, area_size_, levels, written, undumped_size_, levels0_, snapshot>>
  BY DEF TakeDump, NextTask, content_vars, account_vars
<1>2. PICK x : /\ Do(w, x)
               /\ \/ x.job = "write"
                  \/ x = [job |-> "account", area |-> 0, merge |-> FALSE]
  BY DEF TakeDump
<1>3. work[w].job = "idle"
  BY <1>1 DEF Idle
<1>4. DumpedArea(x) = 0 /\ Added(x) = 0 /\ Removed(x) = 0 /\ Mergeable(x, levels)
  BY <1>2 DEF DumpedArea, Added, Removed, Mergeable
<1>5. DumpedArea(work[w]) = 0 /\ Added(work[w]) = 0 /\ Removed(work[w]) = 0
  BY <1>3, CountsNothing
<1>6. QED
  BY <1>1, <1>2, <1>4, <1>5, WorkerGoesOn

LEMMA QuietContent ==
    ASSUME IndInv, IndInv', ContentInv, NEW w \in Workers,
           DumpFails(w) \/ RequestMerge(w) \/ MergeInterrupted(w) \/ MergeFails(w)
             \/ MergeAgain(w) \/ MergeEnds(w)
    PROVE  ContentInv'
<1>1. /\ UNCHANGED <<rw_level, area_size_, levels, written, undumped_size_, levels0_, snapshot>>
      /\ work[w].job \in {"write", "request", "merge", "recheck"}
  BY DEF DumpFails, RequestMerge, MergeInterrupted, MergeFails, MergeAgain, MergeEnds,
         content_vars, account_vars
<1>2. PICK x : Do(w, x) /\ x.job \in {"idle", "recheck"}
  <2>1. Idle.job = "idle"
    BY DEF Idle
  <2>2. ASSUME NEW failed
        PROVE  [job |-> "recheck", again |-> FALSE, failed |-> failed].job = "recheck"
    OBVIOUS
  <2>3. QED
    BY <2>1, <2>2 DEF DumpFails, RequestMerge, MergeInterrupted, MergeFails, MergeAgain, MergeEnds
<1>3. Mergeable(x, levels) /\ x.job \notin {"account", "recount"}
  BY <1>2, NotMerging
<1>4. QED
  BY <1>1, <1>2, <1>3, QuietWorker

LEMMA DumpAccountsContent ==
    ASSUME IndInv, IndInv', ContentInv, NEW w \in Workers, DumpAccounts(w) PROVE ContentInv'
<1>1. /\ Types /\ Types' /\ area_size_ \in Int /\ levels \in Seq(LevelType)
      /\ work \in [Workers -> WorkType] /\ work' \in [Workers -> WorkType]
  BY TypesNow
<1>2. Content(rw_level, area_size_, levels, written, undumped_size_, levels0_, snapshot, work)
  BY <1>1, ContentSplit DEF ContentNow
<1>3. /\ work[w].job = "account" /\ undumped_size_' = undumped_size_ - work[w].area
      /\ UNCHANGED <<rw_level, area_size_, levels, written, levels0_, snapshot>>
  BY DEF DumpAccounts, content_vars
<1>4. PICK x : Do(w, x) /\ x.job \in {"request", "idle"}
  <2>1. Idle.job = "idle"
    BY DEF Idle
  <2>2. QED
    BY <2>1 DEF DumpAccounts
<1>5. work'[w] = x /\ \A v \in Workers \ {w} : work'[v] = work[v]
  BY <1>1, <1>4 DEF Do
<1>6. /\ DumpedArea(work[w]) = work[w].area /\ Added(work[w]) = 0 /\ Removed(work[w]) = 0
      /\ work[w].area \in Nat
  BY <1>1, <1>3, Uncounted DEF DumpedArea, Added, Removed
<1>7. DumpedArea(work'[w]) = 0 /\ Added(work'[w]) = 0 /\ Removed(work'[w]) = 0 /\ Mergeable(work'[w], levels)
  BY <1>4, <1>5, CountsNothing, NotMerging
<1>8. levels0_ \in Int /\ undumped_size_ \in Int
  <2>1. MemoryArea(levels) \in Nat /\ InDumps(work) \in Nat
    BY <1>1, <1>2, MemoryAreaOf, CountsType DEF Content
  <2>2. QED
    BY <1>1, <1>2, <2>1 DEF Content, Sizes0
<1>9. /\ undumped_size_' = undumped_size_ - DumpedArea(work[w]) + DumpedArea(work'[w])
      /\ levels0_ + Added(work'[w]) - Added(work[w]) = levels0_ + Removed(work'[w]) - Removed(work[w])
  BY <1>3, <1>6, <1>7, <1>8
<1>10. Content(rw_level, area_size_, levels, written, undumped_size_', levels0_, snapshot, work')
  BY <1>1, <1>2, <1>5, <1>7, <1>8, <1>9, ContentMoves
<1>11. ContentNow'
  BY <1>3, <1>10 DEF ContentNow
<1>12. QED
  BY <1>1, <1>11, ContentSplitNext

LEMMA MergeAccountsContent ==
    ASSUME IndInv, IndInv', ContentInv, NEW w \in Workers, MergeAccounts(w) PROVE ContentInv'
<1>1. /\ Types /\ Types' /\ area_size_ \in Int /\ levels \in Seq(LevelType)
      /\ work \in [Workers -> WorkType] /\ work' \in [Workers -> WorkType]
  BY TypesNow
<1>2. Content(rw_level, area_size_, levels, written, undumped_size_, levels0_, snapshot, work)
  BY <1>1, ContentSplit DEF ContentNow
<1>3. /\ work[w].job = "recount" /\ levels0_' = levels0_ + work[w].added - work[w].removed
      /\ UNCHANGED <<rw_level, area_size_, levels, written, undumped_size_, snapshot>>
  BY DEF MergeAccounts, content_vars
<1>4. PICK x : Do(w, x) /\ x.job = "recheck"
  BY DEF MergeAccounts
<1>5. work'[w] = x /\ \A v \in Workers \ {w} : work'[v] = work[v]
  BY <1>1, <1>4 DEF Do
<1>6. PICK a \in Nat, r \in Nat :
        /\ a = work[w].added /\ r = work[w].removed
        /\ DumpedArea(work[w]) = 0 /\ Added(work[w]) = a /\ Removed(work[w]) = r
  <2>1. Added(work[w]) \in Nat /\ Removed(work[w]) \in Nat
    BY <1>1, Uncounted
  <2>2. QED
    BY <1>3, <2>1 DEF DumpedArea, Added, Removed
<1>7. DumpedArea(work'[w]) = 0 /\ Added(work'[w]) = 0 /\ Removed(work'[w]) = 0 /\ Mergeable(work'[w], levels)
  BY <1>4, <1>5, CountsNothing, NotMerging
<1>8. levels0_ \in Int /\ undumped_size_ \in Int
  <2>1. MemoryArea(levels) \in Nat /\ InDumps(work) \in Nat
    BY <1>1, <1>2, MemoryAreaOf, CountsType DEF Content
  <2>2. QED
    BY <1>1, <1>2, <2>1 DEF Content, Sizes0
<1>9. /\ undumped_size_ = undumped_size_ - DumpedArea(work[w]) + DumpedArea(work'[w])
      /\ levels0_' \in Int
      /\ levels0_' + Added(work'[w]) - Added(work[w]) = levels0_ + Removed(work'[w]) - Removed(work[w])
  BY <1>3, <1>6, <1>7, <1>8
<1>10. Content(rw_level, area_size_, levels, written, undumped_size_, levels0_', snapshot, work')
  BY <1>1, <1>2, <1>5, <1>7, <1>8, <1>9, ContentMoves
<1>11. ContentNow'
  BY <1>3, <1>10 DEF ContentNow
<1>12. QED
  BY <1>1, <1>11, ContentSplitNext

\* What a merge takes is in files: a dump puts nothing in its way.
LEMMA MergeableRefiled ==
    ASSUME NEW ls \in Seq(LevelType), NEW old \in ToSet(ls), ~old.file, NEW l,
           l.index = old.index, l.sub_index = old.sub_index,
           NEW new, \A m : m \in ToSet(new) <=> m = l \/ (m \in ToSet(ls) /\ m # old),
           NEW x \in WorkType, Mergeable(x, ls)
    PROVE  Mergeable(x, new)
<1> SUFFICES ASSUME x.job = "merge" PROVE Mergeable(x, new)
  BY DEF Mergeable
<1>1. PICK ms : ms = x.levels
  OBVIOUS
<1>2. /\ Ordered(ms) /\ \A j \in DOMAIN ms : ms[j].file /\ ms[j] \in ToSet(ls)
      /\ \A m \in ToSet(ls) \ ToSet(ms) : Apart(m, ms)
      /\ x.levels0 = Levels0(ms)
  BY <1>1 DEF Mergeable
<1>3. \A j \in DOMAIN ms : ms[j] \in ToSet(new)
  BY <1>2
<1>4. Apart(l, ms)
  <2>1. old \notin ToSet(ms)
    BY <1>2, InSet
  <2>2. Apart(old, ms)
    BY <1>2, <2>1
  <2>3. QED
    BY <2>2, ApartCell
<1>5. \A m \in ToSet(new) \ ToSet(ms) : Apart(m, ms)
  BY <1>2, <1>4
<1>6. QED
  BY <1>1, <1>2, <1>3, <1>5 DEF Mergeable

LEMMA DumpPublishesContent ==
    ASSUME IndInv, IndInv', ContentInv, NEW w \in Workers, DumpPublishes(w) PROVE ContentInv'
<1>1. /\ Types /\ Types' /\ area_size_ \in Int
      /\ work \in [Workers -> WorkType] /\ work' \in [Workers -> WorkType]
  BY TypesNow
<1>2. Content(rw_level, area_size_, levels, written, undumped_size_, levels0_, snapshot, work)
  BY <1>1, ContentSplit DEF ContentNow
<1>3. PICK ls \in Seq(LevelType), new \in Seq(LevelType) : ls = levels /\ new = levels'
  BY TypesNow
<1>4. /\ Ordered(ls) /\ Wins(rw_level, ls, written) /\ Sizes0(undumped_size_, levels0_, area_size_, ls, work)
      /\ Areas(rw_level, area_size_, ls) /\ Finds(snapshot, ls)
      /\ \A v \in Workers : Mergeable(work[v], ls)
  BY <1>2, <1>3 DEF Content
<1>5. /\ work[w].job = "write"
      /\ UNCHANGED <<rw_level, area_size_, written, undumped_size_, levels0_, snapshot>>
  BY DEF DumpPublishes, account_vars
<1>6. PICK i \in DOMAIN ls : ~ls[i].file /\ ls[i] = work[w].level
  BY <1>3, <1>5, Known DEF Current
<1>7. /\ ls[i].index = 0 /\ ls[i] \in LevelType /\ ZeroFirst(ls)
  BY <1>3, <1>6, Known, Lists DEF ZeroFirst
<1>8. FindLevel(work[w].level.sub_index) = i
  BY <1>3, <1>6, <1>7, Found
<1>9. PICK sub \in Nat, map \in Maps, area \in Nat :
        sub = ls[i].sub_index /\ map = ls[i].map /\ area = ls[i].area
  BY <1>7 DEF LevelType
<1>10. PICK l \in LevelType :
         /\ l = FileLevel(0, sub, map) /\ l.file /\ l.index = 0 /\ l.sub_index = sub
         /\ l.map = map /\ l.area = Area(map)
  <2>1. PICK size \in Nat : size = Area(map)
    BY AreaType
  <2>2. 0 \in Nat
    OBVIOUS
  <2>3. PICK m : m = [index |-> 0, sub_index |-> sub, uniq_index |-> 0, map |-> map, area |-> size,
               file |-> TRUE]
    OBVIOUS
  <2>4. m \in LevelType
    BY <2>2, <2>3 DEF LevelType
  <2>5. FileLevel(0, sub, map) = m
    BY <2>1, <2>3 DEF FileLevel
  <2>6. m.file /\ m.index = 0 /\ m.sub_index = sub /\ m.map = map /\ m.area = Area(map)
    BY <2>1, <2>3
  <2>7. QED
    BY <2>4, <2>5, <2>6
<1>11. /\ new = [ls EXCEPT ![i] = l]
       /\ \E m : Do(w, [job |-> "account", area |-> area, merge |-> m])
  BY <1>3, <1>6, <1>8, <1>9, <1>10 DEF DumpPublishes
<1>12. DOMAIN new = DOMAIN ls /\ new[i] = l /\ \A j \in DOMAIN ls \ {i} : new[j] = ls[j]
  BY <1>11
<1>13. /\ Ordered(new) /\ Overlay(new) = Overlay(ls)
       /\ MemoryArea(new) = MemoryArea(ls) - area
       /\ Levels0(new) = Levels0(ls)
       /\ \A m : m \in ToSet(new) <=> m = l \/ (m \in ToSet(ls) /\ m # ls[i])
  BY <1>4, <1>6, <1>7, <1>9, <1>10, <1>12, Refiled
<1>14. PICK x : /\ Do(w, x) /\ x.job = "account" /\ x.area = area
  BY <1>11
<1>15. work'[w] = x /\ \A v \in Workers \ {w} : work'[v] = work[v]
  BY <1>1, <1>14 DEF Do
<1>16. Wins(rw_level, new, written)
  BY <1>4, <1>13 DEF Wins, Latest
<1>17. Sizes0(undumped_size_, levels0_, area_size_, new, work')
  <2>1. /\ DumpedArea(work[w]) = 0 /\ Added(work[w]) = 0 /\ Removed(work[w]) = 0
        /\ DumpedArea(x) = area /\ Added(x) = 0 /\ Removed(x) = 0
    BY <1>5, <1>14 DEF DumpedArea, Added, Removed
  <2>2. PICK a \in Nat, d \in Nat, r \in Nat, m \in Nat :
          a = InAdds(work) /\ d = InDumps(work) /\ r = InRemoves(work) /\ m = MemoryArea(ls)
    BY <1>1, <1>4, CountsType, MemoryAreaOf
  <2>3. InDumps(work') = d - 0 + area /\ InAdds(work') = a - 0 + 0 /\ InRemoves(work') = r - 0 + 0
    <3>1. /\ InDumps(work') = InDumps(work) - DumpedArea(work[w]) + DumpedArea(work'[w])
          /\ InAdds(work') = InAdds(work) - Added(work[w]) + Added(work'[w])
          /\ InRemoves(work') = InRemoves(work) - Removed(work[w]) + Removed(work'[w])
      BY <1>1, <1>15, CountsChanged
    <3>2. QED
      BY <1>15, <2>1, <2>2, <3>1
  <2>4. levels0_ \in Int /\ undumped_size_ = area_size_ + m + d /\ levels0_ + a = Levels0(ls) + r
    BY <1>4, <2>2 DEF Sizes0
  <2>5. undumped_size_ = area_size_ + (m - area) + InDumps(work')
    BY <1>1, <2>3, <2>4
  <2>6. InAdds(work') = a /\ InRemoves(work') = r
    BY <2>3
  <2>7. QED
    BY <1>13, <2>2, <2>4, <2>5, <2>6 DEF Sizes0
<1>18. Areas(rw_level, area_size_, new)
  BY <1>4, <1>10, <1>13 DEF Areas
<1>19. Finds(snapshot, new)
  BY <1>4, <1>13 DEF Finds
<1>20. \A v \in Workers : Mergeable(work'[v], new)
  <2>1. Mergeable(x, new)
    BY <1>14, NotMerging
  <2>2. ASSUME NEW v \in Workers \ {w} PROVE Mergeable(work[v], new)
    <3>1. ls[i] \in ToSet(ls) /\ work[v] \in WorkType /\ Mergeable(work[v], ls)
      BY <1>1, <1>4, InSet
    <3>2. l.index = ls[i].index /\ l.sub_index = ls[i].sub_index
      BY <1>7, <1>9, <1>10
    <3>3. QED
      BY <1>6, <1>13, <3>1, <3>2, MergeableRefiled
  <2>3. QED
    BY <1>15, <2>1, <2>2
<1>21. ContentNow'
  BY <1>3, <1>5, <1>13, <1>16, <1>17, <1>18, <1>19, <1>20 DEF ContentNow, Content
<1>22. QED
  BY <1>1, <1>21, ContentSplitNext

\* Everything that is to be merged could be opened: it is merged as it is.
LEMMA TakeMergeContent ==
    ASSUME IndInv, IndInv', ContentInv, corrupted = 0, corrupted' = 0, NEW w \in Workers, TakeMerge(w)
    PROVE  ContentInv'
<1>1. /\ work[w] = Idle
      /\ UNCHANGED <<rw_level, area_size_, levels, written, undumped_size_, levels0_, snapshot>>
  BY DEF TakeMerge, NextTask, content_vars, account_vars
<1>2. work[w].job = "idle"
  BY <1>1 DEF Idle
<1>3. PICK ls \in Seq(LevelType) : ls = levels
  BY TypesNow
<1>4. Ordered(ls) /\ \A l \in ToSet(ls) : l.file => l.area = Area(l.map)
  BY <1>3 DEF ContentInv, LevelsOrdered, AreasKnown
<1>5. PICK all \in Seq(LevelType) : all = MergeLevels(ls)
  BY MergeLevelsType
<1>6. CASE ~(Len(all) > 1)
  <2>1. PICK x : Do(w, x) /\ x.job = "recheck"
    BY <1>3, <1>5, <1>6 DEF TakeMerge
  <2>2. QED
    BY <1>1, <1>2, <2>1, NotMerging, QuietWorker
<1>7. CASE Len(all) > 1
  <2>1. PICK opened \in SUBSET DOMAIN all : \E p \in Ascending(opened) :
          /\ corrupted' = corrupted + Cardinality(DOMAIN all \ opened)
          /\ Do(w, [job |-> "merge", levels |-> Select(all, p), levels0 |-> Levels0(all)])
    BY <1>3, <1>5, <1>7 DEF TakeMerge
  <2>2. PICK p \in Ascending(opened) :
          /\ corrupted' = corrupted + Cardinality(DOMAIN all \ opened)
          /\ Do(w, [job |-> "merge", levels |-> Select(all, p), levels0 |-> Levels0(all)])
    BY <2>1
  <2>3. opened = DOMAIN all
    <3>1. IsFiniteSet(DOMAIN all \ opened)
      <4>1. PICK n \in Nat : DOMAIN all = 1 .. n
        BY Lists
      <4>2. IsFiniteSet(1 .. n)
        BY FS_Interval
      <4>3. QED
        BY <4>1, <4>2, FS_Difference
    <3>2. Cardinality(DOMAIN all \ opened) \in Nat
      BY <3>1, FS_CardinalityType
    <3>3. Cardinality(DOMAIN all \ opened) = 0
      BY <2>2, <3>2
    <3>4. DOMAIN all \ opened = {}
      BY <3>1, <3>3, FS_EmptySet
    <3>5. QED
      BY <3>4
  <2>4. Select(all, p) = all
    BY <2>2, <2>3, AscendingAll
  <2>5. PICK x : /\ x = [job |-> "merge", levels |-> all, levels0 |-> Levels0(all)]
                 /\ Do(w, x) /\ x.job = "merge" /\ x.levels = all /\ x.levels0 = Levels0(all)
    BY <2>2, <2>4
  <2>6. all # <<>>
    BY <1>7
  <2>7. Ordered(all) /\ \A l \in ToSet(ls) \ ToSet(all) : Apart(l, all)
    BY <1>4, <1>5, <2>6, InSet, MergeFits
  <2>8. \A j \in DOMAIN all : all[j].file /\ all[j] \in ToSet(ls)
    BY <1>5, InSet, MergeLevelsType
  <2>9. Mergeable(x, levels)
    BY <1>3, <2>5, <2>7, <2>8 DEF Mergeable
  <2>10. QED
    BY <1>1, <1>2, <2>5, <2>9, QuietWorker
<1>8. QED
  BY <1>6, <1>7

\* The result of a merge shows what the merged levels have shown.
LEMMA MergePublishesContent ==
    ASSUME IndInv, IndInv', ContentInv, NEW w \in Workers, MergePublishes(w) PROVE ContentInv'
<1>1. /\ Types /\ Types' /\ area_size_ \in Int
      /\ work \in [Workers -> WorkType] /\ work' \in [Workers -> WorkType]
  BY TypesNow
<1>2. Content(rw_level, area_size_, levels, written, undumped_size_, levels0_, snapshot, work)
  BY <1>1, ContentSplit DEF ContentNow
<1>3. PICK ls \in Seq(LevelType) : ls = levels
  BY TypesNow
<1>4. /\ Ordered(ls) /\ Wins(rw_level, ls, written) /\ Sizes0(undumped_size_, levels0_, area_size_, ls, work)
      /\ Areas(rw_level, area_size_, ls) /\ Finds(snapshot, ls)
      /\ \A v \in Workers : Mergeable(work[v], ls)
  BY <1>2, <1>3 DEF Content
<1>5. /\ work[w].job = "merge"
      /\ UNCHANGED <<rw_level, area_size_, written, undumped_size_, levels0_, snapshot, tasks, planned, owner>>
  BY DEF MergePublishes, account_vars, owner_vars
<1>6. PICK ms \in Seq(LevelType) :
        /\ ms = work[w].levels /\ ms # <<>> /\ Ordered(ms)
        /\ \A j \in DOMAIN ms : ms[j].file /\ ms[j] \in ToSet(ls)
        /\ \A m \in ToSet(ls) \ ToSet(ms) : Apart(m, ms)
        /\ work[w].levels0 = Levels0(ms)
  <2>1. work[w] \in WorkType /\ Current(work[w], levels) /\ Mergeable(work[w], ls)
    BY <1>4, Known
  <2>2. QED
    BY <1>5, <2>1, Work DEF Current, Mergeable
<1>7. PICK n \in LevelType :
        n = MergedLevel(ms) /\ n.file /\ n.map = Overlay(ms) /\ n.area = Area(n.map)
  BY <1>6, MergedLevelType
<1>8. ToSet(ms) \subseteq ToSet(ls)
  BY <1>6, InSet
<1>9. PICK p \in Ascending(Unmerged(ls, ms)) : levels' = InsertLevel(Select(ls, p), n)
  BY <1>3, <1>6, <1>7 DEF MergePublishes
<1>10. PICK new \in Seq(LevelType) :
         new = levels' /\ Ordered(new) /\ ToSet(new) = (ToSet(ls) \ ToSet(ms)) \cup {n}
  BY <1>4, <1>6, <1>7, <1>8, <1>9, MergePlaces
<1>11. n \notin ToSet(ls) \ ToSet(ms)
  BY <1>6, <1>7, LessOrder DEF Apart
<1>12. /\ MemoryArea(new) = MemoryArea(ls)
       /\ Levels0(new) = Levels0(ls) - Levels0(ms) + IF n.index = 0 THEN 1 ELSE 0
  BY <1>4, <1>6, <1>7, <1>8, <1>10, <1>11, MergeCounts
<1>13. Overlay(new) = Overlay(ls)
  <2>1. ASSUME NEW k \in Keys, NEW v, Shows(ToSet(ls), k, v) PROVE Shows(ToSet(new), k, v)
    BY <1>6, <1>7, <1>8, <1>10, <2>1, SetType, MergedShows
  <2>2. QED
    BY <1>4, <1>10, <2>1, OverlaySame
<1>14. PICK x : /\ Do(w, x) /\ x.job = "recount" /\ x.removed = Levels0(ms)
                /\ x.added = IF n.index = 0 THEN 1 ELSE 0
  BY <1>6, <1>7 DEF MergePublishes
<1>15. work'[w] = x /\ \A v \in Workers \ {w} : work'[v] = work[v]
  BY <1>1, <1>14 DEF Do
<1>16. Wins(rw_level, new, written)
  BY <1>4, <1>13 DEF Wins, Latest
<1>17. Sizes0(undumped_size_, levels0_, area_size_, new, work')
  <2>1. PICK one \in Nat : one = IF n.index = 0 THEN 1 ELSE 0
    OBVIOUS
  <2>2. /\ DumpedArea(work[w]) = 0 /\ Added(work[w]) = 0 /\ Removed(work[w]) = 0
        /\ DumpedArea(x) = 0 /\ Added(x) = one /\ Removed(x) = Levels0(ms)
    BY <1>5, <1>14, <2>1 DEF DumpedArea, Added, Removed
  <2>3. PICK a \in Nat, d \in Nat, r \in Nat, m \in Nat, z \in Nat, g \in Nat :
          /\ a = InAdds(work) /\ d = InDumps(work) /\ r = InRemoves(work) /\ m = MemoryArea(ls)
          /\ z = Levels0(ls) /\ g = Levels0(ms)
    BY <1>1, <1>4, <1>6, CountsType, MemoryAreaOf, Levels0Of
  <2>4. InDumps(work') = d - 0 + 0 /\ InAdds(work') = a - 0 + one /\ InRemoves(work') = r - 0 + g
    <3>1. /\ InDumps(work') = InDumps(work) - DumpedArea(work[w]) + DumpedArea(work'[w])
          /\ InAdds(work') = InAdds(work) - Added(work[w]) + Added(work'[w])
          /\ InRemoves(work') = InRemoves(work) - Removed(work[w]) + Removed(work'[w])
      BY <1>1, <1>15, CountsChanged
    <3>2. QED
      BY <1>15, <2>2, <2>3, <3>1
  <2>5. levels0_ \in Int /\ undumped_size_ = area_size_ + m + d /\ levels0_ + a = z + r
    BY <1>4, <2>3 DEF Sizes0
  <2>6. Levels0(new) = z - g + one /\ MemoryArea(new) = m
    BY <1>12, <2>1, <2>3
  <2>7. InDumps(work') = d
    BY <2>4
  <2>8. levels0_ + InAdds(work') = Levels0(new) + InRemoves(work')
    BY <2>4, <2>5, <2>6
  <2>9. QED
    BY <2>5, <2>6, <2>7, <2>8 DEF Sizes0
<1>18. Areas(rw_level, area_size_, new)
  BY <1>4, <1>7, <1>10 DEF Areas
<1>19. Finds(snapshot, new)
  BY <1>4, <1>13 DEF Finds
<1>20. \A v \in Workers : Mergeable(work'[v], new)
  <2>1. Mergeable(x, new)
    BY <1>14, NotMerging
  <2>2. ASSUME NEW v \in Workers \ {w} PROVE work[v].job # "merge"
    <3>1. owner # "closed" /\ Placed(tasks, planned, Hands)
      BY <1>5, Known
    <3>2. ASSUME work[v].job = "merge" PROVE FALSE
      <4>1. TaskIn(work[v]) = MergeTask /\ TaskIn(work[w]) = MergeTask
        BY <1>1, <1>5, <3>2, Work DEF MergeJobs
      <4>2. Hands[v] = MergeTask /\ Hands[w] = MergeTask /\ v # w /\ v \in Workers
        BY <1>1, <4>1, HandsKnown
      <4>3. MergeTask # NoTask
        BY Tasks
      <4>4. QED
        BY <3>1, <4>2, <4>3 DEF Placed, HeldOnce
    <3>3. QED
      BY <3>2
  <2>3. QED
    BY <1>15, <2>1, <2>2, NotMerging
<1>21. ContentNow'
  BY <1>5, <1>10, <1>16, <1>17, <1>18, <1>19, <1>20 DEF ContentNow, Content
<1>22. QED
  BY <1>1, <1>21, ContentSplitNext

\* Whatever a thread does.
LEMMA WorkerContent ==
    ASSUME IndInv, IndInv', ContentInv, corrupted = 0, corrupted' = 0, NEW w \in Workers, WorkerStep(w)
    PROVE  ContentInv'
  BY TakeDumpContent, QuietContent, DumpPublishesContent, DumpAccountsContent, TakeMergeContent,
     MergePublishesContent, MergeAccountsContent DEF WorkerStep

-------------------------------------------------------------------------------
(***************************************************************************)
(* The invariant about contents holds at first, and every step keeps it.   *)
(***************************************************************************)
LEMMA InitContent == ASSUME Init PROVE ContentsKept
<1>1. Types
  BY InitIndInv DEF IndInv
<1>2. PICK ls \in Seq(LevelType) :
        /\ ls = levels /\ Ordered(ls)
        /\ \A i \in DOMAIN ls : ls[i].file /\ ls[i].area = Area(ls[i].map)
  BY InitialLevelsAssumption DEF Init
<1>3. /\ levels0_ = Levels0(ls) /\ undumped_size_ = 0 /\ rw_level = Empty /\ area_size_ = 0
      /\ work = [w \in Workers |-> Idle] /\ snapshot = [r \in Readers |-> NoSnapshot]
      /\ written = Overlay(ls) /\ corrupted = 0
  BY <1>2 DEF Init
<1>4. Idle.job = "idle" /\ work \in [Workers -> WorkType]
  BY <1>1 DEF Idle, Types
<1>5. Wins(rw_level, ls, written)
  <2>1. \A k \in Keys : Latest(Empty, ls, k) = Overlay(ls)[k]
    BY DEF Latest, Empty
  <2>2. Overlay(ls) \in Maps
    BY OverlayType
  <2>3. QED
    BY <1>3, <2>1, <2>2 DEF Wins
<1>6. Sizes0(undumped_size_, levels0_, area_size_, ls, work)
  <2>1. DumpedArea(Idle) = 0 /\ Added(Idle) = 0 /\ Removed(Idle) = 0
    BY <1>4, CountsNothing
  <2>2. InDumps(work) = 0
    <3>1. PICK f : f = [w \in Workers |-> DumpedArea(work[w])]
      OBVIOUS
    <3>2. f \in [Workers -> Nat] /\ \A w \in Workers : f[w] = 0
      BY <1>3, <2>1, <3>1
    <3>3. QED
      BY <3>1, <3>2, TotalZero DEF InDumps
  <2>3. InAdds(work) = 0
    <3>1. PICK f : f = [w \in Workers |-> Added(work[w])]
      OBVIOUS
    <3>2. f \in [Workers -> Nat] /\ \A w \in Workers : f[w] = 0
      BY <1>3, <2>1, <3>1
    <3>3. QED
      BY <3>1, <3>2, TotalZero DEF InAdds
  <2>4. InRemoves(work) = 0
    <3>1. PICK f : f = [w \in Workers |-> Removed(work[w])]
      OBVIOUS
    <3>2. f \in [Workers -> Nat] /\ \A w \in Workers : f[w] = 0
      BY <1>3, <2>1, <3>1
    <3>3. QED
      BY <3>1, <3>2, TotalZero DEF InRemoves
  <2>5. MemoryArea(ls) = 0
    <3>1. PICK f : f = [i \in DOMAIN ls |-> IF ls[i].file THEN 0 ELSE ls[i].area]
      OBVIOUS
    <3>2. f \in [DOMAIN ls -> Nat] /\ \A i \in DOMAIN ls : f[i] = 0
      BY <1>2, <3>1
    <3>3. QED
      BY <3>1, <3>2, TotalZero DEF MemoryArea
  <2>6. Levels0(ls) \in Nat
    BY Levels0Type
  <2>7. QED
    BY <1>3, <2>2, <2>3, <2>4, <2>5, <2>6 DEF Sizes0
<1>7. Areas(rw_level, area_size_, ls)
  <2>1. \A l \in ToSet(ls) : l.file /\ l.area = Area(l.map)
    BY <1>2, InSet
  <2>2. Area(rw_level) = 0
    BY <1>3, AreaOfEmpty
  <2>3. QED
    BY <1>3, <2>1, <2>2 DEF Areas
<1>8. Finds(snapshot, ls)
  <2>1. NoSnapshot \in SnapshotType /\ NoSnapshot.taken = FALSE
    BY DEF SnapshotType, NoSnapshot
  <2>2. QED
    BY <1>3, <2>1 DEF Finds
<1>9. \A w \in Workers : Mergeable(work[w], ls)
  BY <1>3, <1>4, NotMerging
<1>10. ContentNow
  BY <1>2, <1>5, <1>6, <1>7, <1>8, <1>9 DEF ContentNow, Content
<1>11. QED
  BY <1>1, <1>3, <1>10, ContentSplit DEF ContentsKept

\* A merge leaves out some of its levels or none.
LEMMA LeftOut ==
    ASSUME NEW ls \in Seq(LevelType), NEW opened
    PROVE  Cardinality(DOMAIN MergeLevels(ls) \ opened) \in Nat
<1>1. PICK all \in Seq(LevelType) : all = MergeLevels(ls)
  BY MergeLevelsType
<1>2. IsFiniteSet(DOMAIN all)
  <2>1. PICK n \in Nat : DOMAIN all = 1 .. n
    BY Lists
  <2>2. QED
    BY <2>1, FS_Interval
<1>3. DOMAIN all \ opened \in SUBSET DOMAIN all
  OBVIOUS
<1>4. IsFiniteSet(DOMAIN all \ opened)
  BY <1>2, <1>3, FS_Subset
<1>5. QED
  BY <1>1, <1>4, FS_CardinalityType

\* Only a merge can leave levels out, and no more than are allowed to be.
LEMMA CorruptedCounts ==
    ASSUME IndInv, corrupted \in Nat, [Next]_vars
    PROVE  /\ corrupted' \in Nat /\ corrupted <= corrupted'
           /\ corrupted' = corrupted \/ corrupted' <= MaxCorrupted
<1>1. ASSUME corrupted' = corrupted
      PROVE  /\ corrupted' \in Nat /\ corrupted <= corrupted'
             /\ corrupted' = corrupted \/ corrupted' <= MaxCorrupted
  BY <1>1
<1>2. CASE UNCHANGED vars
  BY <1>1, <1>2 DEF vars, bound_vars
<1>3. ASSUME NEW u \in Users, Call(u) \/ UserStep(u) PROVE corrupted' = corrupted
  <2>1. ASSUME NEW from, NEW to, Leave(u, from, to) PROVE corrupted' = corrupted
    BY <2>1 DEF Leave, bound_vars
  <2>2. ASSUME NEW k, NEW entry, NEW area, Change(u, k, entry, area) PROVE corrupted' = corrupted
    BY <2>2 DEF Change, bound_vars
  <2>3. CASE Call(u)
    BY <2>3 DEF Call
  <2>4. CASE save_profile(u) \/ remove_profile(u)
    BY <2>2, <2>4 DEF save_profile, remove_profile
  <2>5. QED
    BY <1>3, <2>1, <2>3, <2>4
       DEF UserStep, WaitBackground, BackgroundNotActive, PreconditionsHold, WaitRoom, NotActive, Blocked
<1>4. ASSUME NEW r \in Readers, TakeSnapshot(r) \/ EndGet(r) PROVE corrupted' = corrupted
  BY <1>4 DEF TakeSnapshot, EndGet, bound_vars
<1>5. ASSUME NEW w \in Workers, WorkerStep(w), ~TakeMerge(w) PROVE corrupted' = corrupted
  <2>1. CASE TakeDump(w) \/ DumpFails(w) \/ DumpPublishes(w) \/ DumpAccounts(w) \/ RequestMerge(w)
    BY <2>1 DEF TakeDump, DumpFails, DumpPublishes, DumpAccounts, RequestMerge, bound_vars
  <2>2. CASE MergeInterrupted(w) \/ MergeFails(w) \/ MergePublishes(w)
    BY <2>2 DEF MergeInterrupted, MergeFails, MergePublishes, bound_vars
  <2>3. CASE MergeAccounts(w) \/ MergeAgain(w) \/ MergeEnds(w)
    BY <2>3 DEF MergeAccounts, MergeAgain, MergeEnds, bound_vars
  <2>4. QED
    BY <1>5, <2>1, <2>2, <2>3 DEF WorkerStep
<1>6. ASSUME NEW w \in Workers, TakeMerge(w), corrupted' # corrupted
      PROVE  corrupted' \in Nat /\ corrupted <= corrupted' /\ corrupted' <= MaxCorrupted
  <2>1. PICK opened : /\ corrupted' = corrupted + Cardinality(DOMAIN MergeLevels(levels) \ opened)
                      /\ corrupted' <= MaxCorrupted
    BY <1>6 DEF TakeMerge
  <2>2. Cardinality(DOMAIN MergeLevels(levels) \ opened) \in Nat
    BY LeftOut DEF IndInv, Types
  <2>3. QED
    BY <2>1, <2>2
<1>7. ASSUME Deliver \/ activate_object \/ deactivate_object \/ wait_object \/ DumpStep \/ Close
      PROVE  corrupted' = corrupted
  BY <1>7 DEF Deliver, activate_object, deactivate_object, wait_object, DumpStep, Close, bound_vars,
              dump, WaitUndumped, AllDumped, WaitMerges, MergesStopped, DumpGoto
<1>8. QED
  BY <1>1, <1>2, <1>3, <1>4, <1>5, <1>6, <1>7 DEF Next

LEMMA NextContent ==
    ASSUME IndInv, IndInv', ContentsKept, [Next]_vars PROVE ContentsKept'
<1>1. corrupted \in Nat /\ corrupted' \in Nat /\ corrupted <= corrupted'
  BY CorruptedCounts DEF ContentsKept
<1>2. SUFFICES ASSUME corrupted' = 0 PROVE ContentInv'
  BY <1>1 DEF ContentsKept
<1>3. corrupted = 0 /\ ContentInv
  BY <1>1, <1>2 DEF ContentsKept
<1>4. CASE UNCHANGED vars
  <2>1. UNCHANGED <<rw_level, area_size_, levels, written, undumped_size_, levels0_, snapshot, work>>
    BY <1>4 DEF vars, content_vars, account_vars, task_vars
  <2>2. QED
    BY <1>3, <2>1, ContentStays
<1>5. CASE Next
  BY <1>2, <1>3, <1>5, UserContent, ReaderContent, WorkerContent, OwnerContent DEF Next
<1>6. QED
  BY <1>4, <1>5

\* A map that could open what it merged has, in memory and in its levels, what
\* was written last, in order, and its two sizes are right, whatever it
\* exchanges, dumps and merges meanwhile (exchange_rw_level_i_,
\* dump_mem_level_, merge_levels_).
THEOREM MapContents == Spec => []ContentsKept
<1>1. Init => ContentsKept
  BY InitContent
<1>2. IndInv /\ IndInv' /\ ContentsKept /\ [Next]_vars => ContentsKept'
  BY NextContent
<1>3. QED
  BY <1>1, <1>2, MapInvariance, PTL DEF Spec

\* What was written last is what the map holder has for every key, if every
\* level could be opened for its merge (exchange_rw_level_i_, dump_mem_level_,
\* merge_levels_).
THEOREM LatestAlwaysWins == Spec => [](corrupted = 0 => LatestWins)
<1>1. ContentsKept => (corrupted = 0 => LatestWins)
  BY DEF ContentsKept, ContentInv
<1>2. QED
  BY MapContents, <1>1, PTL

\* The levels are in order, one in a cell: a merge finds the place of its
\* result by the index (merge_levels_).
THEOREM LevelsAlwaysOrdered == Spec => [](corrupted = 0 => LevelsOrdered)
<1>1. ContentsKept => (corrupted = 0 => LevelsOrdered)
  BY DEF ContentsKept, ContentInv
<1>2. QED
  BY MapContents, <1>1, PTL

\* undumped_size_ and levels0_ count what is in memory and the levels 0, but
\* for what a thread has published and not yet counted.
THEOREM SizesAlwaysCounted == Spec => [](corrupted = 0 => SizesCounted)
<1>1. ContentsKept => (corrupted = 0 => SizesCounted)
  BY DEF ContentsKept, ContentInv
<1>2. QED
  BY MapContents, <1>1, PTL

\* A reader whose map holder is still current finds what was written last.
LEMMA InvReadsLatest == ASSUME IndInv, ContentInv PROVE ReadsLatest
<1>1. Types /\ levels \in Seq(LevelType)
  BY DEF IndInv, Types
<1>2. Wins(rw_level, levels, written) /\ Finds(snapshot, levels)
  BY <1>1, ContentSplit DEF ContentNow, Content
<1>3. ASSUME NEW r \in Readers, snapshot[r].taken, snapshot[r].current
      PROVE  get_profile(r) = written[snapshot[r].key]
  <2>1. PICK s \in SnapshotType : s = snapshot[r]
    BY <1>2 DEF Finds
  <2>2. s.key \in Keys
    <3>1. NoSnapshot.taken = FALSE
      BY DEF NoSnapshot
    <3>2. s # NoSnapshot
      BY <1>3, <2>1, <3>1
    <3>3. QED
      BY <3>2 DEF SnapshotType
  <2>3. s.older = Overlay(levels)[s.key]
    BY <1>2, <1>3, <2>1 DEF Finds
  <2>4. written[s.key] = Latest(rw_level, levels, s.key)
    BY <1>2, <2>2 DEF Wins
  <2>5. QED
    BY <1>3, <2>1, <2>3, <2>4 DEF get_profile, Latest
<1>4. QED
  BY <1>3 DEF ReadsLatest

\* A reader finds what was written last however long ago it took the map
\* holder, unless the level in memory was exchanged under it (get_profile).
THEOREM ReadersAlwaysFind == Spec => [](corrupted = 0 => ReadsLatest)
<1>1. IndInv /\ ContentsKept => (corrupted = 0 => ReadsLatest)
  BY InvReadsLatest DEF ContentsKept
<1>2. QED
  BY MapInvariance, MapContents, <1>1, PTL

\* When nothing is undumped, nothing is in memory.
LEMMA NothingUndumped ==
    ASSUME IndInv, ContentInv, undumped_size_ = 0
    PROVE  (\A i \in DOMAIN levels : levels[i].file) /\ Overlay(levels) = written
<1>1. /\ Types /\ levels \in Seq(LevelType) /\ area_size_ \in Int /\ rw_level \in Maps
      /\ work \in [Workers -> WorkType]
  BY DEF IndInv, Types
<1>2. Content(rw_level, area_size_, levels, written, undumped_size_, levels0_, snapshot, work)
  BY <1>1, ContentSplit DEF ContentNow
<1>3. PICK a \in Nat, m \in Nat, d \in Nat :
        a = Area(rw_level) /\ m = MemoryArea(levels) /\ d = InDumps(work)
  BY <1>1, <1>2, AreaType, MemoryAreaOf, CountsType DEF Content
<1>4. a <= area_size_ /\ 0 = area_size_ + m + d
  BY <1>2, <1>3 DEF Content, Areas, Sizes0
<1>5. a = 0 /\ m = 0
  BY <1>1, <1>4
<1>6. ASSUME NEW i \in DOMAIN levels PROVE levels[i].file
  <2>1. levels[i] \in ToSet(levels) /\ levels[i] \in LevelType
    BY <1>1, Lists, InSet
  <2>2. ~levels[i].file => levels[i].area > 0
    BY <1>2, <2>1 DEF Content, Areas
  <2>3. QED
    BY <1>1, <1>2, <1>3, <1>5, <2>2, NothingInMemory DEF Content
<1>7. rw_level = Empty
  BY <1>1, <1>3, <1>5, AreaZero
<1>8. Overlay(levels) = written
  <2>1. written \in Maps /\ \A k \in Keys : written[k] = Overlay(levels)[k]
    BY <1>2, <1>7 DEF Content, Wins, Latest, Empty
  <2>2. Overlay(levels) \in Maps
    BY <1>1, OverlayType
  <2>3. QED
    BY <2>1, <2>2 DEF Maps
<1>9. QED
  BY <1>6, <1>8

\* Only AllDumped ends the wait for undumped_size_.
LEMMA OnlyWhenDumped ==
    ASSUME [Next]_vars, dumping = "undumped", dumping' = "merges" PROVE undumped_size_ = 0
<1>1. CASE UNCHANGED vars
  BY <1>1 DEF vars, owner_vars
<1>2. ASSUME dumping' \in {dumping, "undumped"} PROVE FALSE
  BY <1>2
<1>3. ASSUME NEW u \in Users, Call(u) \/ UserStep(u) PROVE FALSE
  <2>1. ASSUME NEW from, NEW to, Leave(u, from, to) PROVE FALSE
    BY <1>2, <2>1 DEF Leave, owner_vars
  <2>2. ASSUME NEW k, NEW entry, NEW area, Change(u, k, entry, area) PROVE FALSE
    BY <1>2, <2>2 DEF Change, WakeOwner
  <2>3. CASE Call(u)
    BY <1>2, <2>3 DEF Call, owner_vars
  <2>4. CASE save_profile(u) \/ remove_profile(u)
    BY <2>2, <2>4 DEF save_profile, remove_profile
  <2>5. QED
    BY <1>3, <2>1, <2>3, <2>4
       DEF UserStep, WaitBackground, BackgroundNotActive, PreconditionsHold, WaitRoom, NotActive, Blocked
<1>4. ASSUME NEW r \in Readers, TakeSnapshot(r) \/ EndGet(r) PROVE FALSE
  BY <1>2, <1>4 DEF TakeSnapshot, EndGet, owner_vars
<1>5. ASSUME NEW w \in Workers, WorkerStep(w) PROVE FALSE
  <2>1. CASE TakeDump(w) \/ DumpFails(w) \/ DumpPublishes(w) \/ RequestMerge(w)
    BY <1>2, <2>1 DEF TakeDump, DumpFails, DumpPublishes, RequestMerge, owner_vars
  <2>2. CASE DumpAccounts(w) \/ MergeAccounts(w)
    BY <1>2, <2>2 DEF DumpAccounts, MergeAccounts, WakeOwner
  <2>3. CASE TakeMerge(w) \/ MergeInterrupted(w) \/ MergeFails(w) \/ MergePublishes(w)
    BY <1>2, <2>3 DEF TakeMerge, MergeInterrupted, MergeFails, MergePublishes, owner_vars
  <2>4. CASE MergeAgain(w)
    BY <1>2, <2>4 DEF MergeAgain, owner_vars
  <2>5. CASE MergeEnds(w)
    BY <2>5 DEF MergeEnds
  <2>6. QED
    BY <1>5, <2>1, <2>2, <2>3, <2>4, <2>5 DEF WorkerStep
<1>6. CASE Deliver \/ activate_object \/ deactivate_object \/ wait_object \/ Close
  BY <1>2, <1>6 DEF Deliver, activate_object, deactivate_object, wait_object, Close, owner_vars
<1>7. CASE DumpStep
  BY <1>7 DEF DumpStep, dump, WaitUndumped, AllDumped, WaitMerges, MergesStopped, DumpGoto
<1>8. QED
  BY <1>1, <1>3, <1>4, <1>5, <1>6, <1>7 DEF Next

\* When dump() stops waiting, all that was written is in files, if every level
\* can be opened for its merge: "wait when all records will be dumped".
THEOREM DumpAlwaysSaves ==
    ASSUME MaxCorrupted = 0
    PROVE  Spec => DumpSaves
<1> DEFINE Opened == corrupted = 0
<1>1. Init => Opened
  BY DEF Init
<1>2. IndInv /\ Opened /\ [Next]_vars => Opened'
  <2>1. SUFFICES ASSUME IndInv, corrupted = 0, [Next]_vars PROVE corrupted' = 0
    OBVIOUS
  <2>2. corrupted' \in Nat /\ (corrupted' = 0 \/ corrupted' <= MaxCorrupted)
    BY <2>1, CorruptedCounts
  <2>3. QED
    BY <2>2
<1>3. Spec => []Opened
  BY <1>1, <1>2, MapInvariance, PTL DEF Spec
<1>4. IndInv /\ ContentsKept /\ Opened /\ [Next]_vars
        => [dumping = "undumped" /\ dumping' = "merges"
              => (\A i \in DOMAIN levels : levels[i].file) /\ Overlay(levels) = written]_vars
  BY OnlyWhenDumped, NothingUndumped DEF ContentsKept
<1>5. QED
  BY <1>3, <1>4, MapInvariance, MapContents, PTL DEF Spec, DumpSaves

(***************************************************************************)
(* Nobody waits in vain.                                                    *)
(***************************************************************************)

\* A broadcast leaves nobody waiting for room.
LEMMA Awake ==
    ASSUME NEW places \in [Users -> Spots], NEW signal \in BOOLEAN
    PROVE  /\ WakeUsers(signal, places) \in [Users -> Spots]
           /\ \A u \in Users : WakeUsers(signal, places)[u] = "waitRoom" =>
                  ~signal /\ places[u] = "waitRoom"
<1>1. ASSUME NEW u \in Users
      PROVE  Woken(places[u]) \in Spots \ {"waitRoom"}
  <2>1. CASE places[u] = "waitRoom"
    BY <2>1 DEF Woken, Spots
  <2>2. CASE places[u] = "waitBackground"
    BY <2>2 DEF Woken, Spots
  <2>3. CASE places[u] \notin {"waitRoom", "waitBackground"}
    <3>1. Woken(places[u]) = places[u]
      BY <2>3 DEF Woken
    <3>2. QED
      BY <2>3, <3>1
  <2>4. QED
    BY <2>1, <2>2, <2>3
<1>2. CASE signal
  <2>1. WakeUsers(signal, places) = [u \in Users |-> Woken(places[u])]
    BY <1>2 DEF WakeUsers
  <2>2. QED
    BY <1>1, <2>1
<1>3. CASE ~signal
  BY <1>3 DEF WakeUsers
<1>4. QED
  BY <1>2, <1>3

LEMMA ToldStays ==
    ASSUME Told, UNCHANGED <<at, undumped_size_, levels0_, area_size_, active_, merge_tasks_count_>>,
           dumping' = dumping \/ dumping' \notin {"waitUndumped", "waitMerges"}
    PROVE  Told'
  BY DEF Told, Full

\* An exchange makes no room.
LEMMA ToldOfExchange ==
    ASSUME Told, NEW map, NEW area \in Int, exchange_rw_level_i_(map, area),
           area > 0 \/ area < rwlevel_max_size_, area_size_' = 0 \/ area_size_' = area_size_
    PROVE  /\ levels0_' \in Int /\ levels0_ <= levels0_' /\ area_size_' < rwlevel_max_size_
<1>1. rwlevel_max_size_ \in Nat \ {0} /\ levels0_ \in Int /\ area_size_ < rwlevel_max_size_
  BY LevelsAssumption DEF Told
<1>2. area > 0 => area_size_' = 0 /\ levels0_' = levels0_ + 1
  BY DEF exchange_rw_level_i_
<1>3. ~(area > 0) => area_size_' = area_size_ /\ levels0_' = levels0_
  BY DEF exchange_rw_level_i_
<1>4. QED
  BY <1>1, <1>2, <1>3

LEMMA ToldOfMove ==
    ASSUME Told, NEW u \in Users, NEW to \in Spots, Goto(u, to),
           to = "waitRoom" => Full /\ active_,
           UNCHANGED <<undumped_size_, levels0_, area_size_, active_, merge_tasks_count_, dumping>>
    PROVE  Told'
<1>1. at' \in [Users -> Spots] /\ at'[u] = to /\ \A v \in Users \ {u} : at'[v] = at[v]
  BY DEF Told, Goto
<1>2. Full' <=> Full
  BY DEF Full
<1>3. QED
  BY <1>1, <1>2 DEF Told

LEMMA ToldOfChange ==
    ASSUME IndInv, Told, NEW u \in Users, NEW k, NEW entry, NEW area \in Int, Change(u, k, entry, area)
    PROVE  Told'
<1> DEFINE undumped == undumped_size_ + AreaChange(area)
           signal == \/ Crosses(undumped_size_, undumped, max_undumped_size_)
                     \/ undumped_size_ # 0 /\ undumped = 0
           places == [at EXCEPT ![u] = "idle"]
<1>1. /\ ~Full /\ undumped_size_' = undumped
      /\ at' = WakeUsers(signal, places) /\ WakeOwner(signal)
      /\ UNCHANGED <<active_, merge_tasks_count_>>
  BY DEF Change, merge_vars
<1>2. area_size_ \in Int /\ undumped_size_ \in Int /\ levels0_ \in Int /\ rwlevel_max_size_ \in Nat \ {0}
  BY LevelsAssumption DEF Told, IndInv, Types
<1>3. undumped \in Int
  BY <1>2 DEF AreaChange
<1>4. /\ levels0_' \in Int /\ area_size_' < rwlevel_max_size_
  <2>1. CASE area >= rwlevel_max_size_
    <3>1. exchange_rw_level_i_([rw_level EXCEPT ![k] = entry], area) /\ area > 0
      BY <1>2, <2>1 DEF Change
    <3>2. QED
      BY <1>2, <3>1 DEF exchange_rw_level_i_
  <2>2. CASE ~(area >= rwlevel_max_size_)
    <3>1. area_size_' = area /\ levels0_' = levels0_
      BY <2>2 DEF Change
    <3>2. QED
      BY <1>2, <2>2, <3>1
  <2>3. QED
    BY <2>1, <2>2
<1>5. places \in [Users -> Spots] /\ \A v \in Users : places[v] # "waitRoom"
  BY <1>1 DEF Told, Spots
<1>6. at' \in [Users -> Spots] /\ \A v \in Users : at'[v] # "waitRoom"
  <2> signal \in BOOLEAN
    OBVIOUS
  <2> HIDE DEF places, signal
  <2>1. QED
    BY <1>1, <1>5, Awake
<1>7. dumping' = "waitUndumped" => undumped_size_' # 0
  BY <1>1, <1>3 DEF Told, WakeOwner
<1>8. dumping' = "waitMerges" => merge_tasks_count_' > 0
  BY <1>1 DEF Told, WakeOwner
<1>9. QED
  BY <1>1, <1>3, <1>4, <1>6, <1>7, <1>8 DEF Told

LEMMA ToldOfUser ==
    ASSUME IndInv, Told, NEW u \in Users, Call(u) \/ UserStep(u) PROVE Told'
<1>1. ASSUME NEW from, NEW to \in Spots, Leave(u, from, to), to = "waitRoom" => Full /\ active_
      PROVE  Told'
  BY <1>1, ToldOfMove DEF Leave, content_vars, account_vars, merge_vars, owner_vars
<1>2. CASE Call(u)
  <2>1. PICK to \in Spots : Goto(u, to) /\ to # "waitRoom"
    BY <1>2 DEF Call, Spots
  <2>2. QED
    BY <1>2, <2>1, ToldOfMove DEF Call, content_vars, account_vars, merge_vars, owner_vars
<1>3. CASE save_profile(u)
  <2>1. profiles \in Nat /\ area_size_ \in Int /\ rw_level \in Maps
    BY Known DEF Types
  <2>2. PICK k \in Keys :
          Change(u, k, profiles + 1, area_size_ - Size(rw_level[k]) + Size(profiles + 1))
    BY <1>3 DEF save_profile
  <2>3. area_size_ - Size(rw_level[k]) + Size(profiles + 1) \in Int
    <3>1. rw_level[k] \in Nat /\ profiles + 1 \in Nat
      BY <2>1 DEF Maps
    <3>2. Size(rw_level[k]) \in Int /\ Size(profiles + 1) \in Int
      BY <3>1, SizeType
    <3>3. QED
      BY <2>1, <3>2
  <2>4. QED
    BY <2>2, <2>3, ToldOfChange
<1>4. CASE remove_profile(u)
  <2>1. area_size_ \in Int /\ ERASE \in Nat
    BY Known DEF Types, ERASE
  <2>2. PICK k \in Keys :
          Change(u, k, ERASE, IF rw_level[k] = NOT_FOUND THEN area_size_ + Size(ERASE) ELSE area_size_)
    BY <1>4 DEF remove_profile
  <2>3. (IF rw_level[k] = NOT_FOUND THEN area_size_ + Size(ERASE) ELSE area_size_) \in Int
    BY <2>1, SizeType
  <2>4. QED
    BY <2>2, <2>3, ToldOfChange
<1>5. CASE WaitBackground(u) \/ BackgroundNotActive(u) \/ PreconditionsHold(u)
  BY <1>1, <1>5 DEF WaitBackground, BackgroundNotActive, PreconditionsHold, Spots
<1>6. CASE WaitRoom(u) \/ NotActive(u) \/ Blocked(u)
  BY <1>1, <1>6 DEF WaitRoom, NotActive, Blocked, Spots
<1>7. QED
  BY <1>2, <1>3, <1>4, <1>5, <1>6 DEF UserStep

\* The counts that dumps and merges change tell those who wait for them.
LEMMA ToldOfCounts ==
    ASSUME Told, NEW signal \in BOOLEAN, at' = WakeUsers(signal, at), WakeOwner(signal),
           undumped_size_' \in Int, levels0_' \in Int,
           Full /\ ~Full' => signal, undumped_size_ # 0 /\ undumped_size_' = 0 => signal,
           UNCHANGED <<area_size_, active_, merge_tasks_count_>>
    PROVE  Told'
<1>1. /\ at' \in [Users -> Spots]
      /\ \A u \in Users : at'[u] = "waitRoom" => ~signal /\ at[u] = "waitRoom"
  BY Awake DEF Told
<1>2. \A u \in Users : at'[u] = "waitRoom" => Full' /\ active_'
  BY <1>1 DEF Told
<1>3. dumping' = "waitUndumped" => undumped_size_' # 0
  BY DEF Told, WakeOwner
<1>4. dumping' = "waitMerges" => merge_tasks_count_' > 0
  BY DEF Told, WakeOwner
<1>5. QED
  BY <1>1, <1>2, <1>3, <1>4 DEF Told

LEMMA ToldOfWorker ==
    ASSUME IndInv, Told, NEW w \in Workers, WorkerStep(w) PROVE Told'
<1>1. /\ work[w] \in WorkType /\ undumped_size_ \in Int /\ levels0_ \in Int
      /\ merge_tasks_count_ \in Int /\ merge_tasks_count_ <= 1
      /\ max_undumped_size_ \in Nat /\ max_levels0_ \in Nat
  BY LevelProfileMapAssumption DEF Told, IndInv, Types
<1>2. CASE TakeDump(w) \/ DumpFails(w) \/ DumpPublishes(w)
  BY <1>2, ToldStays
     DEF TakeDump, DumpFails, DumpPublishes, content_vars, account_vars, merge_vars, owner_vars
<1>3. CASE DumpAccounts(w)
  <2>1. work[w].job = "account" /\ undumped_size_' = undumped_size_ - work[w].area
    BY <1>3 DEF DumpAccounts
  <2>2. work[w].area \in Int
    BY <1>1, <2>1, Work
  <2>3. PICK signal \in BOOLEAN : signal <=> signal_by_undumped_size_(undumped_size_, undumped_size_')
    BY DEF signal_by_undumped_size_
  <2>4. /\ at' = WakeUsers(signal, at) /\ WakeOwner(signal)
        /\ UNCHANGED <<area_size_, levels0_, active_, merge_tasks_count_>>
    BY <1>3, <2>3 DEF DumpAccounts, WakeUsers, WakeOwner, content_vars, merge_vars
  <2>5. undumped_size_' \in Int
    BY <1>1, <2>1, <2>2
  <2>6. Full /\ ~Full' => signal
    BY <1>1, <2>3, <2>4, <2>5 DEF Full, signal_by_undumped_size_, Crosses
  <2>7. undumped_size_ # 0 /\ undumped_size_' = 0 => signal
    BY <2>3 DEF signal_by_undumped_size_
  <2>8. QED
    BY <1>1, <2>4, <2>5, <2>6, <2>7, ToldOfCounts
<1>4. CASE RequestMerge(w)
  <2>1. merge_tasks_count_' >= merge_tasks_count_ /\ merge_tasks_count_' \in Int
    BY <1>1, <1>4 DEF RequestMerge
  <2>2. UNCHANGED <<at, undumped_size_, levels0_, area_size_, active_, dumping>>
    BY <1>4 DEF RequestMerge, content_vars, account_vars, owner_vars
  <2>3. QED
    BY <1>1, <2>1, <2>2 DEF Told, Full
<1>5. CASE TakeMerge(w) \/ MergeInterrupted(w) \/ MergeFails(w) \/ MergePublishes(w)
  BY <1>5, ToldStays
     DEF TakeMerge, MergeInterrupted, MergeFails, MergePublishes, content_vars, account_vars, merge_vars,
         owner_vars
<1>6. CASE MergeAccounts(w)
  <2>1. work[w].job = "recount" /\ levels0_' = levels0_ + work[w].added - work[w].removed
    BY <1>6 DEF MergeAccounts
  <2>2. work[w].added \in Nat /\ work[w].removed \in Nat
    BY <1>1, <2>1, Work
  <2>3. PICK signal \in BOOLEAN : signal <=> signal_by_levels_change_(levels0_, levels0_')
    BY DEF signal_by_levels_change_
  <2>4. /\ at' = WakeUsers(signal, at) /\ WakeOwner(signal)
        /\ UNCHANGED <<area_size_, undumped_size_, active_, merge_tasks_count_>>
    BY <1>6, <2>3 DEF MergeAccounts, WakeUsers, WakeOwner, content_vars, merge_vars
  <2>5. levels0_' \in Int
    BY <1>1, <2>1, <2>2
  <2>6. Full /\ ~Full' => signal
    BY <1>1, <2>3, <2>4, <2>5 DEF Full, signal_by_levels_change_, Crosses
  <2>7. QED
    BY <1>1, <2>4, <2>5, <2>6, ToldOfCounts
<1>7. CASE MergeAgain(w)
  BY <1>7, ToldStays DEF MergeAgain, content_vars, account_vars, merge_vars, owner_vars
<1>8. CASE MergeEnds(w)
  <2>1. /\ UNCHANGED <<at, undumped_size_, levels0_, area_size_, active_>>
        /\ merge_tasks_count_' = merge_tasks_count_ - 1
        /\ dumping' = IF merge_tasks_count_' = 0 /\ dumping = "waitMerges" THEN "merges" ELSE dumping
    BY <1>8 DEF MergeEnds, content_vars, account_vars
  <2>2. dumping' # "waitMerges"
    BY <1>1, <2>1 DEF Told
  <2>3. dumping' = "waitUndumped" => undumped_size_' # 0
    BY <2>1 DEF Told
  <2>4. QED
    BY <2>1, <2>2, <2>3 DEF Told, Full
<1>9. QED
  BY <1>2, <1>3, <1>4, <1>5, <1>6, <1>7, <1>8 DEF WorkerStep

LEMMA ToldOfOwner ==
    ASSUME IndInv, Told,
           activate_object \/ deactivate_object \/ wait_object \/ DumpStep \/ Close
    PROVE  Told'
<1>1. area_size_ \in Int /\ levels0_ \in Int /\ undumped_size_ \in Int /\ max_levels0_ \in Nat
  BY LevelProfileMapAssumption DEF IndInv, Types, Told
<1>2. ASSUME exchange_rw_level_i_(rw_level, area_size_), dumping' \in {dumping, "undumped"},
             UNCHANGED <<at, undumped_size_, active_, merge_tasks_count_>>
      PROVE  Told'
  <2>1. levels0_' \in Int /\ levels0_ <= levels0_' /\ area_size_' < rwlevel_max_size_
    <3>1. area_size_' = 0 \/ area_size_' = area_size_
      BY <1>2 DEF exchange_rw_level_i_
    <3>2. area_size_ < rwlevel_max_size_
      BY DEF Told
    <3>3. QED
      BY <1>1, <1>2, <3>1, <3>2, ToldOfExchange
  <2>2. Full => Full'
    BY <1>1, <1>2, <2>1 DEF Full
  <2>3. QED
    BY <1>2, <2>1, <2>2 DEF Told
<1>3. CASE activate_object
  <2>1. /\ UNCHANGED <<at, undumped_size_, levels0_, area_size_, merge_tasks_count_, dumping>>
        /\ active_' = TRUE
    BY <1>3 DEF activate_object, content_vars, account_vars, merge_vars
  <2>2. QED
    BY <2>1 DEF Told, Full
<1>4. CASE wait_object
  <2>1. /\ UNCHANGED <<undumped_size_, levels0_, area_size_, merge_tasks_count_, dumping>>
        /\ at' = WakeUsers(TRUE, at)
    BY <1>4 DEF wait_object, content_vars, account_vars, merge_vars
  <2>2. at' \in [Users -> Spots] /\ \A u \in Users : at'[u] # "waitRoom"
    BY <2>1, Awake DEF Told
  <2>3. QED
    BY <2>1, <2>2 DEF Told
<1>5. CASE deactivate_object
  BY <1>2, <1>5 DEF deactivate_object, merge_vars
<1>6. CASE dump
  BY <1>2, <1>6 DEF dump, merge_vars
<1>7. CASE WaitUndumped
  BY <1>1, <1>7 DEF WaitUndumped, DumpGoto, Told, Full, content_vars, account_vars, merge_vars
<1>8. CASE AllDumped \/ MergesStopped \/ Close
  BY <1>8, ToldStays
     DEF AllDumped, MergesStopped, Close, DumpGoto, content_vars, account_vars, merge_vars
<1>9. CASE WaitMerges
  BY <1>9 DEF WaitMerges, DumpGoto, Told, Full, content_vars, account_vars, merge_vars
<1>10. QED
  BY <1>3, <1>4, <1>5, <1>6, <1>7, <1>8, <1>9 DEF DumpStep

LEMMA InitTold == ASSUME Init PROVE Told
<1>1. /\ at = [u \in Users |-> "idle"] /\ undumped_size_ = 0 /\ area_size_ = 0 /\ dumping = "no"
      /\ levels0_ = Levels0(levels)
  BY DEF Init
<1>2. levels0_ \in Int
  <2>1. levels \in Seq(LevelType)
    BY InitialLevelsAssumption DEF Init
  <2>2. QED
    BY <1>1, <2>1, Levels0Type
<1>3. 0 < rwlevel_max_size_
  BY LevelsAssumption
<1>4. QED
  BY <1>1, <1>2, <1>3 DEF Told, Spots

LEMMA NextTold == ASSUME IndInv, Told, [Next]_vars PROVE Told'
<1>1. CASE UNCHANGED vars
  BY <1>1, ToldStays DEF vars, content_vars, account_vars, merge_vars, owner_vars
<1>2. ASSUME NEW r \in Readers, TakeSnapshot(r) \/ EndGet(r) PROVE Told'
  BY <1>2, ToldStays DEF TakeSnapshot, EndGet, account_vars, merge_vars, owner_vars
<1>3. CASE Deliver
  BY <1>3, ToldStays DEF Deliver, content_vars, account_vars, merge_vars, owner_vars
<1>4. QED
  BY <1>1, <1>2, <1>3, ToldOfUser, ToldOfWorker, ToldOfOwner DEF Next

\* No wakeup is missed: save_profile and remove_profile signal nothing when they
\* make room, and none waits for room while they do; dump_mem_level_ and
\* merge_levels_ signal when a size leaves its limit.
THEOREM Wakeups == Spec => []Told
<1>1. Init => Told
  BY InitTold
<1>2. IndInv /\ Told /\ [Next]_vars => Told'
  BY NextTold
<1>3. QED
  BY <1>1, <1>2, MapInvariance, PTL DEF Spec

LEMMA SomeCount ==
    ASSUME NEW S, NEW f \in [S -> Nat], Total(f) # 0 PROVE \E x \in S : f[x] > 0
<1>1. PICK x \in S : f[x] # 0
  BY TotalZero
<1>2. f[x] \in Nat
  OBVIOUS
<1>3. QED
  BY <1>1, <1>2

\* A level in memory is dumped, and so is what a thread has dumped counted.
LEMMA DumpComes ==
    ASSUME IndInv, owner # "closed", MemoryArea(levels) # 0 \/ InDumps(work) # 0
    PROVE  DumpUnderway
<1>1. /\ levels \in Seq(LevelType) /\ work \in [Workers -> WorkType]
      /\ Needed(Underway(tasks, planned, Hands), merge_tasks_count_, levels)
  BY Known DEF Types
<1>2. ASSUME NEW i \in DOMAIN levels, ~levels[i].file PROVE DumpUnderway
  <2>1. PICK s \in Nat : s = levels[i].sub_index
    BY <1>1, Lists, Cells
  <2>2. PICK t \in TaskType : t = DumpTask(s) /\ t.task = "dump" /\ t # MergeTask
    BY <2>1, Tasks
  <2>3. t \in Underway(tasks, planned, Hands)
    BY <1>1, <1>2, <2>1, <2>2 DEF Needed
  <2>4. CASE t \in Pending
    BY <2>2, <2>4 DEF DumpUnderway
  <2>5. CASE t \notin Pending
    <3>1. PICK w \in Workers : Hands[w] = t
      BY <2>3, <2>5 DEF Underway, Pending, ToSet
    <3>2. work[w].job = "write"
      <4>1. work[w] \in WorkType /\ Hands[w] = TaskIn(work[w])
        BY <1>1, HandsKnown
      <4>2. t # NoTask
        BY Tasks
      <4>3. QED
        BY <2>2, <3>1, <4>1, <4>2 DEF TaskIn
    <3>3. QED
      BY <3>2 DEF DumpUnderway
  <2>6. QED
    BY <2>4, <2>5
<1>3. CASE MemoryArea(levels) # 0
  <2> DEFINE f == [i \in DOMAIN levels |-> IF levels[i].file THEN 0 ELSE levels[i].area]
  <2>1. f \in [DOMAIN levels -> Nat]
    <3>1. \A i \in DOMAIN levels : levels[i] \in LevelType
      BY <1>1, Lists
    <3>2. \A l \in LevelType : l.area \in Nat
      BY DEF LevelType
    <3>3. QED
      BY <3>1, <3>2
  <2>2. \A i \in DOMAIN levels : f[i] > 0 => ~levels[i].file
    OBVIOUS
  <2>3. Total(f) # 0
    BY <1>3 DEF MemoryArea
  <2> HIDE DEF f
  <2>4. QED
    BY <1>2, <2>1, <2>2, <2>3, SomeCount
<1>4. CASE InDumps(work) # 0
  <2> DEFINE f == [w \in Workers |-> DumpedArea(work[w])]
  <2>1. f \in [Workers -> Nat] /\ \A w \in Workers : f[w] = DumpedArea(work[w])
    BY <1>1, Uncounted
  <2>2. Total(f) # 0
    BY <1>4 DEF InDumps
  <2> HIDE DEF f
  <2>3. QED
    BY <2>1, <2>2, SomeCount DEF DumpUnderway
<1>5. QED
  BY <1>3, <1>4

\* A merge that is published and not counted is not over.
LEMMA MergeComes ==
    ASSUME IndInv, owner # "closed", InRemoves(work) # 0 PROVE merge_tasks_count_ > 0
<1>1. /\ work \in [Workers -> WorkType]
      /\ Needed(Underway(tasks, planned, Hands), merge_tasks_count_, levels)
  BY Known DEF Types
<1> DEFINE f == [w \in Workers |-> Removed(work[w])]
<1>2. f \in [Workers -> Nat] /\ \A w \in Workers : f[w] = Removed(work[w])
  BY <1>1, Uncounted
<1>3. Total(f) # 0
  BY DEF InRemoves
<1> HIDE DEF f
<1>4. PICK w \in Workers : Removed(work[w]) > 0
  BY <1>2, <1>3, SomeCount
<1>5. work[w].job = "recount" /\ work[w] \in WorkType /\ Hands[w] = TaskIn(work[w])
  BY <1>1, <1>4, HandsKnown DEF Removed
<1>6. Hands[w] = MergeTask
  BY <1>5, Work DEF MergeJobs
<1>7. MergeTask \in Underway(tasks, planned, Hands)
  BY <1>6, Tasks DEF Underway
<1>8. QED
  BY <1>1, <1>7 DEF Needed

\* Two files of index 0 are one too many.
LEMMA MergeNeeded ==
    ASSUME NEW ls \in Seq(LevelType), ZeroFirst(ls), \A i \in DOMAIN ls : ls[i].file, Levels0(ls) > 1
    PROVE  merge_check_(ls)
<1> DEFINE I == {i \in DOMAIN ls : ls[i].index = 0}
<1>1. Cardinality(I) > 1
  BY DEF Levels0
<1>2. PICK n \in Nat : DOMAIN ls = 1 .. n
  BY Lists
<1>3. I \subseteq Nat
  BY <1>2
<1>4. PICK i \in I, j \in I : i # j
  <2> HIDE DEF I
  <2>1. QED
    BY <1>1, AtMostOne
<1>5. PICK a \in I, b \in I : a < b
  BY <1>3, <1>4
<1>6. \A k \in 1 .. b : ls[k].index = 0
  <2>1. ASSUME NEW k \in 1 .. b PROVE ls[k].index = 0
    <3>1. k \in DOMAIN ls /\ b \in DOMAIN ls /\ ls[b].index = 0
      BY <1>2
    <3>2. k = b \/ k < b
      BY <1>3
    <3>3. QED
      BY <3>1, <3>2 DEF ZeroFirst
  <2>2. QED
    BY <2>1
<1>7. QED
  BY <1>5, <1>6 DEF merge_check_

LEMMA InvRoomIsMade == ASSUME IndInv, ContentInv, Told PROVE RoomIsMade
<1> SUFFICES ASSUME owner # "closed"
             PROVE  /\ undumped_size_ >= max_undumped_size_ => DumpUnderway
                    /\ levels0_ >= max_levels0_ /\ max_levels0_ > 1 =>
                           DumpUnderway \/ MergeUnderway \/ interrupted
                    /\ undumped_size_ > 0 => DumpUnderway \/ area_size_ > 0
  BY DEF RoomIsMade
<1>1. /\ Types /\ levels \in Seq(LevelType) /\ area_size_ \in Int /\ rw_level \in Maps
      /\ work \in [Workers -> WorkType] /\ ZeroFirst(levels) /\ MergeNotForgotten
  BY DEF IndInv, Types
<1>2. Sizes0(undumped_size_, levels0_, area_size_, levels, work) /\ Ordered(levels)
  BY <1>1, ContentSplit DEF ContentNow, Content
<1>3. PICK m \in Nat, d \in Nat, z \in Nat, a \in Nat, r \in Nat :
        /\ m = MemoryArea(levels) /\ d = InDumps(work)
        /\ z = Levels0(levels) /\ a = InAdds(work) /\ r = InRemoves(work)
  BY <1>1, <1>2, MemoryAreaOf, CountsType, Levels0Type
<1>4. /\ undumped_size_ = area_size_ + m + d
      /\ levels0_ \in Int /\ levels0_ + a = z + r
  BY <1>2, <1>3 DEF Sizes0
<1>5. m + d # 0 => DumpUnderway
  BY <1>3, DumpComes
<1>6. /\ area_size_ < rwlevel_max_size_ /\ rwlevel_max_size_ \in Nat /\ max_undumped_size_ \in Nat
      /\ rwlevel_max_size_ <= max_undumped_size_ /\ max_levels0_ \in Nat
  BY LevelProfileMapAssumption DEF Told
<1>7. undumped_size_ >= max_undumped_size_ => DumpUnderway
  BY <1>1, <1>4, <1>5, <1>6
<1>8. undumped_size_ > 0 => DumpUnderway \/ area_size_ > 0
  BY <1>1, <1>4, <1>5
<1>9. ASSUME levels0_ >= max_levels0_, max_levels0_ > 1, ~DumpUnderway
      PROVE  MergeUnderway \/ interrupted
  <2>1. CASE r # 0
    BY <1>3, <2>1, MergeComes DEF MergeUnderway
  <2>2. CASE r = 0
    <3>1. z > 1
      BY <1>4, <1>6, <1>9, <2>2
    <3>2. \A i \in DOMAIN levels : levels[i].file
      <4>1. m = 0
        BY <1>5, <1>9
      <4>2. \A i \in DOMAIN levels : ~levels[i].file => levels[i].area > 0
        <5>1. \A i \in DOMAIN levels : levels[i] \in ToSet(levels)
          BY <1>1, InSet
        <5>2. QED
          BY <5>1 DEF ContentInv, AreasKnown
      <4>3. QED
        BY <1>1, <1>2, <1>3, <4>1, <4>2, NothingInMemory
    <3>3. merge_check_(levels)
      BY <1>1, <1>3, <3>1, <3>2, MergeNeeded
    <3>4. QED
      BY <1>1, <3>3 DEF MergeNotForgotten, MergeUnderway
  <2>3. QED
    BY <2>1, <2>2
<1>10. QED
  BY <1>7, <1>8, <1>9

LEMMA InvNobodyForgotten == ASSUME IndInv, ContentInv, Told PROVE NobodyForgotten
<1>1. /\ Types /\ levels \in Seq(LevelType) /\ area_size_ \in Int /\ rw_level \in Maps
      /\ work \in [Workers -> WorkType]
  BY DEF IndInv, Types
<1>2. Content(rw_level, area_size_, levels, written, undumped_size_, levels0_, snapshot, work)
  BY <1>1, ContentSplit DEF ContentNow
<1>3. PICK a \in Nat, m \in Nat, d \in Nat :
        a = Area(rw_level) /\ m = MemoryArea(levels) /\ d = InDumps(work)
  BY <1>1, <1>2, AreaType, MemoryAreaOf, CountsType DEF Content
<1>4. a <= area_size_ /\ undumped_size_ = area_size_ + m + d
  BY <1>2, <1>3 DEF Content, Areas, Sizes0
<1>5. undumped_size_ # 0 => undumped_size_ > 0
  BY <1>1, <1>4
<1>6. QED
  BY <1>5 DEF Told, NobodyForgotten

\* While every level could be opened for its merge, who waits in save_profile,
\* remove_profile or dump() is not forgotten, and the dump or the merge that
\* will end the wait is queued, planned or running.
THEOREM WaitsEnd == Spec => [](corrupted = 0 => NobodyWaitsInVain)
<1>1. IndInv /\ ContentsKept /\ Told => (corrupted = 0 => NobodyWaitsInVain)
  BY InvRoomIsMade, InvNobodyForgotten DEF ContentsKept, NobodyWaitsInVain
<1>2. QED
  BY MapInvariance, MapContents, Wakeups, <1>1, PTL

===============================================================================
