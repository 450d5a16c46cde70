----------------------------- MODULE LevelsProofs -----------------------------
(***************************************************************************)
(* What holds of any levels, for any keys: sums of sizes, what a reader    *)
(* finds in levels that are in order, and where a merge leaves its result. *)
(***************************************************************************)
EXTENDS Levels, FiniteSetTheorems, SequenceTheorems, WellFoundedInduction, TLAPS

\* A set of numbers has a smallest one, and a set of places a first and a last.
LEMMA Least ==
    ASSUME NEW S, S \subseteq Nat, S # {} PROVE \E n \in S : \A m \in S : n <= m
<1>1. PICK n \in S : \A m \in S : <<m, n>> \notin OpToRel(<, Nat)
  BY NatLessThanWellFounded, WFMin
<1>2. \A m \in S : ~(m < n)
  BY <1>1 DEF OpToRel
<1>3. QED
  BY <1>2

LEMMA Greatest ==
    ASSUME NEW k \in Nat, NEW S, S \subseteq 1 .. k, S # {}
    PROVE  \E n \in S : \A m \in S : n >= m
<1> DEFINE T == {k - m : m \in S}
<1>1. T \subseteq Nat /\ T # {}
  <2>1. \A m \in S : k - m \in Nat
    OBVIOUS
  <2>2. QED
    BY <2>1
<1>2. PICK t \in T : \A m \in T : t <= m
  BY <1>1, Least
<1>3. PICK n \in S : t = k - n
  OBVIOUS
<1>4. \A m \in S : t <= k - m
  BY <1>2
<1>5. QED
  BY <1>3, <1>4

\* Where the first element with a property is, and where the last one is.
LEMMA FirstOf ==
    ASSUME NEW k \in Nat, NEW I, I \subseteq 1 .. k, I # {}
    PROVE  Min(I) \in I /\ \A m \in I : Min(I) <= m
<1>1. \E n \in I : \A m \in I : n <= m
  <2>1. I \subseteq Nat
    OBVIOUS
  <2>2. QED
    BY <2>1, Least
<1>2. QED
  BY <1>1 DEF Min

LEMMA LastOf ==
    ASSUME NEW k \in Nat, NEW I, I \subseteq 1 .. k, I # {}
    PROVE  Max(I) \in I /\ \A m \in I : Max(I) >= m
<1>1. \E n \in I : \A m \in I : n >= m
  BY Greatest
<1>2. QED
  BY <1>1 DEF Max

LEMMA Lists ==
    ASSUME NEW S, NEW s \in Seq(S)
    PROVE  /\ Len(s) \in Nat /\ DOMAIN s = 1 .. Len(s)
           /\ \A i \in DOMAIN s : s[i] \in S
  OBVIOUS

-------------------------------------------------------------------------------
(***************************************************************************)
(* Sums.                                                                   *)
(***************************************************************************)
LEMMA InUnits ==
    ASSUME NEW S, NEW f \in [S -> Nat]
    PROVE  \A u : u \in Units(f) <=> \E x \in S : \E n \in 1 .. f[x] : u = <<x, n>>
<1>1. DOMAIN f = S
  OBVIOUS
<1>2. ASSUME NEW u PROVE u \in Units(f) <=> \E x \in S : u \in {x} \X (1 .. f[x])
  BY <1>1 DEF Units
<1>3. \A u, x : u \in {x} \X (1 .. f[x]) <=> \E n \in 1 .. f[x] : u = <<x, n>>
  OBVIOUS
<1>4. QED
  BY <1>2, <1>3

LEMMA Column ==
    ASSUME NEW x, NEW n \in Nat
    PROVE  IsFiniteSet({x} \X (1 .. n)) /\ Cardinality({x} \X (1 .. n)) = n
<1>1. IsFiniteSet({x}) /\ Cardinality({x}) = 1
  BY FS_Singleton
<1>2. IsFiniteSet(1 .. n) /\ Cardinality(1 .. n) = n
  BY FS_Interval
<1>3. /\ IsFiniteSet({x} \X (1 .. n))
      /\ Cardinality({x} \X (1 .. n)) = Cardinality({x}) * Cardinality(1 .. n)
  BY <1>1, <1>2, FS_Product, Zenon
<1>4. 1 * n = n
  OBVIOUS
<1>5. QED
  BY <1>1, <1>2, <1>3, <1>4

LEMMA TotalType ==
    ASSUME NEW S, IsFiniteSet(S), NEW f \in [S -> Nat]
    PROVE  IsFiniteSet(Units(f)) /\ Total(f) \in Nat
<1> DEFINE columns == {{x} \X (1 .. f[x]) : x \in S}
           column == [x \in S |-> {x} \X (1 .. f[x])]
<1>1. column \in Surjection(S, columns)
  BY DEF Surjection
<1>2. IsFiniteSet(columns)
  <2> HIDE DEF columns, column
  <2>1. QED
    BY <1>1, FS_Surjection
<1>3. \A c \in columns : IsFiniteSet(c)
  <2>1. ASSUME NEW x \in S PROVE IsFiniteSet({x} \X (1 .. f[x]))
    BY Column
  <2>2. QED
    BY <2>1
<1>4. IsFiniteSet(UNION columns)
  <2> HIDE DEF columns
  <2>1. QED
    BY <1>2, <1>3, FS_UNION
<1>5. Units(f) = UNION columns
  BY DEF Units
<1>6. IsFiniteSet(Units(f))
  BY <1>4, <1>5
<1>7. QED
  BY <1>6, FS_CardinalityType DEF Total

\* One number, and the others.
LEMMA TotalSplit ==
    ASSUME NEW S, IsFiniteSet(S), NEW f \in [S -> Nat], NEW x \in S
    PROVE  /\ Total([y \in S \ {x} |-> f[y]]) \in Nat
           /\ Total(f) = Total([y \in S \ {x} |-> f[y]]) + f[x]
<1> DEFINE others == [y \in S \ {x} |-> f[y]]
           P == {x} \X (1 .. f[x])
<1>1. IsFiniteSet(S \ {x}) /\ others \in [S \ {x} -> Nat]
  BY FS_Difference
<1>2. IsFiniteSet(Units(others)) /\ Total(others) \in Nat
  <2> HIDE DEF others
  <2>1. QED
    BY <1>1, TotalType
<1>3. IsFiniteSet(P) /\ Cardinality(P) = f[x]
  BY Column
<1>4. \A u : u \in P <=> \E n \in 1 .. f[x] : u = <<x, n>>
  OBVIOUS
<1>5. \A y \in S \ {x} : others[y] = f[y]
  OBVIOUS
<1> HIDE DEF others, P
<1>6. \A u : u \in Units(others) <=> \E y \in S \ {x} : \E n \in 1 .. f[y] : u = <<y, n>>
  <2>1. \A u : u \in Units(others) <=> \E y \in S \ {x} : \E n \in 1 .. others[y] : u = <<y, n>>
    BY <1>1, InUnits
  <2>2. QED
    BY <1>5, <2>1
<1>7. \A u : u \in Units(f) <=> u \in Units(others) \/ u \in P
  <2>1. \A u : u \in Units(f) <=> \E y \in S : \E n \in 1 .. f[y] : u = <<y, n>>
    BY InUnits
  <2>2. QED
    BY <1>4, <1>6, <2>1
<1>8. Units(f) = Units(others) \cup P /\ Units(others) \cap P = {}
  <2>1. Units(f) = Units(others) \cup P
    BY <1>7
  <2>2. ASSUME NEW u \in Units(others), u \in P PROVE FALSE
    <3>1. PICK y \in S \ {x} : \E n \in 1 .. f[y] : u = <<y, n>>
      BY <1>6
    <3>2. PICK m \in 1 .. f[x] : u = <<x, m>>
      BY <1>4, <2>2
    <3>3. QED
      BY <3>1, <3>2
  <2>3. QED
    BY <2>1, <2>2
<1>9. Cardinality(Units(f)) = Cardinality(Units(others)) + Cardinality(P) - Cardinality({})
  BY <1>2, <1>3, <1>8, FS_Union
<1>10. Total(f) = Total(others) + f[x]
  BY <1>2, <1>3, <1>9, FS_EmptySet DEF Total
<1>11. QED
  BY <1>2, <1>10 DEF others

\* One number changes.
LEMMA TotalChanged ==
    ASSUME NEW S, IsFiniteSet(S), NEW f \in [S -> Nat], NEW g \in [S -> Nat], NEW x \in S,
           \A y \in S \ {x} : g[y] = f[y]
    PROVE  Total(g) = Total(f) - f[x] + g[x]
<1>1. [y \in S \ {x} |-> f[y]] = [y \in S \ {x} |-> g[y]]
  OBVIOUS
<1>2. PICK t : t = Total([y \in S \ {x} |-> f[y]])
  OBVIOUS
<1>3. t \in Nat /\ Total(f) = t + f[x]
  BY <1>2, TotalSplit
<1>4. Total(g) = t + g[x]
  BY <1>1, <1>2, TotalSplit
<1>5. f[x] \in Nat /\ g[x] \in Nat
  OBVIOUS
<1>6. QED
  BY <1>3, <1>4, <1>5

LEMMA TotalBounds ==
    ASSUME NEW S, IsFiniteSet(S), NEW f \in [S -> Nat], NEW x \in S
    PROVE  f[x] <= Total(f)
<1>1. PICK t \in Nat : Total(f) = t + f[x]
  BY TotalSplit
<1>2. f[x] \in Nat
  OBVIOUS
<1>3. QED
  BY <1>1, <1>2

LEMMA TotalZero ==
    ASSUME NEW S, NEW f \in [S -> Nat], \A x \in S : f[x] = 0
    PROVE  Total(f) = 0
<1>1. Units(f) = {}
  <2>1. \A u : u \in Units(f) <=> \E y \in S : \E n \in 1 .. f[y] : u = <<y, n>>
    BY InUnits
  <2>2. \A y \in S : 1 .. f[y] = {}
    OBVIOUS
  <2>3. QED
    BY <2>1, <2>2
<1>2. QED
  BY <1>1, FS_EmptySet DEF Total

\* The same numbers in other places.
Moved(S, f, T, g, A, b) ==
    /\ IsFiniteSet(S) /\ f \in [S -> Nat] /\ g \in [T -> Nat] /\ A \in SUBSET S /\ b \in [A -> T]
    /\ \A x \in S \ A : f[x] = 0
    /\ \A x \in A : g[b[x]] = f[x]
    /\ \A x, y \in A : b[x] = b[y] => x = y
    /\ \A z \in T : g[z] # 0 => \E x \in A : b[x] = z

LEMMA TotalMoved ==
    ASSUME NEW S, NEW f, NEW T, NEW g, NEW A, NEW b, Moved(S, f, T, g, A, b)
    PROVE  Total(g) = Total(f)
<1> USE DEF Moved
<1> DEFINE move == [u \in Units(f) |-> <<b[u[1]], u[2]>>]
<1>1. ASSUME NEW u \in Units(f)
      PROVE  u[1] \in A /\ u[2] \in 1 .. f[u[1]] /\ u = <<u[1], u[2]>>
  <2>1. PICK x \in S : \E n \in 1 .. f[x] : u = <<x, n>>
    BY InUnits
  <2>2. f[x] # 0
    BY <2>1
  <2>3. QED
    BY <2>1, <2>2
<1>2. ASSUME NEW u \in Units(f) PROVE <<b[u[1]], u[2]>> \in Units(g)
  <2>1. b[u[1]] \in T /\ u[2] \in 1 .. g[b[u[1]]]
    BY <1>1
  <2>2. QED
    BY <2>1, InUnits
<1>3. ASSUME NEW u \in Units(f), NEW v \in Units(f), <<b[u[1]], u[2]>> = <<b[v[1]], v[2]>>
      PROVE  u = v
  <2>1. b[u[1]] = b[v[1]] /\ u[2] = v[2]
    BY <1>3
  <2>2. u[1] = v[1]
    BY <1>1, <2>1
  <2>3. u = <<u[1], u[2]>> /\ v = <<v[1], v[2]>>
    BY <1>1
  <2>4. QED
    BY <2>1, <2>2, <2>3
<1>4. ASSUME NEW w \in Units(g) PROVE \E u \in Units(f) : <<b[u[1]], u[2]>> = w
  <2>1. PICK z \in T : \E n \in 1 .. g[z] : w = <<z, n>>
    BY InUnits
  <2>2. PICK n \in 1 .. g[z] : w = <<z, n>>
    BY <2>1
  <2>3. PICK x \in A : b[x] = z
    BY <2>2
  <2>4. n \in 1 .. f[x]
    BY <2>2, <2>3
  <2>5. <<x, n>> \in Units(f)
    BY <2>4, InUnits
  <2>6. <<b[<<x, n>>[1]], <<x, n>>[2]>> = w
    BY <2>2, <2>3
  <2>7. QED
    BY <2>5, <2>6
<1>5. move \in Bijection(Units(f), Units(g))
  <2>1. /\ move \in [Units(f) -> Units(g)]
        /\ \A u \in Units(f) : move[u] = <<b[u[1]], u[2]>>
    BY <1>2
  <2> HIDE DEF move
  <2>2. \A u, v \in Units(f) : move[u] = move[v] => u = v
    BY <1>3, <2>1
  <2>3. \A w \in Units(g) : \E u \in Units(f) : move[u] = w
    BY <1>4, <2>1
  <2>4. QED
    BY <2>1, <2>2, <2>3 DEF Bijection, Injection, Surjection, IsInjective
<1>6. IsFiniteSet(Units(f))
  BY TotalType
<1>7. QED
  <2> HIDE DEF move
  <2>1. ExistsBijection(Units(f), Units(g))
    BY <1>5 DEF ExistsBijection
  <2>2. QED
    BY <1>6, <2>1, FS_Bijection DEF Total

\* Every key in one of several places: not more than all of them in all places.
Choice(K, I, g, c, chosen, sums) ==
    /\ IsFiniteSet(K) /\ IsFiniteSet(I) /\ g \in [I -> [K -> Nat]] /\ c \in [K -> I]
    /\ chosen \in [K -> Nat] /\ \A k \in K : chosen[k] = g[c[k]][k]
    /\ sums \in [I -> Nat] /\ \A i \in I : sums[i] = Total(g[i])

LEMMA TotalChosen ==
    ASSUME NEW K, NEW I, NEW g, NEW c, NEW chosen, NEW sums, Choice(K, I, g, c, chosen, sums)
    PROVE  Total(chosen) <= Total(sums)
<1> USE DEF Choice
<1> DEFINE Into(i) == CHOOSE h : h \in Bijection(Units(g[i]), 1 .. Total(g[i]))
           place == [u \in Units(chosen) |-> <<c[u[1]], Into(c[u[1]])[u]>>]
<1>1. ASSUME NEW i \in I
      PROVE  Total(g[i]) \in Nat /\ Into(i) \in Bijection(Units(g[i]), 1 .. Total(g[i]))
  <2>1. IsFiniteSet(Units(g[i])) /\ Total(g[i]) \in Nat
    BY TotalType
  <2>2. IsFiniteSet(1 .. Total(g[i])) /\ Cardinality(1 .. Total(g[i])) = Total(g[i])
    BY <2>1, FS_Interval
  <2>3. ExistsBijection(Units(g[i]), 1 .. Total(g[i]))
    BY <2>1, <2>2, FS_SameCardinalityBij DEF Total
  <2>4. \E h : h \in Bijection(Units(g[i]), 1 .. Total(g[i]))
    BY <2>3 DEF ExistsBijection
  <2>5. QED
    BY <2>1, <2>4
<1> HIDE DEF Into
<1>2. \A u \in Units(chosen) : place[u] = <<c[u[1]], Into(c[u[1]])[u]>>
  OBVIOUS
<1>3. DOMAIN place = Units(chosen)
  OBVIOUS
<1>4. place = [u \in Units(chosen) |-> place[u]]
  OBVIOUS
<1> HIDE DEF place
<1>5. ASSUME NEW u \in Units(chosen) PROVE u[1] \in K /\ c[u[1]] \in I /\ u \in Units(g[c[u[1]]])
  <2>1. PICK k \in K : \E n \in 1 .. chosen[k] : u = <<k, n>>
    BY InUnits
  <2>2. PICK n \in 1 .. g[c[k]][k] : u = <<k, n>>
    BY <2>1
  <2>3. c[k] \in I /\ g[c[k]] \in [K -> Nat]
    OBVIOUS
  <2>4. u \in Units(g[c[k]])
    BY <2>2, <2>3, InUnits
  <2>5. u[1] = k
    BY <2>2
  <2>6. QED
    BY <2>3, <2>4, <2>5
<1>6. ASSUME NEW u \in Units(chosen) PROVE place[u] \in Units(sums)
  <2>1. PICK i \in I : i = c[u[1]] /\ u \in Units(g[i])
    BY <1>5
  <2>2. Into(i)[u] \in 1 .. sums[i]
    BY <1>1, <2>1 DEF Bijection, Injection
  <2>3. place[u] = <<i, Into(i)[u]>>
    BY <1>2, <2>1
  <2>4. QED
    BY <2>2, <2>3, InUnits
<1>7. ASSUME NEW u \in Units(chosen), NEW v \in Units(chosen), place[u] = place[v]
       PROVE  u = v
  <2>1. PICK i \in I : i = c[u[1]] /\ u \in Units(g[i])
    BY <1>5
  <2>2. c[v[1]] = i /\ Into(i)[u] = Into(i)[v]
    BY <1>2, <1>7, <2>1
  <2>3. v \in Units(g[i])
    BY <1>5, <2>2
  <2>4. QED
    BY <1>1, <2>1, <2>2, <2>3 DEF Bijection, Injection, IsInjective
<1>8. place \in Injection(Units(chosen), Units(sums))
  BY <1>3, <1>4, <1>6, <1>7 DEF Injection, IsInjective
<1>9. IsFiniteSet(Units(sums))
  BY TotalType
<1>10. Cardinality(Units(chosen)) <= Cardinality(Units(sums))
  BY <1>8, <1>9, FS_Injection
<1>11. QED
  BY <1>10 DEF Total

-------------------------------------------------------------------------------
(***************************************************************************)
(* Sizes.                                                                  *)
(***************************************************************************)
LEMMA SizeType ==
    ASSUME NEW entry \in Nat PROVE Size(entry) \in Nat /\ (Size(entry) = 0 <=> entry = NOT_FOUND)
  BY DEF Size, NOT_FOUND, Profiles

Sizes(map) == [k \in Keys |-> Size(map[k])]

LEMMA SizesType ==
    ASSUME NEW map \in Maps
    PROVE  Sizes(map) \in [Keys -> Nat] /\ Area(map) = Total(Sizes(map)) /\ IsFiniteSet(Keys)
<1>1. \A k \in Keys : Size(map[k]) \in Nat
  BY SizeType DEF Maps
<1>2. QED
  BY <1>1, LevelsAssumption DEF Sizes, Area

LEMMA AreaType == ASSUME NEW map \in Maps PROVE Area(map) \in Nat
  BY SizesType, TotalType

\* An area of 0 is that of nothing.
LEMMA AreaZero == ASSUME NEW map \in Maps, Area(map) = 0 PROVE map = Empty
<1>1. ASSUME NEW k \in Keys PROVE map[k] = NOT_FOUND
  <2>1. Sizes(map)[k] <= 0 /\ Sizes(map)[k] \in Nat
    BY SizesType, TotalBounds
  <2>2. Sizes(map)[k] = Size(map[k]) /\ map[k] \in Nat
    BY DEF Sizes, Maps
  <2>3. QED
    BY <2>1, <2>2, SizeType
<1>2. QED
  BY <1>1 DEF Maps, Empty

LEMMA AreaOfEmpty == Empty \in Maps /\ Area(Empty) = 0
<1>1. Empty \in Maps
  BY DEF Empty, Maps, NOT_FOUND
<1>2. \A k \in Keys : Sizes(Empty)[k] = 0
  BY SizeType DEF Sizes, Empty, NOT_FOUND
<1>3. QED
  BY <1>1, <1>2, SizesType, TotalZero

\* An entry takes the place of another.
LEMMA AreaChanged ==
    ASSUME NEW map \in Maps, NEW k \in Keys, NEW entry \in Nat
    PROVE  Area([map EXCEPT ![k] = entry]) = Area(map) - Size(map[k]) + Size(entry)
<1> DEFINE new == [map EXCEPT ![k] = entry]
<1>1. new \in Maps /\ new[k] = entry /\ \A j \in Keys \ {k} : new[j] = map[j]
  BY DEF Maps
<1> HIDE DEF new
<1>2. /\ Sizes(new) \in [Keys -> Nat] /\ Area(new) = Total(Sizes(new))
      /\ Sizes(map) \in [Keys -> Nat] /\ Area(map) = Total(Sizes(map)) /\ IsFiniteSet(Keys)
  BY <1>1, SizesType
<1>3. \A j \in Keys \ {k} : Sizes(new)[j] = Sizes(map)[j]
  BY <1>1 DEF Sizes
<1>4. Total(Sizes(new)) = Total(Sizes(map)) - Sizes(map)[k] + Sizes(new)[k]
  BY <1>2, <1>3, TotalChanged
<1>5. Sizes(map)[k] = Size(map[k]) /\ Sizes(new)[k] = Size(entry)
  BY <1>1 DEF Sizes
<1>6. QED
  BY <1>2, <1>4, <1>5 DEF new

LEMMA Powers ==
    ASSUME NEW i \in Nat PROVE 2 ^ i \in Nat /\ \A j \in Nat : i <= j => 2 ^ i <= 2 ^ j
<1>1. ASSUME NEW n \in Nat
      PROVE  IsFiniteSet(SUBSET (1 .. n)) /\ Cardinality(SUBSET (1 .. n)) = 2 ^ n
  <2>1. IsFiniteSet(1 .. n) /\ Cardinality(1 .. n) = n
    BY FS_Interval
  <2>2. QED
    BY <2>1, FS_SUBSET
<1>2. 2 ^ i \in Nat
  BY <1>1, FS_CardinalityType
<1>3. ASSUME NEW j \in Nat, i <= j PROVE 2 ^ i <= 2 ^ j
  <2>1. SUBSET (1 .. i) \in SUBSET (SUBSET (1 .. j))
    BY <1>3
  <2>2. Cardinality(SUBSET (1 .. i)) <= Cardinality(SUBSET (1 .. j))
    BY <1>1, <2>1, FS_Subset
  <2>3. QED
    BY <1>1, <2>2
<1>4. QED
  BY <1>2, <1>3

LEMMA FitIndexType == ASSUME NEW area \in Nat PROVE FitIndex(area) \in Nat
<1> DEFINE small == {i \in 0 .. area : rwlevel_max_size_ * 2 ^ i < area}
<1>1. IsFiniteSet(0 .. area)
  BY FS_Interval
<1>2. small \in SUBSET (0 .. area)
  OBVIOUS
<1>3. IsFiniteSet(small)
  <2> HIDE DEF small
  <2>1. QED
    BY <1>1, <1>2, FS_Subset
<1>4. Cardinality(small) \in Nat
  <2> HIDE DEF small
  <2>1. QED
    BY <1>3, FS_CardinalityType
<1>5. QED
  BY <1>4 DEF FitIndex

\* What fits under an index has a smaller one.
LEMMA FitIndexBelow ==
    ASSUME NEW area \in Nat, NEW g \in Nat, g > 0, area < rwlevel_max_size_ * 2 ^ (g - 1)
    PROVE  FitIndex(area) < g
<1> DEFINE small == {i \in 0 .. area : rwlevel_max_size_ * 2 ^ i < area}
<1>1. PICK h \in Nat : h = g - 1
  OBVIOUS
<1>2. ASSUME NEW i \in small PROVE i \in 0 .. h - 1
  <2>1. i \in Nat /\ rwlevel_max_size_ * 2 ^ i < area
    OBVIOUS
  <2>2. ASSUME i >= h PROVE FALSE
    <3>1. 2 ^ h <= 2 ^ i /\ 2 ^ h \in Nat /\ 2 ^ i \in Nat
      BY <2>1, <2>2, <1>1, Powers
    <3>2. rwlevel_max_size_ \in Nat
      BY LevelsAssumption
    <3>3. \A a, b, c \in Nat : b <= c => a * b <= a * c
      OBVIOUS
    <3>4. rwlevel_max_size_ * 2 ^ h <= rwlevel_max_size_ * 2 ^ i
      BY <3>1, <3>2, <3>3
    <3>5. rwlevel_max_size_ * 2 ^ h \in Nat /\ rwlevel_max_size_ * 2 ^ i \in Nat
      BY <3>1, <3>2
    <3>6. area < rwlevel_max_size_ * 2 ^ h
      BY <1>1
    <3>7. QED
      BY <2>1, <3>4, <3>5, <3>6
  <2>3. QED
    BY <1>1, <2>1, <2>2
<1>3. IsFiniteSet(0 .. h - 1) /\ Cardinality(0 .. h - 1) = h
  <2>1. IsFiniteSet(0 .. h - 1) /\ Cardinality(0 .. h - 1) = IF 0 > h - 1 THEN 0 ELSE h - 1 - 0 + 1
    BY <1>1, FS_Interval
  <2>2. QED
    BY <1>1, <2>1
<1>4. Cardinality(small) <= h
  <2>1. small \in SUBSET (0 .. h - 1)
    BY <1>2
  <2> HIDE DEF small
  <2>2. QED
    BY <1>3, <2>1, FS_Subset
<1>5. FitIndex(area) <= h /\ FitIndex(area) \in Nat
  BY <1>4, FitIndexType DEF FitIndex
<1>6. QED
  BY <1>1, <1>5

-------------------------------------------------------------------------------
(***************************************************************************)
(* What a reader finds.                                                    *)
(***************************************************************************)
LEMMA LessOrder ==
    ASSUME NEW l \in LevelType, NEW m \in LevelType, NEW n \in LevelType
    PROVE  /\ ~Less(l, l)
           /\ Less(l, m) => ~Less(m, l)
           /\ Less(l, m) /\ Less(m, n) => Less(l, n)
<1>1. /\ l.index \in Nat /\ m.index \in Nat /\ n.index \in Nat
      /\ l.sub_index \in Nat /\ m.sub_index \in Nat /\ n.sub_index \in Nat
  BY DEF LevelType
<1>2. QED
  BY <1>1 DEF Less

\* The first level that has something for the key.
LEMMA OverlayAt ==
    ASSUME NEW ls \in Seq(LevelType), NEW k \in Keys
    PROVE  \/ Overlay(ls)[k] = NOT_FOUND /\ \A i \in DOMAIN ls : ls[i].map[k] = NOT_FOUND
           \/ \E i \in DOMAIN ls :
                 /\ Overlay(ls)[k] = ls[i].map[k] /\ ls[i].map[k] # NOT_FOUND
                 /\ \A j \in DOMAIN ls : j < i => ls[j].map[k] = NOT_FOUND
<1> DEFINE I == {i \in 1 .. Len(ls) : ls[i].map[k] # NOT_FOUND}
           At == IF I # {} THEN Min(I) ELSE 0
<1>1. Len(ls) \in Nat /\ DOMAIN ls = 1 .. Len(ls)
  BY Lists
<1>2. Overlay(ls)[k] = IF At = 0 THEN NOT_FOUND ELSE ls[At].map[k]
  BY DEF Overlay, SelectInSeq
<1>3. CASE I = {}
  <2>1. \A i \in DOMAIN ls : ls[i].map[k] = NOT_FOUND
    BY <1>1, <1>3
  <2>2. QED
    BY <1>2, <1>3, <2>1
<1>4. CASE I # {}
  <2>1. I \subseteq 1 .. Len(ls)
    OBVIOUS
  <2>2. At \in I /\ \A m \in I : At <= m
    <3> HIDE DEF I
    <3>1. QED
      BY <1>1, <1>4, <2>1, FirstOf
  <2>3. PICK i \in 1 .. Len(ls) : i = At /\ ls[i].map[k] # NOT_FOUND
    BY <2>2
  <2>4. \A j \in DOMAIN ls : j < i => ls[j].map[k] = NOT_FOUND
    <3>1. SUFFICES ASSUME NEW j \in DOMAIN ls, j < i, ls[j].map[k] # NOT_FOUND PROVE FALSE
      OBVIOUS
    <3>2. j \in I
      BY <1>1, <3>1
    <3>3. i <= j
      BY <2>2, <2>3, <3>2
    <3> HIDE DEF I, At
    <3>4. QED
      BY <1>1, <3>1, <3>3
  <2>5. Overlay(ls)[k] = ls[i].map[k]
    <3> HIDE DEF At
    <3>1. QED
      BY <1>2, <2>3
  <2>6. QED
    BY <1>1, <2>3, <2>4, <2>5
<1>5. QED
  BY <1>3, <1>4

LEMMA OverlayType == ASSUME NEW ls \in Seq(LevelType) PROVE Overlay(ls) \in Maps
<1>1. ASSUME NEW k \in Keys PROVE Overlay(ls)[k] \in Nat
  <2>1. ASSUME NEW i \in DOMAIN ls PROVE ls[i].map[k] \in Nat
    <3>1. ls[i] \in LevelType
      BY Lists
    <3>2. QED
      BY <3>1 DEF LevelType, Maps
  <2>2. QED
    BY <2>1, OverlayAt DEF NOT_FOUND
<1>2. Overlay(ls) = [k \in Keys |-> Overlay(ls)[k]]
  BY DEF Overlay
<1>3. QED
  BY <1>1, <1>2 DEF Maps

\* What levels have for a key, whatever the list they are in.
Shows(S, k, v) ==
    \/ v = NOT_FOUND /\ \A l \in S : l.map[k] = NOT_FOUND
    \/ /\ v # NOT_FOUND
       /\ \E l \in S : l.map[k] = v /\ \A m \in S : m.map[k] # NOT_FOUND => m = l \/ Less(l, m)

LEMMA ShowsOne ==
    ASSUME NEW S, S \subseteq LevelType, NEW k, NEW v, NEW w, Shows(S, k, v), Shows(S, k, w)
    PROVE  v = w
<1>1. CASE v = NOT_FOUND \/ w = NOT_FOUND
  BY <1>1 DEF Shows
<1>2. CASE v # NOT_FOUND /\ w # NOT_FOUND
  <2>1. PICK l \in S : l.map[k] = v /\ \A m \in S : m.map[k] # NOT_FOUND => m = l \/ Less(l, m)
    BY <1>2 DEF Shows
  <2>2. PICK n \in S : n.map[k] = w /\ \A m \in S : m.map[k] # NOT_FOUND => m = n \/ Less(n, m)
    BY <1>2 DEF Shows
  <2>3. n = l \/ (Less(l, n) /\ Less(n, l))
    BY <1>2, <2>1, <2>2
  <2>4. QED
    BY <2>1, <2>2, <2>3, LessOrder
<1>3. QED
  BY <1>1, <1>2

LEMMA OverlayShows ==
    ASSUME NEW ls \in Seq(LevelType), Ordered(ls), NEW k \in Keys
    PROVE  Shows(ToSet(ls), k, Overlay(ls)[k])
<1>1. \A l : l \in ToSet(ls) <=> \E i \in DOMAIN ls : l = ls[i]
  BY DEF ToSet
<1>2. CASE Overlay(ls)[k] = NOT_FOUND /\ \A i \in DOMAIN ls : ls[i].map[k] = NOT_FOUND
  BY <1>1, <1>2 DEF Shows
<1>3. ASSUME NEW i \in DOMAIN ls, Overlay(ls)[k] = ls[i].map[k], ls[i].map[k] # NOT_FOUND,
             \A j \in DOMAIN ls : j < i => ls[j].map[k] = NOT_FOUND
      PROVE  Shows(ToSet(ls), k, Overlay(ls)[k])
  <2>1. ASSUME NEW m \in ToSet(ls), m.map[k] # NOT_FOUND PROVE m = ls[i] \/ Less(ls[i], m)
    <3>1. PICK j \in DOMAIN ls : m = ls[j]
      BY <1>1
    <3>2. i \in Int /\ j \in Int
      BY Lists
    <3>3. ~(j < i)
      BY <1>3, <2>1, <3>1
    <3>4. j = i \/ i < j
      BY <3>2, <3>3
    <3>5. QED
      BY <3>1, <3>4 DEF Ordered
  <2>2. QED
    BY <1>1, <1>3, <2>1 DEF Shows
<1>4. QED
  BY <1>2, <1>3, OverlayAt

LEMMA SetType == ASSUME NEW ls \in Seq(LevelType) PROVE ToSet(ls) \subseteq LevelType
  BY Lists DEF ToSet

\* Levels that show the same, in two lists.
LEMMA OverlaySame ==
    ASSUME NEW ls \in Seq(LevelType), Ordered(ls), NEW new \in Seq(LevelType), Ordered(new),
           \A k \in Keys : \A v : Shows(ToSet(ls), k, v) => Shows(ToSet(new), k, v)
    PROVE  Overlay(new) = Overlay(ls)
<1>1. ASSUME NEW k \in Keys PROVE Overlay(new)[k] = Overlay(ls)[k]
  <2>1. Shows(ToSet(new), k, Overlay(ls)[k])
    BY OverlayShows
  <2>2. Shows(ToSet(new), k, Overlay(new)[k])
    BY OverlayShows
  <2>3. ToSet(new) \subseteq LevelType
    BY SetType
  <2>4. QED
    BY <2>1, <2>2, <2>3, ShowsOne
<1>2. Overlay(new) \in Maps /\ Overlay(ls) \in Maps
  BY OverlayType
<1>3. QED
  BY <1>1, <1>2 DEF Maps

LEMMA Prepended ==
    ASSUME NEW ls \in Seq(LevelType), NEW l \in LevelType
    PROVE  /\ <<l>> \o ls \in Seq(LevelType) /\ DOMAIN (<<l>> \o ls) = 1 .. Len(ls) + 1
           /\ (<<l>> \o ls)[1] = l
           /\ \A i \in 1 .. Len(ls) : (<<l>> \o ls)[i + 1] = ls[i]
<1>1. PICK n \in Nat : n = Len(ls)
  BY Lists
<1> DEFINE m == <<l>>
<1>2. m \in Seq(LevelType) /\ Len(m) = 1 /\ m[1] = l
  OBVIOUS
<1> HIDE DEF m
<1>3. /\ m \o ls \in Seq(LevelType) /\ Len(m \o ls) = 1 + n
      /\ \A i \in 1 .. 1 + n : (m \o ls)[i] = IF i <= 1 THEN m[i] ELSE ls[i - 1]
  <2>1. /\ m \o ls \in Seq(LevelType) /\ Len(m \o ls) = Len(m) + Len(ls)
        /\ \A i \in 1 .. Len(m) + Len(ls) : (m \o ls)[i] = IF i <= Len(m) THEN m[i] ELSE ls[i - Len(m)]
    BY <1>2, ConcatProperties, Zenon
  <2>2. QED
    BY <1>1, <1>2, <2>1
<1>4. DOMAIN (m \o ls) = 1 .. n + 1
  BY <1>3, Lists
<1>5. \A i \in 1 .. n : i + 1 \in 1 .. 1 + n /\ ~(i + 1 <= 1) /\ (i + 1) - 1 = i
  OBVIOUS
<1>6. 1 \in 1 .. 1 + n /\ 1 <= 1
  OBVIOUS
<1>7. (m \o ls)[1] = l
  BY <1>2, <1>3, <1>6
<1>8. \A i \in 1 .. n : (m \o ls)[i + 1] = ls[i]
  BY <1>3, <1>5
<1>9. /\ m \o ls \in Seq(LevelType) /\ DOMAIN (m \o ls) = 1 .. Len(ls) + 1
      /\ (m \o ls)[1] = l
      /\ \A i \in 1 .. Len(ls) : (m \o ls)[i + 1] = ls[i]
  BY <1>1, <1>3, <1>4, <1>7, <1>8
<1>10. QED
  BY ONLY <1>9 DEF m

OnTop(l, ls) == <<l>> \o ls

LEMMA OnTopType ==
    ASSUME NEW ls \in Seq(LevelType), NEW l \in LevelType
    PROVE  /\ OnTop(l, ls) \in Seq(LevelType) /\ DOMAIN OnTop(l, ls) = 1 .. Len(ls) + 1
           /\ OnTop(l, ls)[1] = l
           /\ \A i \in 1 .. Len(ls) : OnTop(l, ls)[i + 1] = ls[i]
           /\ \A i \in 1 .. Len(ls) + 1 : i = 1 \/ (i - 1 \in 1 .. Len(ls) /\ OnTop(l, ls)[i] = ls[i - 1])
<1>1. PICK n \in Nat : n = Len(ls)
  BY Lists
<1>2. /\ OnTop(l, ls) \in Seq(LevelType) /\ DOMAIN OnTop(l, ls) = 1 .. n + 1
      /\ OnTop(l, ls)[1] = l
      /\ \A i \in 1 .. n : OnTop(l, ls)[i + 1] = ls[i]
  BY <1>1, Prepended, ZenonT(40) DEF OnTop
<1>3. \A i \in 1 .. n + 1 : i = 1 \/ (i - 1 \in 1 .. n /\ (i - 1) + 1 = i)
  OBVIOUS
<1>4. \A i \in 1 .. n + 1 : i = 1 \/ (i - 1 \in 1 .. n /\ OnTop(l, ls)[i] = ls[i - 1])
  BY <1>2, <1>3
<1>5. QED
  BY <1>1, <1>2, <1>4

LEMMA OnTopPlaces ==
    ASSUME NEW ls \in Seq(LevelType), NEW l \in LevelType
    PROVE  \E n \in Nat, new \in Seq(LevelType) :
             /\ new = OnTop(l, ls) /\ DOMAIN ls = 1 .. n /\ DOMAIN new = 1 .. n + 1 /\ new[1] = l
             /\ \A i \in 1 .. n : new[i + 1] = ls[i]
             /\ \A i \in 1 .. n + 1 : i = 1 \/ (i - 1 \in 1 .. n /\ new[i] = ls[i - 1])
<1>1. /\ OnTop(l, ls) \in Seq(LevelType) /\ DOMAIN OnTop(l, ls) = 1 .. Len(ls) + 1
      /\ OnTop(l, ls)[1] = l
      /\ \A i \in 1 .. Len(ls) : OnTop(l, ls)[i + 1] = ls[i]
      /\ \A i \in 1 .. Len(ls) + 1 : i = 1 \/ (i - 1 \in 1 .. Len(ls) /\ OnTop(l, ls)[i] = ls[i - 1])
  BY OnTopType, ZenonT(40)
<1>2. Len(ls) \in Nat /\ DOMAIN ls = 1 .. Len(ls)
  BY Lists
<1>3. QED
  BY <1>1, <1>2, ZenonT(40)

LEMMA OverlayOnTop ==
    ASSUME NEW ls \in Seq(LevelType), NEW l \in LevelType, NEW k \in Keys
    PROVE  Overlay(OnTop(l, ls))[k] = IF l.map[k] # NOT_FOUND THEN l.map[k] ELSE Overlay(ls)[k]
<1>1. PICK n \in Nat, new \in Seq(LevelType) :
        /\ new = OnTop(l, ls) /\ DOMAIN ls = 1 .. n /\ DOMAIN new = 1 .. n + 1 /\ new[1] = l
        /\ \A i \in 1 .. n : new[i + 1] = ls[i]
        /\ \A i \in 1 .. n + 1 : i = 1 \/ (i - 1 \in 1 .. n /\ new[i] = ls[i - 1])
  BY OnTopPlaces
<1>2. 1 \in 1 .. n + 1 /\ \A i \in 1 .. n : i + 1 \in 1 .. n + 1
  OBVIOUS
<1>3. CASE Overlay(new)[k] = NOT_FOUND /\ \A i \in DOMAIN new : new[i].map[k] = NOT_FOUND
  <2>1. l.map[k] = NOT_FOUND
    BY <1>1, <1>2, <1>3
  <2>2. ASSUME NEW i \in DOMAIN ls PROVE ls[i].map[k] = NOT_FOUND
    <3>1. i + 1 \in DOMAIN new /\ new[i + 1] = ls[i]
      BY <1>1, <1>2
    <3>2. QED
      BY <1>3, <3>1
  <2>3. Overlay(ls)[k] = NOT_FOUND
    BY <2>2, OverlayAt
  <2>4. QED
    BY <1>1, <1>3, <2>1, <2>3
<1>4. ASSUME NEW i \in DOMAIN new, Overlay(new)[k] = new[i].map[k], new[i].map[k] # NOT_FOUND,
             \A j \in DOMAIN new : j < i => new[j].map[k] = NOT_FOUND
      PROVE  Overlay(new)[k] = IF l.map[k] # NOT_FOUND THEN l.map[k] ELSE Overlay(ls)[k]
  <2>1. CASE i = 1
    BY <1>1, <1>4, <2>1
  <2>2. CASE i # 1
    <3>1. i - 1 \in 1 .. n /\ new[i] = ls[i - 1] /\ 1 < i
      BY <1>1, <2>2
    <3>2. l.map[k] = NOT_FOUND
      <4>1. 1 \in DOMAIN new /\ new[1] = l
        BY <1>1, <1>2
      <4>2. QED
        BY <1>4, <3>1, <4>1
    <3>3. PICK h \in DOMAIN ls :
            /\ Overlay(ls)[k] = ls[h].map[k] /\ ls[h].map[k] # NOT_FOUND
            /\ \A j \in DOMAIN ls : j < h => ls[j].map[k] = NOT_FOUND
      <4>1. i - 1 \in DOMAIN ls /\ ls[i - 1].map[k] # NOT_FOUND
        BY <1>1, <1>4, <3>1
      <4>2. QED
        BY <4>1, OverlayAt
    <3>4. ~(i - 1 < h)
      BY <1>1, <1>4, <3>1, <3>3
    <3>5. h + 1 \in DOMAIN new /\ new[h + 1] = ls[h]
      BY <1>1, <1>2
    <3>6. ~(h + 1 < i)
      BY <1>4, <3>3, <3>5
    <3>7. h = i - 1
      BY <1>1, <3>1, <3>4, <3>6
    <3>8. QED
      BY <1>1, <1>4, <3>1, <3>2, <3>3, <3>7
  <2>3. QED
    BY <2>1, <2>2
<1>5. QED
  BY <1>1, <1>3, <1>4, OverlayAt

\* A merged level shows what the levels it replaces have shown.
LEMMA MergedShows ==
    ASSUME NEW S, S \subseteq LevelType, NEW ms \in Seq(LevelType), Ordered(ms), ToSet(ms) \subseteq S,
           \A l \in S \ ToSet(ms) : Apart(l, ms),
           NEW n \in LevelType, n.map = Overlay(ms),
           n.index = MergedLevel(ms).index, n.sub_index = MergedLevel(ms).sub_index,
           NEW k \in Keys, NEW v, Shows(S, k, v)
    PROVE  Shows((S \ ToSet(ms)) \cup {n}, k, v)
<1>1. \A l : l \in ToSet(ms) <=> \E i \in DOMAIN ms : l = ms[i]
  BY DEF ToSet
<1>2. CASE v = NOT_FOUND
  <2>1. \A l \in S : l.map[k] = NOT_FOUND
    BY <1>2 DEF Shows
  <2>2. n.map[k] = NOT_FOUND
    BY <1>1, <2>1, OverlayAt
  <2>3. QED
    BY <1>2, <2>1, <2>2 DEF Shows
<1>3. CASE v # NOT_FOUND
  <2>1. PICK l \in S : l.map[k] = v /\ \A m \in S : m.map[k] # NOT_FOUND => m = l \/ Less(l, m)
    BY <1>3 DEF Shows
  <2>2. CASE l \in ToSet(ms)
    <3>1. Shows(ToSet(ms), k, v)
      BY <1>3, <2>1, <2>2 DEF Shows
    <3>2. n.map[k] = v
      BY <3>1, SetType, OverlayShows, ShowsOne
    <3>3. ASSUME NEW m \in S \ ToSet(ms), m.map[k] # NOT_FOUND PROVE Less(n, m)
      <4>1. Less(l, m)
        BY <2>1, <2>2, <3>3
      <4>2. ~Less(m, l)
        BY <4>1, LessOrder
      <4>3. QED
        BY <1>1, <2>2, <4>2 DEF Apart, Less
    <3>4. QED
      BY <1>3, <3>2, <3>3 DEF Shows
  <2>3. CASE l \notin ToSet(ms)
    <3>1. ASSUME n.map[k] # NOT_FOUND PROVE Less(l, n)
      <4>1. PICK i \in DOMAIN ms : ms[i].map[k] # NOT_FOUND
        BY <3>1, OverlayAt
      <4>2. ms[i] \in S /\ ms[i] # l
        BY <1>1, <2>3
      <4>3. Less(l, ms[i])
        BY <2>1, <4>1, <4>2
      <4>4. ~Less(ms[i], l)
        BY <4>2, <4>3, LessOrder
      <4>5. QED
        BY <2>3, <4>4 DEF Apart, Less
    <3>2. QED
      BY <1>3, <2>1, <2>3, <3>1 DEF Shows
  <2>4. QED
    BY <2>2, <2>3
<1>4. QED
  BY <1>2, <1>3

-------------------------------------------------------------------------------
(***************************************************************************)
(* What a merge takes, and what it makes of it.                            *)
(***************************************************************************)
LEMMA Cells ==
    ASSUME NEW l \in LevelType, NEW m \in LevelType
    PROVE  /\ l.index \in Nat /\ l.sub_index \in Nat
           /\ SameCell(l, m) <=> l.index = m.index /\ l.sub_index = m.sub_index
           /\ m.index = 0 => (Less(l, m) <=> l.index = 0 /\ l.sub_index > m.sub_index)
           /\ l.index = 0 /\ m.index # 0 => Less(l, m)
  BY DEF LevelType, SameCell, Less

\* A merged level is a file in a cell of its own size, or in that of the first
\* merged level.
LEMMA MergedLevelType ==
    ASSUME NEW ms \in Seq(LevelType), ms # <<>>
    PROVE  /\ MergedLevel(ms) \in LevelType /\ MergedLevel(ms).file
           /\ MergedLevel(ms).map = Overlay(ms) /\ MergedLevel(ms).area = Area(Overlay(ms))
           /\ \/ /\ MergedLevel(ms).index = Head(ms).index
                 /\ MergedLevel(ms).sub_index = Head(ms).sub_index
              \/ /\ MergedLevel(ms).index = FitIndex(Area(Overlay(ms)))
                 /\ MergedLevel(ms).index > Head(ms).index
<1> DEFINE map == Overlay(ms)
           index == FitIndex(Area(map))
<1>1. map \in Maps /\ Area(map) \in Nat /\ index \in Nat
  BY OverlayType, AreaType, FitIndexType
<1>2. Head(ms) \in LevelType
  OBVIOUS
<1>3. Head(ms).index \in Nat /\ Head(ms).sub_index \in Nat
  BY <1>2 DEF LevelType
<1>4. MergedLevel(ms) =
        IF index <= Head(ms).index THEN FileLevel(Head(ms).index, Head(ms).sub_index, map)
        ELSE FileLevel(index, 0, map)
  BY DEF MergedLevel
<1>5. /\ MergedLevel(ms) \in LevelType /\ MergedLevel(ms).file
      /\ MergedLevel(ms).map = map /\ MergedLevel(ms).area = Area(map)
      /\ \/ MergedLevel(ms).index = Head(ms).index /\ MergedLevel(ms).sub_index = Head(ms).sub_index
         \/ MergedLevel(ms).index = index /\ index > Head(ms).index
  <2> HIDE DEF map, index
  <2>1. QED
    BY <1>1, <1>3, <1>4 DEF FileLevel, LevelType
<1>6. QED
  BY <1>5

LEMMA MergedZero ==
    ASSUME NEW ms \in Seq(LevelType), ms # <<>>
    PROVE  MergedLevel(ms).index = 0 =>
               Head(ms).index = 0 /\ MergedLevel(ms).sub_index = Head(ms).sub_index
<1>1. Head(ms) \in LevelType
  OBVIOUS
<1>2. Head(ms).index \in Nat
  BY <1>1, Cells
<1>3. QED
  BY <1>2, MergedLevelType

\* The merged contents are not bigger than all that is merged.
LEMMA MergedArea ==
    ASSUME NEW ms \in Seq(LevelType), \A j \in DOMAIN ms : ms[j].area = Area(ms[j].map), ms # <<>>
    PROVE  Area(Overlay(ms)) <= AreaOf(ms) /\ AreaOf(ms) \in Nat
<1> DEFINE g == [j \in DOMAIN ms |-> Sizes(ms[j].map)]
           c == [k \in Keys |-> CHOOSE j \in DOMAIN ms : Overlay(ms)[k] = ms[j].map[k]]
<1>1. /\ DOMAIN ms = 1 .. Len(ms) /\ Len(ms) \in Nat /\ 1 \in DOMAIN ms
      /\ \A j \in DOMAIN ms : ms[j] \in LevelType
  BY Lists, EmptySeq
<1>2. \A j \in DOMAIN ms : ms[j].map \in Maps
  BY <1>1 DEF LevelType
<1>3. IsFiniteSet(DOMAIN ms) /\ IsFiniteSet(Keys)
  BY <1>1, FS_Interval, LevelsAssumption
<1>4. g \in [DOMAIN ms -> [Keys -> Nat]]
  BY <1>2, SizesType
<1>5. ASSUME NEW k \in Keys PROVE \E j \in DOMAIN ms : Overlay(ms)[k] = ms[j].map[k]
  <2>1. CASE Overlay(ms)[k] = NOT_FOUND /\ \A i \in DOMAIN ms : ms[i].map[k] = NOT_FOUND
    <3>1. ms[1].map[k] = Overlay(ms)[k]
      BY <1>1, <2>1
    <3>2. QED
      BY <1>1, <3>1
  <2>2. QED
    BY <2>1, OverlayAt
<1>6. c \in [Keys -> DOMAIN ms] /\ \A k \in Keys : Overlay(ms)[k] = ms[c[k]].map[k]
  BY <1>5
<1>7. \A j \in DOMAIN ms : g[j] = Sizes(ms[j].map)
  OBVIOUS
<1> HIDE DEF g, c
<1> DEFINE areas == [j \in DOMAIN ms |-> ms[j].area]
<1>8. areas \in [DOMAIN ms -> Nat] /\ \A j \in DOMAIN ms : areas[j] = ms[j].area
  BY <1>1 DEF LevelType
<1>9. /\ Sizes(Overlay(ms)) \in [Keys -> Nat]
      /\ Area(Overlay(ms)) = Total(Sizes(Overlay(ms)))
  BY OverlayType, SizesType
<1>10. ASSUME NEW k \in Keys PROVE Sizes(Overlay(ms))[k] = g[c[k]][k]
  <2>1. c[k] \in DOMAIN ms /\ Overlay(ms)[k] = ms[c[k]].map[k]
    BY <1>6
  <2>2. g[c[k]] = Sizes(ms[c[k]].map)
    BY <1>7, <2>1
  <2>3. QED
    BY <2>1, <2>2 DEF Sizes
<1>11. \A j \in DOMAIN ms : areas[j] = Total(g[j])
  BY <1>2, <1>7, <1>8, SizesType
<1>12. AreaOf(ms) = Total(areas)
  BY DEF AreaOf
<1> HIDE DEF areas
<1>13. Total(Sizes(Overlay(ms))) <= Total(areas)
  <2>1. Choice(Keys, DOMAIN ms, g, c, Sizes(Overlay(ms)), areas)
    BY <1>3, <1>4, <1>6, <1>8, <1>9, <1>10, <1>11 DEF Choice
  <2>2. QED
    BY <2>1, TotalChosen
<1>14. QED
  BY <1>3, <1>8, <1>9, <1>12, <1>13, TotalType

\* A merge takes the files of some places in a row, up to the last or to a gap.
LEMMA MergeLevelsCut ==
    ASSUME NEW ls \in Seq(LevelType)
    PROVE  \E first \in Nat \ {0}, end \in Int :
              /\ end <= Len(ls) /\ MergeLevels(ls) = SubSeq(ls, first, end)
              /\ \A i \in first .. Len(ls) : ls[i].file
              /\ first <= end /\ end < Len(ls) =>
                    /\ ls[end + 1].index \notin {ls[end].index, ls[end].index + 1}
                    /\ AreaOf(MergeLevels(ls)) < rwlevel_max_size_ * 2 ^ (ls[end + 1].index - 1)
<1> DEFINE I == {i \in 1 .. Len(ls) : ~ls[i].file}
           first == 1 + (IF I # {} THEN Max(I) ELSE 0)
           last_index(i) == IF i = first THEN 0 ELSE ls[i - 1].index
           Gap(i) == /\ ls[i].index \notin {last_index(i), last_index(i) + 1}
                     /\ AreaOf(SubSeq(ls, first, i - 1)) < rwlevel_max_size_ * 2 ^ (ls[i].index - 1)
           gaps == {i \in first .. Len(ls) : Gap(i)}
           end == IF gaps = {} THEN Len(ls) ELSE Min(gaps) - 1
<1>1. Len(ls) \in Nat /\ I \subseteq 1 .. Len(ls)
  BY Lists
<1>2. first \in Nat /\ 1 <= first /\ \A i \in 1 .. Len(ls) : i >= first => ls[i].file
  <2>1. CASE I = {}
    BY <2>1
  <2>2. CASE I # {}
    <3>1. Max(I) \in I /\ \A m \in I : Max(I) >= m
      BY <1>1, <2>2, LastOf
    <3>2. PICK m \in 1 .. Len(ls) : m = Max(I)
      BY <1>1, <3>1
    <3>3. first = 1 + m
      BY <2>2, <3>2
    <3>4. \A i \in 1 .. Len(ls) : ~ls[i].file => i \in I
      OBVIOUS
    <3>5. \A i \in I : m >= i
      BY <3>1, <3>2
    <3> HIDE DEF I, first
    <3>6. QED
      BY <1>1, <3>3, <3>4, <3>5
  <2>3. QED
    BY <2>1, <2>2
<1>3. gaps \subseteq first .. Len(ls) /\ \A i \in gaps : Gap(i)
  OBVIOUS
<1>4. MergeLevels(ls) = SubSeq(ls, first, end)
  BY DEF MergeLevels, SelectLastInSeq
<1> HIDE DEF first, Gap, gaps
<1>5. /\ end \in Int /\ end <= Len(ls)
      /\ gaps # {} => Gap(end + 1)
      /\ gaps = {} => end = Len(ls)
  <2>1. CASE gaps = {}
    BY <1>1, <2>1
  <2>2. CASE gaps # {}
    <3>1. gaps \subseteq 1 .. Len(ls)
      BY <1>1, <1>2, <1>3
    <3>2. Min(gaps) \in gaps
      BY <1>1, <2>2, <3>1, FirstOf
    <3>3. PICK m \in 1 .. Len(ls) : m = Min(gaps) /\ Gap(m)
      BY <1>3, <3>1, <3>2
    <3>4. end = m - 1
      BY <2>2, <3>3
    <3> HIDE DEF end
    <3>5. end + 1 = m
      BY <3>4
    <3>6. QED
      BY <1>1, <2>2, <3>3, <3>4, <3>5
  <2>3. QED
    BY <2>1, <2>2
<1> HIDE DEF end
<1>6. ASSUME first <= end, end < Len(ls)
      PROVE  /\ ls[end + 1].index \notin {ls[end].index, ls[end].index + 1}
             /\ AreaOf(MergeLevels(ls)) < rwlevel_max_size_ * 2 ^ (ls[end + 1].index - 1)
  <2>1. Gap(end + 1)
    BY <1>1, <1>5, <1>6
  <2>2. (end + 1) - 1 = end /\ end + 1 # first
    BY <1>2, <1>5, <1>6
  <2>3. QED
    BY <1>4, <2>1, <2>2 DEF Gap
<1>7. \A i \in first .. Len(ls) : ls[i].file
  BY <1>1, <1>2
<1>8. first \in Nat \ {0}
  BY <1>2
<1>9. QED
  BY <1>4, <1>5, <1>6, <1>7, <1>8

\* A merge takes files.
LEMMA MergeLevelsType ==
    ASSUME NEW ls \in Seq(LevelType)
    PROVE  /\ MergeLevels(ls) \in Seq(LevelType)
           /\ \A j \in DOMAIN MergeLevels(ls) :
                 \E i \in DOMAIN ls : ls[i] = MergeLevels(ls)[j] /\ ls[i].file
<1>1. PICK first \in Nat \ {0}, end \in Int :
        /\ end <= Len(ls) /\ MergeLevels(ls) = SubSeq(ls, first, end)
        /\ \A i \in first .. Len(ls) : ls[i].file
  BY MergeLevelsCut
<1>2. PICK n \in Nat : n = Len(ls) /\ DOMAIN ls = 1 .. n
  BY Lists
<1>3. \A i \in first .. end : i \in 1 .. n /\ ls[i] \in LevelType /\ ls[i].file
  BY <1>1, <1>2, Lists
<1>4. /\ SubSeq(ls, first, end) \in Seq(LevelType)
      /\ Len(SubSeq(ls, first, end)) = IF first <= end THEN end - first + 1 ELSE 0
      /\ \A i \in 1 .. end - first + 1 : SubSeq(ls, first, end)[i] = ls[first + i - 1]
  BY <1>1, <1>3, SubSeqProperties
<1>5. ASSUME NEW j \in DOMAIN MergeLevels(ls)
      PROVE  \E i \in DOMAIN ls : ls[i] = MergeLevels(ls)[j] /\ ls[i].file
  <2>1. j \in 1 .. Len(SubSeq(ls, first, end))
    BY <1>1, <1>4, <1>5, Lists
  <2>2. j \in 1 .. end - first + 1 /\ first + j - 1 \in first .. end
    BY <1>1, <1>4, <2>1
  <2>3. QED
    BY <1>1, <1>2, <1>3, <1>4, <2>2
<1>6. QED
  BY <1>1, <1>4, <1>5

\* What is not merged is apart from it: above its first level, or below the gap.
LEMMA MergeFits ==
    ASSUME NEW ls \in Seq(LevelType), Ordered(ls), MergeLevels(ls) # <<>>,
           \A i \in DOMAIN ls : ls[i].file => ls[i].area = Area(ls[i].map)
    PROVE  /\ Ordered(MergeLevels(ls))
           /\ \A l \in ToSet(ls) \ ToSet(MergeLevels(ls)) : Apart(l, MergeLevels(ls))
<1>1. PICK first \in Nat \ {0}, end \in Int :
        /\ end <= Len(ls) /\ MergeLevels(ls) = SubSeq(ls, first, end)
        /\ \A i \in first .. Len(ls) : ls[i].file
        /\ first <= end /\ end < Len(ls) =>
              /\ ls[end + 1].index \notin {ls[end].index, ls[end].index + 1}
              /\ AreaOf(MergeLevels(ls)) < rwlevel_max_size_ * 2 ^ (ls[end + 1].index - 1)
  BY MergeLevelsCut
<1>2. PICK n \in Nat : n = Len(ls) /\ DOMAIN ls = 1 .. n /\ \A i \in 1 .. n : ls[i] \in LevelType
  BY Lists
<1>3. PICK ms \in Seq(LevelType) :
        /\ ms = MergeLevels(ls)
        /\ Len(ms) = IF first <= end THEN end - first + 1 ELSE 0
        /\ \A i \in 1 .. end - first + 1 : ms[i] = ls[first + i - 1]
  <2>1. \A i \in first .. end : ls[i] \in LevelType
    BY <1>1, <1>2
  <2>2. /\ SubSeq(ls, first, end) \in Seq(LevelType)
        /\ Len(SubSeq(ls, first, end)) = IF first <= end THEN end - first + 1 ELSE 0
        /\ \A i \in 1 .. end - first + 1 : SubSeq(ls, first, end)[i] = ls[first + i - 1]
    BY <1>1, <2>1, SubSeqProperties
  <2>3. QED
    BY <1>1, <2>2
<1>4. first <= end /\ Len(ms) = end - first + 1 /\ DOMAIN ms = 1 .. end - first + 1
  <2>1. Len(ms) # 0
    BY <1>3
  <2>2. first <= end /\ Len(ms) = end - first + 1
    BY <1>3, <2>1
  <2>3. QED
    BY <2>2, Lists
<1>5. \A j \in 1 .. end - first + 1 : first + j - 1 \in 1 .. n /\ first + j - 1 \in first .. end
  BY <1>1, <1>2
<1>6. \A i, j \in 1 .. n : i < j => Less(ls[i], ls[j])
  BY <1>2 DEF Ordered
<1>7. Ordered(ms)
  <2>1. ASSUME NEW i \in DOMAIN ms, NEW j \in DOMAIN ms, i < j PROVE Less(ms[i], ms[j])
    <3>1. first + i - 1 < first + j - 1
      BY <1>1, <1>4, <2>1
    <3>2. Less(ls[first + i - 1], ls[first + j - 1])
      BY <1>4, <1>5, <1>6, <3>1
    <3>3. QED
      BY <1>3, <1>4, <3>2
  <2>2. QED
    BY <2>1 DEF Ordered
<1>8. /\ ms # <<>> /\ Head(ms) = ls[first] /\ first \in 1 .. n
  <2>1. 1 \in 1 .. end - first + 1 /\ first + 1 - 1 = first /\ first \in 1 .. n
    BY <1>1, <1>2, <1>4
  <2>2. ms # <<>> /\ Head(ms) = ms[1]
    BY <1>3
  <2>3. QED
    BY <1>3, <2>1, <2>2
<1>9. PICK l \in LevelType :
        /\ l = MergedLevel(ms)
        /\ \/ l.index = ls[first].index /\ l.sub_index = ls[first].sub_index
           \/ l.index = FitIndex(Area(Overlay(ms))) /\ l.index > ls[first].index
  BY <1>8, MergedLevelType
<1>10. ASSUME NEW h \in 1 .. n, h < first PROVE Less(ls[h], l) /\ \A j \in DOMAIN ms : Less(ls[h], ms[j])
  <2>1. Less(ls[h], ls[first])
    BY <1>6, <1>8, <1>10
  <2>2. Less(ls[h], l)
    <3>1. PICK a \in Nat, b \in Nat, c \in Nat :
            a = ls[h].index /\ b = ls[first].index /\ c = l.index
      BY <1>2, <1>8, Cells
    <3>2. \/ a < b
          \/ a = b /\ ls[h].sub_index > ls[first].sub_index
      BY <2>1, <3>1 DEF Less
    <3>3. (c = b /\ l.sub_index = ls[first].sub_index) \/ c > b
      BY <1>9, <3>1
    <3>4. CASE c = b /\ l.sub_index = ls[first].sub_index
      BY <3>1, <3>2, <3>4 DEF Less
    <3>5. CASE c > b
      <4>1. a < c
        BY <3>1, <3>2, <3>5
      <4>2. QED
        BY <3>1, <4>1 DEF Less
    <3>6. QED
      BY <3>3, <3>4, <3>5
  <2>3. ASSUME NEW j \in DOMAIN ms PROVE Less(ls[h], ms[j])
    <3>1. h < first + j - 1
      BY <1>1, <1>4, <1>10
    <3>2. QED
      BY <1>3, <1>4, <1>5, <1>6, <3>1
  <2>4. QED
    BY <2>2, <2>3
<1>11. ASSUME NEW h \in 1 .. n, h > end PROVE Less(l, ls[h]) /\ \A j \in DOMAIN ms : Less(ms[j], ls[h])
  <2>1. ASSUME NEW j \in DOMAIN ms PROVE Less(ms[j], ls[h])
    <3>1. first + j - 1 < h
      BY <1>1, <1>4, <1>11
    <3>2. QED
      BY <1>3, <1>4, <1>5, <1>6, <3>1
  <2>2. CASE l.index = ls[first].index /\ l.sub_index = ls[first].sub_index
    <3>1. Less(ls[first], ls[h])
      BY <1>1, <1>4, <1>6, <1>8, <1>11
    <3>2. QED
      BY <2>1, <2>2, <3>1 DEF Less
  <2>3. CASE l.index = FitIndex(Area(Overlay(ms))) /\ l.index > ls[first].index
    <3>1. end \in 1 .. n /\ end + 1 \in 1 .. n /\ end < Len(ls)
      BY <1>1, <1>2, <1>4, <1>11
    <3>2. PICK a \in Nat, b \in Nat, c \in Nat :
            a = ls[end].index /\ b = ls[end + 1].index /\ c = ls[h].index
      <4>1. ls[end] \in LevelType /\ ls[end + 1] \in LevelType /\ ls[h] \in LevelType
        BY <1>2, <3>1
      <4>2. QED
        BY <4>1 DEF LevelType
    <3>3. a <= b
      <4>1. Less(ls[end], ls[end + 1])
        BY <1>6, <3>1
      <4>2. ls[end].index < ls[end + 1].index \/ ls[end].index = ls[end + 1].index
        BY <4>1 DEF Less
      <4>3. QED
        BY <3>2, <4>2
    <3>4. b > 0
      <4>1. ls[end + 1].index # ls[end].index
        BY <1>1, <1>4, <3>1
      <4>2. QED
        BY <3>2, <3>3, <4>1
    <3>5. AreaOf(ms) < rwlevel_max_size_ * 2 ^ (b - 1)
      BY <1>1, <1>3, <1>4, <3>1, <3>2
    <3>6. Area(Overlay(ms)) \in Nat /\ Area(Overlay(ms)) <= AreaOf(ms) /\ AreaOf(ms) \in Nat
      <4>1. ASSUME NEW j \in DOMAIN ms PROVE ms[j].area = Area(ms[j].map)
        <5>1. ms[j] = ls[first + j - 1] /\ first + j - 1 \in 1 .. n /\ first + j - 1 \in first .. Len(ls)
          BY <1>1, <1>2, <1>3, <1>4, <1>5
        <5>2. QED
          BY <1>1, <1>2, <5>1
      <4>2. QED
        BY <1>8, <4>1, MergedArea, OverlayType, AreaType
    <3>7. rwlevel_max_size_ * 2 ^ (b - 1) \in Nat
      <4>1. b - 1 \in Nat
        BY <3>4
      <4>2. 2 ^ (b - 1) \in Nat
        BY <4>1, Powers
      <4>3. QED
        BY <4>2, LevelsAssumption
    <3>8. Area(Overlay(ms)) < rwlevel_max_size_ * 2 ^ (b - 1)
      BY <3>5, <3>6, <3>7
    <3>9. FitIndex(Area(Overlay(ms))) < b /\ FitIndex(Area(Overlay(ms))) \in Nat
      BY <3>4, <3>6, <3>8, FitIndexBelow, FitIndexType
    <3>10. b <= c
      <4>1. CASE h = end + 1
        BY <3>2, <4>1
      <4>2. CASE h # end + 1
        <5>1. Less(ls[end + 1], ls[h])
          BY <1>6, <1>11, <3>1, <4>2
        <5>2. QED
          BY <3>2, <5>1 DEF Less
      <4>3. QED
        BY <4>1, <4>2
    <3>11. l.index < ls[h].index
      BY <2>3, <3>2, <3>9, <3>10
    <3>12. QED
      BY <2>1, <3>11 DEF Less
  <2>4. QED
    BY <1>9, <2>2, <2>3
<1>12. ASSUME NEW x \in ToSet(ls) \ ToSet(ms) PROVE Apart(x, ms)
  <2>1. PICK h \in 1 .. n : x = ls[h]
    BY <1>2 DEF ToSet
  <2>2. h < first \/ h > end
    <3>1. SUFFICES ASSUME h >= first, h <= end PROVE FALSE
      BY <1>1
    <3>2. h - first + 1 \in 1 .. end - first + 1 /\ first + (h - first + 1) - 1 = h
      BY <1>1, <3>1
    <3>3. ms[h - first + 1] = x
      BY <1>3, <2>1, <3>2
    <3>4. QED
      BY <1>4, <3>2, <3>3 DEF ToSet
  <2>3. QED
    BY <1>9, <1>10, <1>11, <2>1, <2>2 DEF Apart
<1>13. QED
  BY <1>3, <1>7, <1>12

-------------------------------------------------------------------------------
(***************************************************************************)
(* Levels in order, and the set of them.                                   *)
(***************************************************************************)
LEMMA InSet == ASSUME NEW ls PROVE \A l : l \in ToSet(ls) <=> \E i \in DOMAIN ls : l = ls[i]
  BY DEF ToSet

LEMMA OneEach ==
    ASSUME NEW ls \in Seq(LevelType), Ordered(ls)
    PROVE  \A i, j \in DOMAIN ls : ls[i] = ls[j] => i = j
<1>1. ASSUME NEW i \in DOMAIN ls, NEW j \in DOMAIN ls, ls[i] = ls[j] PROVE i = j
  <2>1. ls[i] \in LevelType /\ i \in Int /\ j \in Int
    BY Lists
  <2>2. ~Less(ls[i], ls[j]) /\ ~Less(ls[j], ls[i])
    BY <1>1, <2>1, LessOrder
  <2>3. ~(i < j) /\ ~(j < i)
    BY <2>2 DEF Ordered
  <2>4. QED
    BY <2>1, <2>3
<1>2. QED
  BY <1>1

\* A list in order is a list of its set.
Listing(ls) == [i \in DOMAIN ls |-> ls[i]]

LEMMA Listed ==
    ASSUME NEW ls \in Seq(LevelType), Ordered(ls)
    PROVE  /\ Listing(ls) \in Bijection(DOMAIN ls, ToSet(ls))
           /\ \A i \in DOMAIN ls : Listing(ls)[i] = ls[i]
           /\ IsFiniteSet(DOMAIN ls) /\ IsFiniteSet(ToSet(ls))
<1>1. \A i \in DOMAIN ls : Listing(ls)[i] = ls[i]
  BY DEF Listing
<1>2. Listing(ls) \in [DOMAIN ls -> ToSet(ls)]
  BY InSet DEF Listing
<1>3. Listing(ls) \in Bijection(DOMAIN ls, ToSet(ls))
  BY <1>1, <1>2, InSet, OneEach DEF Bijection, Injection, Surjection, IsInjective
<1>4. IsFiniteSet(DOMAIN ls)
  <2>1. PICK n \in Nat : n = Len(ls) /\ DOMAIN ls = 1 .. n
    BY Lists
  <2>2. QED
    BY <2>1, FS_Interval
<1>5. IsFiniteSet(ToSet(ls))
  BY <1>3, <1>4, FS_Surjection DEF Bijection
<1>6. QED
  BY <1>1, <1>3, <1>4, <1>5

Memory(l) == IF l.file THEN 0 ELSE l.area
MemoryOf(S) == [l \in S |-> Memory(l)]

LEMMA MemoryOfType ==
    ASSUME NEW S, S \subseteq LevelType
    PROVE  MemoryOf(S) \in [S -> Nat] /\ \A l \in S : MemoryOf(S)[l] = Memory(l) /\ Memory(l) \in Nat
  BY DEF MemoryOf, Memory, LevelType

LEMMA MemoryAreaOf ==
    ASSUME NEW ls \in Seq(LevelType), Ordered(ls)
    PROVE  MemoryArea(ls) = Total(MemoryOf(ToSet(ls))) /\ MemoryArea(ls) \in Nat
<1> DEFINE f == [i \in DOMAIN ls |-> IF ls[i].file THEN 0 ELSE ls[i].area]
<1>1. MemoryArea(ls) = Total(f)
  BY DEF MemoryArea
<1>2. \A i \in DOMAIN ls : f[i] = Memory(ls[i])
  BY DEF Memory
<1>3. f \in [DOMAIN ls -> Nat]
  <2>1. \A i \in DOMAIN ls : ls[i] \in LevelType
    BY Lists
  <2>2. QED
    BY <2>1 DEF LevelType
<1> HIDE DEF f
<1>4. /\ Listing(ls) \in [DOMAIN ls -> ToSet(ls)]
      /\ \A x, y \in DOMAIN ls : Listing(ls)[x] = Listing(ls)[y] => x = y
      /\ \A z \in ToSet(ls) : \E x \in DOMAIN ls : Listing(ls)[x] = z
  BY Listed DEF Bijection, Injection, Surjection, IsInjective
<1>5. /\ MemoryOf(ToSet(ls)) \in [ToSet(ls) -> Nat]
      /\ \A i \in DOMAIN ls : MemoryOf(ToSet(ls))[Listing(ls)[i]] = f[i]
  BY <1>2, <1>4, SetType, MemoryOfType, Listed
<1>6. Total(MemoryOf(ToSet(ls))) = Total(f)
  <2>1. IsFiniteSet(DOMAIN ls)
    BY Listed
  <2>2. Moved(DOMAIN ls, f, ToSet(ls), MemoryOf(ToSet(ls)), DOMAIN ls, Listing(ls))
    BY <1>3, <1>4, <1>5, <2>1 DEF Moved
  <2>3. QED
    BY <2>2, TotalMoved
<1>7. Total(f) \in Nat
  BY <1>3, Listed, TotalType
<1>8. QED
  BY <1>1, <1>6, <1>7

LEMMA Levels0Type == ASSUME NEW ls \in Seq(LevelType) PROVE Levels0(ls) \in Nat
<1> DEFINE I == {i \in DOMAIN ls : ls[i].index = 0}
<1>1. IsFiniteSet(I)
  <2>1. IsFiniteSet(1 .. Len(ls)) /\ DOMAIN ls = 1 .. Len(ls)
    BY Lists, FS_Interval
  <2>2. I \in SUBSET (1 .. Len(ls))
    BY <2>1
  <2> HIDE DEF I
  <2>3. QED
    BY <2>1, <2>2, FS_Subset
<1>2. Cardinality(I) \in Nat
  <2> HIDE DEF I
  <2>1. QED
    BY <1>1, FS_CardinalityType
<1>3. QED
  BY <1>2 DEF Levels0

Zeros(S) == {l \in S : l.index = 0}

LEMMA Levels0Of ==
    ASSUME NEW ls \in Seq(LevelType), Ordered(ls)
    PROVE  /\ Levels0(ls) = Cardinality(Zeros(ToSet(ls))) /\ Levels0(ls) \in Nat
           /\ IsFiniteSet(Zeros(ToSet(ls)))
<1> DEFINE I == {i \in DOMAIN ls : ls[i].index = 0}
           b == [i \in I |-> ls[i]]
<1>1. IsFiniteSet(DOMAIN ls) /\ IsFiniteSet(ToSet(ls)) /\ I \in SUBSET DOMAIN ls
  BY Listed
<1>2. IsFiniteSet(I)
  <2> HIDE DEF I
  <2>1. QED
    BY <1>1, FS_Subset
<1>3. b \in [I -> Zeros(ToSet(ls))] /\ \A i \in I : b[i] = ls[i] /\ i \in DOMAIN ls
  BY InSet DEF Zeros
<1>4. \A l \in Zeros(ToSet(ls)) : \E i \in I : b[i] = l
  BY InSet DEF Zeros
<1> HIDE DEF b
<1>5. \A i, j \in I : b[i] = b[j] => i = j
  BY <1>3, OneEach
<1>6. b \in Bijection(I, Zeros(ToSet(ls)))
  <2> HIDE DEF I
  <2>1. QED
    BY <1>3, <1>4, <1>5 DEF Bijection, Injection, Surjection, IsInjective
<1>7. Levels0(ls) = Cardinality(I)
  BY DEF Levels0
<1> HIDE DEF I
<1>8. ExistsBijection(I, Zeros(ToSet(ls)))
  BY <1>6 DEF ExistsBijection
<1>9. Cardinality(Zeros(ToSet(ls))) = Cardinality(I) /\ IsFiniteSet(Zeros(ToSet(ls)))
  BY <1>2, <1>8, FS_Bijection
<1>10. QED
  BY <1>2, <1>7, <1>9, FS_CardinalityType


\* A level that precedes all others.
LEMMA OnTopOrdered ==
    ASSUME NEW ls \in Seq(LevelType), Ordered(ls), NEW l \in LevelType,
           \A m \in ToSet(ls) : Less(l, m)
    PROVE  /\ Ordered(OnTop(l, ls)) /\ ToSet(OnTop(l, ls)) = ToSet(ls) \cup {l}
           /\ l \notin ToSet(ls)
           /\ MemoryArea(OnTop(l, ls)) = MemoryArea(ls) + Memory(l)
           /\ Levels0(OnTop(l, ls)) = Levels0(ls) + IF l.index = 0 THEN 1 ELSE 0
<1>1. PICK n \in Nat, new \in Seq(LevelType) :
        /\ new = OnTop(l, ls) /\ DOMAIN ls = 1 .. n /\ DOMAIN new = 1 .. n + 1 /\ new[1] = l
        /\ \A i \in 1 .. n : new[i + 1] = ls[i]
        /\ \A i \in 1 .. n + 1 : i = 1 \/ (i - 1 \in 1 .. n /\ new[i] = ls[i - 1])
  BY OnTopPlaces
<1>2. Ordered(new)
  <2>1. ASSUME NEW i \in 1 .. n + 1, NEW j \in 1 .. n + 1, i < j PROVE Less(new[i], new[j])
    <3>1. j - 1 \in 1 .. n /\ new[j] = ls[j - 1]
      BY <1>1, <2>1
    <3>2. CASE i = 1
      BY <1>1, <3>1, <3>2, InSet
    <3>3. CASE i # 1
      <4>1. i - 1 \in 1 .. n /\ new[i] = ls[i - 1] /\ i - 1 < j - 1
        BY <1>1, <2>1, <3>3
      <4>2. QED
        BY <1>1, <3>1, <4>1 DEF Ordered
    <3>4. QED
      BY <3>2, <3>3
  <2>2. QED
    BY <1>1, <2>1 DEF Ordered
<1>3. ToSet(new) = ToSet(ls) \cup {l}
  <2>1. \A x : x \in ToSet(ls) <=> \E i \in 1 .. n : x = ls[i]
    BY <1>1, InSet
  <2>2. \A x : x \in ToSet(new) <=> \E i \in 1 .. n + 1 : x = new[i]
    BY <1>1, InSet
  <2>3. 1 \in 1 .. n + 1 /\ \A i \in 1 .. n : i + 1 \in 1 .. n + 1
    OBVIOUS
  <2>4. QED
    BY <1>1, <2>1, <2>2, <2>3
<1>4. l \notin ToSet(ls)
  BY LessOrder
<1>5. MemoryArea(new) = MemoryArea(ls) + Memory(l)
  <2>1. PICK S, f, g : S = ToSet(new) /\ f = MemoryOf(S) /\ g = MemoryOf(ToSet(ls))
    OBVIOUS
  <2>2. IsFiniteSet(S) /\ f \in [S -> Nat] /\ l \in S /\ f[l] = Memory(l) /\ S \ {l} = ToSet(ls)
    BY <1>2, <1>3, <1>4, <2>1, SetType, MemoryOfType, Listed
  <2>3. [m \in S \ {l} |-> f[m]] = g
    BY <2>1, <2>2, SetType, MemoryOfType DEF MemoryOf
  <2>4. Total(f) = Total(g) + f[l]
    BY <2>2, <2>3, TotalSplit
  <2>5. QED
    BY <1>2, <2>1, <2>2, <2>4, MemoryAreaOf
<1>6. Levels0(new) = Levels0(ls) + IF l.index = 0 THEN 1 ELSE 0
  <2>1. /\ Levels0(new) = Cardinality(Zeros(ToSet(new)))
        /\ Levels0(ls) = Cardinality(Zeros(ToSet(ls))) /\ Levels0(ls) \in Nat
        /\ IsFiniteSet(Zeros(ToSet(ls)))
    BY <1>2, Levels0Of
  <2>2. Zeros(ToSet(new)) = IF l.index = 0 THEN Zeros(ToSet(ls)) \cup {l} ELSE Zeros(ToSet(ls))
    BY <1>3 DEF Zeros
  <2>3. l \notin Zeros(ToSet(ls))
    BY <1>4 DEF Zeros
  <2>4. QED
    <3>1. Cardinality(Zeros(ToSet(ls)) \cup {l}) = Cardinality(Zeros(ToSet(ls))) + 1
      BY <2>1, <2>3, FS_AddElement
    <3>2. QED
      BY <2>1, <2>2, <3>1
<1>7. QED
  BY <1>1, <1>2, <1>3, <1>4, <1>5, <1>6

\* How many of the first places are in a set.
LEMMA Prefix ==
    ASSUME NEW n \in Nat, NEW L \in SUBSET (1 .. n)
    PROVE  /\ Cardinality(L) \in 0 .. n
           /\ \A i \in 1 .. n : (1 .. i) \subseteq L => i <= Cardinality(L)
           /\ \A i \in 1 .. n : L \subseteq 1 .. (i - 1) => Cardinality(L) <= i - 1
<1>1. IsFiniteSet(1 .. n) /\ Cardinality(1 .. n) = n
  BY FS_Interval
<1>2. IsFiniteSet(L) /\ Cardinality(L) <= n /\ Cardinality(L) \in Nat
  BY <1>1, FS_Subset, FS_CardinalityType
<1>3. ASSUME NEW i \in 1 .. n, (1 .. i) \subseteq L PROVE i <= Cardinality(L)
  <2>1. Cardinality(1 .. i) = i
    BY FS_Interval
  <2>2. QED
    BY <1>2, <1>3, <2>1, FS_Subset
<1>4. ASSUME NEW i \in 1 .. n, L \subseteq 1 .. (i - 1) PROVE Cardinality(L) <= i - 1
  <2>1. IsFiniteSet(1 .. (i - 1)) /\ Cardinality(1 .. (i - 1)) = i - 1
    BY FS_Interval
  <2>2. L \in SUBSET (1 .. (i - 1))
    BY <1>4
  <2>3. Cardinality(L) <= Cardinality(1 .. (i - 1))
    BY <2>1, <2>2, FS_Subset
  <2>4. QED
    BY <2>1, <2>3
<1>5. QED
  BY <1>2, <1>3, <1>4

LEMMA Inserted ==
    ASSUME NEW ls \in Seq(LevelType), NEW l \in LevelType
    PROVE  LET c == Cardinality({i \in DOMAIN ls : Less(ls[i], l)})
           IN  /\ c \in 0 .. Len(ls)
               /\ InsertLevel(ls, l) \in Seq(LevelType)
               /\ Len(InsertLevel(ls, l)) = Len(ls) + 1
               /\ \A i \in 1 .. Len(ls) + 1 :
                     InsertLevel(ls, l)[i] =
                         IF i <= c THEN ls[i] ELSE IF i = c + 1 THEN l ELSE ls[i - 1]
<1> DEFINE L == {i \in DOMAIN ls : Less(ls[i], l)}
<1>1. PICK n \in Nat : n = Len(ls) /\ DOMAIN ls = 1 .. n
  BY Lists
<1>2. L \in SUBSET (1 .. n)
  BY <1>1
<1>3. PICK c \in 0 .. n : c = Cardinality(L)
  <2> HIDE DEF L
  <2>1. QED
    BY <1>2, Prefix
<1>4. InsertLevel(ls, l) = SubSeq(ls, 1, c) \o <<l>> \o SubSeq(ls, c + 1, n)
  <2>1. (1 + c) - 1 = c /\ 1 + c = c + 1
    OBVIOUS
  <2>2. QED
    BY <1>1, <1>3, <2>1 DEF InsertLevel, InsertAt
<1>5. /\ SubSeq(ls, 1, c) \in Seq(LevelType) /\ Len(SubSeq(ls, 1, c)) = c
      /\ \A i \in 1 .. c : SubSeq(ls, 1, c)[i] = ls[i]
  <2>1. \A i \in 1 .. c : ls[i] \in LevelType
    BY <1>1, Lists
  <2>2. QED
    BY <2>1, SubSeqProperties
<1>6. /\ SubSeq(ls, c + 1, n) \in Seq(LevelType) /\ Len(SubSeq(ls, c + 1, n)) = n - c
      /\ \A i \in 1 .. n - c : SubSeq(ls, c + 1, n)[i] = ls[c + i]
  <2>1. \A i \in (c + 1) .. n : ls[i] \in LevelType
    BY <1>1, Lists
  <2>2. c + 1 \in Int /\ n - (c + 1) + 1 = n - c /\ (IF c + 1 <= n THEN n - c ELSE 0) = n - c
    OBVIOUS
  <2>3. \A i \in 1 .. n - c : (c + 1) + i - 1 = c + i
    OBVIOUS
  <2>4. QED
    BY <2>1, <2>2, <2>3, SubSeqProperties
<1>7. PICK s \in Seq(LevelType), t \in Seq(LevelType) :
        /\ s = SubSeq(ls, 1, c) /\ t = SubSeq(ls, c + 1, n)
        /\ Len(s) = c /\ Len(t) = n - c
  BY <1>5, <1>6
<1>8. /\ s \o <<l>> \in Seq(LevelType) /\ Len(s \o <<l>>) = c + 1
      /\ \A i \in 1 .. c + 1 : (s \o <<l>>)[i] = IF i <= c THEN s[i] ELSE l
  BY <1>7
<1>9. PICK u \in Seq(LevelType) :
        u = s \o <<l>> /\ Len(u) = c + 1 /\ \A i \in 1 .. c + 1 : u[i] = IF i <= c THEN s[i] ELSE l
  BY <1>8
<1>10. PICK r \in Seq(LevelType) :
         /\ r = InsertLevel(ls, l) /\ Len(r) = n + 1
         /\ \A i \in 1 .. n + 1 : r[i] = IF i <= c + 1 THEN u[i] ELSE t[i - (c + 1)]
  <2>1. InsertLevel(ls, l) = u \o t
    BY <1>4, <1>7, <1>9
  <2>2. /\ u \o t \in Seq(LevelType) /\ Len(u \o t) = (c + 1) + (n - c)
        /\ \A i \in 1 .. (c + 1) + (n - c) : (u \o t)[i] = IF i <= c + 1 THEN u[i] ELSE t[i - (c + 1)]
    <3>1. Len(u) = c + 1 /\ Len(t) = n - c
      BY <1>7, <1>9
    <3>2. PICK w : w = u \o t
      OBVIOUS
    <3>3. /\ w \in Seq(LevelType) /\ Len(w) = Len(u) + Len(t)
          /\ \A i \in 1 .. Len(u) + Len(t) : w[i] = IF i <= Len(u) THEN u[i] ELSE t[i - Len(u)]
      BY <3>2, ConcatProperties
    <3>4. QED
      BY <3>1, <3>2, <3>3
  <2>3. (c + 1) + (n - c) = n + 1
    OBVIOUS
  <2>4. QED
    BY <2>1, <2>2, <2>3
<1>11. ASSUME NEW i \in 1 .. n + 1
       PROVE  r[i] = IF i <= c THEN ls[i] ELSE IF i = c + 1 THEN l ELSE ls[i - 1]
  <2>1. r[i] = IF i <= c + 1 THEN u[i] ELSE t[i - (c + 1)]
    BY <1>10
  <2>2. CASE i <= c
    <3>1. i \in 1 .. c /\ i \in 1 .. c + 1 /\ i <= c + 1
      BY <2>2
    <3>2. s[i] = ls[i] /\ u[i] = s[i]
      BY <1>5, <1>7, <1>9, <2>2, <3>1
    <3>3. QED
      BY <2>1, <2>2, <3>1, <3>2
  <2>3. CASE i = c + 1
    <3>1. i \in 1 .. c + 1 /\ i <= c + 1 /\ ~(i <= c)
      BY <2>3
    <3>2. u[i] = l
      BY <1>9, <3>1
    <3>3. QED
      BY <2>1, <2>3, <3>1, <3>2
  <2>4. CASE i > c + 1
    <3>1. i - (c + 1) \in 1 .. n - c /\ c + (i - (c + 1)) = i - 1
      BY <2>4
    <3>2. QED
      BY <1>6, <1>7, <2>1, <2>4, <3>1
  <2>5. QED
    BY <2>2, <2>3, <2>4
<1>12. QED
  <2> HIDE DEF L
  <2>1. Cardinality({i \in DOMAIN ls : Less(ls[i], l)}) = c
    BY <1>3 DEF L
  <2>2. QED
    BY <1>1, <1>10, <1>11, <2>1

\* A level takes its place among others.
LEMMA InsertedOrdered ==
    ASSUME NEW ls \in Seq(LevelType), Ordered(ls), NEW l \in LevelType,
           \A m \in ToSet(ls) : Less(m, l) \/ Less(l, m)
    PROVE  /\ InsertLevel(ls, l) \in Seq(LevelType) /\ Ordered(InsertLevel(ls, l))
           /\ ToSet(InsertLevel(ls, l)) = ToSet(ls) \cup {l}
<1> DEFINE L == {i \in DOMAIN ls : Less(ls[i], l)}
<1>1. PICK n \in Nat : n = Len(ls) /\ DOMAIN ls = 1 .. n /\ \A i \in 1 .. n : ls[i] \in LevelType
  BY Lists
<1>2. L \in SUBSET (1 .. n) /\ \A i \in 1 .. n : i \in L <=> Less(ls[i], l)
  BY <1>1
<1>3. PICK c \in 0 .. n, r \in Seq(LevelType) :
        /\ c = Cardinality(L) /\ r = InsertLevel(ls, l) /\ Len(r) = n + 1
        /\ \A i \in 1 .. n + 1 : r[i] = IF i <= c THEN ls[i] ELSE IF i = c + 1 THEN l ELSE ls[i - 1]
  <2>1. /\ Cardinality(L) \in 0 .. n
        /\ InsertLevel(ls, l) \in Seq(LevelType)
        /\ Len(InsertLevel(ls, l)) = n + 1
        /\ \A i \in 1 .. n + 1 : InsertLevel(ls, l)[i] =
              IF i <= Cardinality(L) THEN ls[i] ELSE IF i = Cardinality(L) + 1 THEN l ELSE ls[i - 1]
    BY <1>1, Inserted
  <2> HIDE DEF L
  <2>2. QED
    BY <2>1
<1> HIDE DEF L
<1>4. DOMAIN r = 1 .. n + 1
  BY <1>3, Lists
<1>5. \A i, j \in 1 .. n : i < j => Less(ls[i], ls[j])
  BY <1>1 DEF Ordered
<1>6. \A i, j \in 1 .. n : i < j /\ j \in L => i \in L
  BY <1>1, <1>2, <1>5, LessOrder
<1>7. ASSUME NEW i \in 1 .. n PROVE i <= c <=> Less(ls[i], l)
  <2>1. CASE i \in L
    <3>1. ASSUME NEW j \in 1 .. i PROVE j \in L
      BY <1>6, <2>1
    <3>2. 1 .. i \subseteq L
      BY <3>1
    <3>3. i <= c
      BY <1>2, <1>3, <3>2, Prefix
    <3>4. QED
      BY <1>2, <2>1, <3>3
  <2>2. CASE i \notin L
    <3>1. ASSUME NEW j \in L PROVE j \in 1 .. (i - 1)
      <4>1. j \in 1 .. n
        BY <1>2
      <4>2. ~(i < j) /\ i # j
        BY <1>6, <2>2, <3>1, <4>1
      <4>3. QED
        BY <4>1, <4>2
    <3>2. L \subseteq 1 .. (i - 1)
      BY <3>1
    <3>3. c <= i - 1
      BY <1>2, <1>3, <3>2, Prefix
    <3>4. QED
      BY <1>2, <1>3, <2>2, <3>3
  <2>3. QED
    BY <2>1, <2>2
<1>8. \A i \in 1 .. n : IF i <= c THEN Less(ls[i], l) ELSE Less(l, ls[i])
  BY <1>1, <1>7, InSet
<1>9. ASSUME NEW i \in 1 .. n + 1, NEW j \in 1 .. n + 1, i < j PROVE Less(r[i], r[j])
  <2>1. CASE j <= c
    <3>1. i \in 1 .. n /\ j \in 1 .. n /\ i <= c
      BY <1>3, <1>9, <2>1
    <3>2. r[i] = ls[i] /\ r[j] = ls[j]
      BY <1>3, <2>1, <3>1
    <3>3. QED
      BY <1>5, <1>9, <3>1, <3>2
  <2>2. CASE j = c + 1
    <3>1. i <= c /\ i \in 1 .. n
      BY <1>3, <1>9, <2>2
    <3>2. r[i] = ls[i] /\ r[j] = l
      BY <1>3, <2>2, <3>1
    <3>3. QED
      BY <1>8, <3>1, <3>2
  <2>3. CASE j > c + 1
    <3>1. j - 1 \in 1 .. n /\ j - 1 > c /\ r[j] = ls[j - 1]
      BY <1>3, <2>3
    <3>2. CASE i <= c
      <4>1. i \in 1 .. n /\ i < j - 1 /\ r[i] = ls[i]
        BY <1>3, <3>1, <3>2
      <4>2. QED
        BY <1>5, <3>1, <4>1
    <3>3. CASE i = c + 1
      <4>1. r[i] = l /\ ~(j - 1 <= c)
        BY <1>3, <3>1, <3>3
      <4>2. QED
        BY <1>8, <3>1, <4>1
    <3>4. CASE i > c + 1
      <4>1. i - 1 \in 1 .. n /\ i - 1 < j - 1 /\ r[i] = ls[i - 1]
        BY <1>3, <1>9, <3>4
      <4>2. QED
        BY <1>5, <3>1, <4>1
    <3>5. QED
      BY <1>3, <3>2, <3>3, <3>4
  <2>4. QED
    BY <1>3, <2>1, <2>2, <2>3
<1>10. Ordered(r)
  BY <1>4, <1>9 DEF Ordered
<1>11. ToSet(r) = ToSet(ls) \cup {l}
  <2>1. \A x : x \in ToSet(ls) <=> \E i \in 1 .. n : x = ls[i]
    BY <1>1, InSet
  <2>2. \A x : x \in ToSet(r) <=> \E i \in 1 .. n + 1 : x = r[i]
    BY <1>4, InSet
  <2>3. ASSUME NEW i \in 1 .. n PROVE \E j \in 1 .. n + 1 : ls[i] = r[j]
    <3>1. CASE i <= c
      BY <1>3, <3>1
    <3>2. CASE i > c
      <4>1. i + 1 \in 1 .. n + 1 /\ ~(i + 1 <= c) /\ i + 1 # c + 1 /\ (i + 1) - 1 = i
        BY <1>3, <3>2
      <4>2. QED
        BY <1>3, <4>1
    <3>3. QED
      BY <1>3, <3>1, <3>2
  <2>4. ASSUME NEW j \in 1 .. n + 1 PROVE r[j] = l \/ \E i \in 1 .. n : r[j] = ls[i]
    <3>1. CASE j <= c
      BY <1>3, <3>1
    <3>2. CASE j > c + 1
      <4>1. j - 1 \in 1 .. n /\ r[j] = ls[j - 1]
        BY <1>3, <3>2
      <4>2. QED
        BY <4>1
    <3>3. QED
      BY <1>3, <3>1, <3>2
  <2>5. c + 1 \in 1 .. n + 1 /\ r[c + 1] = l
    BY <1>3
  <2>6. ASSUME NEW x \in ToSet(r) PROVE x \in ToSet(ls) \cup {l}
    BY <2>1, <2>2, <2>4
  <2>7. ASSUME NEW x \in ToSet(ls) \cup {l} PROVE x \in ToSet(r)
    BY <2>1, <2>2, <2>3, <2>5
  <2>8. QED
    BY <2>6, <2>7
<1>12. QED
  BY <1>3, <1>10, <1>11

\* The list of some places has each of them, in order.
LEMMA Selected ==
    ASSUME NEW ls \in Seq(LevelType), NEW places \in SUBSET DOMAIN ls, NEW p \in Ascending(places)
    PROVE  /\ Select(ls, p) \in Seq(LevelType)
           /\ DOMAIN Select(ls, p) = DOMAIN p
           /\ \A i \in DOMAIN p : p[i] \in places /\ Select(ls, p)[i] = ls[p[i]]
           /\ \A i, j \in DOMAIN p : i < j => p[i] < p[j]
           /\ \A k \in places : \E i \in DOMAIN p : p[i] = k
<1>1. IsFiniteSet(places)
  <2>1. IsFiniteSet(1 .. Len(ls))
    BY Lists, FS_Interval
  <2>2. QED
    BY <2>1, Lists, FS_Subset
<1>2. PICK n \in Nat : n = Cardinality(places)
  BY <1>1, FS_CardinalityType
<1>3. /\ p \in [1 .. n -> places] /\ DOMAIN p = 1 .. n
      /\ \A i, j \in 1 .. n : i < j => p[i] < p[j]
  BY <1>2 DEF Ascending
<1>4. p \in Injection(1 .. n, places)
  <2>1. ASSUME NEW i \in 1 .. n, NEW j \in 1 .. n, p[i] = p[j] PROVE i = j
    <3>1. p[i] \in Int /\ p[j] \in Int
      BY <1>3, Lists
    <3>2. ~(i < j) /\ ~(j < i)
      BY <1>3, <2>1, <3>1
    <3>3. QED
      BY <3>2
  <2>2. QED
    BY <1>3, <2>1 DEF Injection, IsInjective
<1>5. p \in Surjection(1 .. n, places)
  <2>1. Cardinality(1 .. n) = n
    BY FS_Interval
  <2>2. QED
    BY <1>1, <1>2, <1>4, <2>1, FS_Injection
<1>6. \A k \in places : \E i \in 1 .. n : p[i] = k
  BY <1>5 DEF Surjection
<1>7. \A i \in 1 .. n : ls[p[i]] \in LevelType
  BY <1>3, Lists
<1>8. Select(ls, p) \in Seq(LevelType)
  <2>1. Select(ls, p) = [i \in 1 .. n |-> ls[p[i]]]
    BY <1>3 DEF Select
  <2>2. [i \in 1 .. n |-> ls[p[i]]] \in [1 .. n -> LevelType]
    BY <1>7
  <2>3. QED
    BY <2>1, <2>2, SeqDef
<1>9. QED
  BY <1>3, <1>6, <1>8 DEF Select

\* A merge leaves what it did not take, and what it made, in order.
LEMMA MergePlaces ==
    ASSUME NEW ls \in Seq(LevelType), Ordered(ls), NEW ms \in Seq(LevelType), ms # <<>>,
           ToSet(ms) \subseteq ToSet(ls), \A m \in ToSet(ls) \ ToSet(ms) : Apart(m, ms),
           NEW p \in Ascending(Unmerged(ls, ms)), NEW new, NEW l \in LevelType,
           l.index = MergedLevel(ms).index, l.sub_index = MergedLevel(ms).sub_index,
           new = InsertLevel(Select(ls, p), l)
    PROVE  /\ new \in Seq(LevelType) /\ Ordered(new)
           /\ ToSet(new) = (ToSet(ls) \ ToSet(ms)) \cup {l}
<1>1. Unmerged(ls, ms) \in SUBSET DOMAIN ls
  BY DEF Unmerged
<1>2. PICK kept :
        /\ kept = Select(ls, p) /\ kept \in Seq(LevelType) /\ DOMAIN kept = DOMAIN p
        /\ \A i \in DOMAIN p : p[i] \in Unmerged(ls, ms) /\ kept[i] = ls[p[i]]
        /\ \A i, j \in DOMAIN p : i < j => p[i] < p[j]
        /\ \A k \in Unmerged(ls, ms) : \E i \in DOMAIN p : p[i] = k
  BY <1>1, Selected
<1>3. Ordered(kept)
  BY <1>1, <1>2 DEF Ordered
<1>4. \A i \in DOMAIN ls : ls[i] \in LevelType
  BY Lists
<1>5. \A j \in DOMAIN ms : ms[j] \in LevelType /\ ms[j] \in ToSet(ls)
  BY Lists, InSet
<1>6. ASSUME NEW i \in DOMAIN ls PROVE i \in Unmerged(ls, ms) <=> ls[i] \notin ToSet(ms)
  <2>1. CASE ls[i] \in ToSet(ms)
    <3>1. PICK j \in DOMAIN ms : ls[i] = ms[j]
      BY <2>1, InSet
    <3>2. SameCell(ls[i], ms[j])
      BY <1>4, <3>1, LessOrder DEF SameCell
    <3>3. QED
      BY <2>1, <3>2 DEF Unmerged
  <2>2. CASE ls[i] \notin ToSet(ms)
    <3>1. ls[i] \in ToSet(ls)
      BY InSet
    <3>2. Apart(ls[i], ms)
      BY <2>2, <3>1
    <3>3. \A j \in DOMAIN ms : ~SameCell(ls[i], ms[j])
      BY <3>2 DEF Apart, SameCell
    <3>4. QED
      BY <2>2, <3>3 DEF Unmerged
  <2>3. QED
    BY <2>1, <2>2
<1>7. ToSet(kept) = ToSet(ls) \ ToSet(ms)
  <2>1. \A x : x \in ToSet(kept) <=> \E i \in DOMAIN p : x = ls[p[i]]
    BY <1>2, InSet
  <2>2. \A x : x \in ToSet(ls) <=> \E i \in DOMAIN ls : x = ls[i]
    BY InSet
  <2>3. QED
    BY <1>1, <1>2, <1>6, <2>1, <2>2
<1>8. \A m \in ToSet(kept) : Less(m, l) \/ Less(l, m)
  <2>1. ASSUME NEW m \in ToSet(kept) PROVE Less(m, MergedLevel(ms)) \/ Less(MergedLevel(ms), m)
    BY <1>7 DEF Apart
  <2>2. QED
    BY <2>1 DEF Less
<1>9. QED
  BY <1>2, <1>3, <1>7, <1>8, InsertedOrdered

\* What is in memory stays, and so the area of it; levels 0 are taken.
LEMMA MergeCounts ==
    ASSUME NEW ls \in Seq(LevelType), Ordered(ls), NEW ms \in Seq(LevelType), Ordered(ms),
           ToSet(ms) \subseteq ToSet(ls), \A j \in DOMAIN ms : ms[j].file,
           NEW new \in Seq(LevelType), Ordered(new), NEW n \in LevelType, n.file,
           ToSet(new) = (ToSet(ls) \ ToSet(ms)) \cup {n}, n \notin ToSet(ls) \ ToSet(ms)
    PROVE  /\ MemoryArea(new) = MemoryArea(ls)
           /\ Levels0(new) = Levels0(ls) - Levels0(ms) + IF n.index = 0 THEN 1 ELSE 0
<1>1. \A l \in ToSet(ms) : l.file
  BY InSet
<1>2. MemoryArea(new) = MemoryArea(ls)
  <2> DEFINE A == {l \in ToSet(ls) : ~l.file}
             b == [l \in A |-> l]
  <2>1. PICK S, f, T, g : S = ToSet(ls) /\ f = MemoryOf(S) /\ T = ToSet(new) /\ g = MemoryOf(T)
    OBVIOUS
  <2>2. /\ IsFiniteSet(S) /\ f \in [S -> Nat] /\ g \in [T -> Nat]
        /\ \A l \in S : f[l] = Memory(l)
        /\ \A l \in T : g[l] = Memory(l)
    BY <2>1, SetType, MemoryOfType, Listed
  <2>3. A \in SUBSET S /\ b \in [A -> T] /\ \A l \in A : b[l] = l /\ l \in T
    BY <1>1, <2>1
  <2>4. \A l \in S \ A : f[l] = 0
    BY <2>1, <2>2 DEF Memory
  <2>5. \A l \in T : g[l] # 0 => l \in A
    BY <2>1, <2>2 DEF Memory
  <2> HIDE DEF A, b
  <2>6. /\ \A l \in A : g[b[l]] = f[l]
        /\ \A x, y \in A : b[x] = b[y] => x = y
        /\ \A z \in T : g[z] # 0 => \E x \in A : b[x] = z
    BY <2>2, <2>3, <2>5
  <2>7. Total(g) = Total(f)
    <3>1. Moved(S, f, T, g, A, b)
      BY <2>2, <2>3, <2>4, <2>6 DEF Moved
    <3>2. QED
      BY <3>1, TotalMoved
  <2>8. QED
    BY <2>1, <2>7, MemoryAreaOf
<1>3. Levels0(new) = Levels0(ls) - Levels0(ms) + IF n.index = 0 THEN 1 ELSE 0
  <2>1. PICK Z, T, N : Z = Zeros(ToSet(ls)) /\ T = Zeros(ToSet(ms)) /\ N = Zeros(ToSet(new))
    OBVIOUS
  <2>2. /\ Levels0(ls) = Cardinality(Z) /\ Levels0(ms) = Cardinality(T) /\ Levels0(new) = Cardinality(N)
        /\ IsFiniteSet(Z) /\ IsFiniteSet(T) /\ Cardinality(Z) \in Nat /\ Cardinality(T) \in Nat
    BY <2>1, Levels0Of
  <2>3. Z \cap T = T
    BY <2>1 DEF Zeros
  <2>4. IsFiniteSet(Z \ T) /\ Cardinality(Z \ T) = Cardinality(Z) - Cardinality(T)
    <3>1. IsFiniteSet(Z \ T) /\ Cardinality(Z \ T) = Cardinality(Z) - Cardinality(Z \cap T)
      BY <2>2, FS_Difference
    <3>2. QED
      BY <2>3, <3>1
  <2>5. N = IF n.index = 0 THEN (Z \ T) \cup {n} ELSE Z \ T
    BY <2>1 DEF Zeros
  <2>6. n \notin Z \ T
    BY <2>1 DEF Zeros
  <2>7. QED
    <3>1. Cardinality((Z \ T) \cup {n}) = Cardinality(Z \ T) + 1
      BY <2>4, <2>6, FS_AddElement
    <3>2. QED
      BY <2>2, <2>4, <2>5, <3>1
<1>4. QED
  BY <1>2, <1>3

-------------------------------------------------------------------------------
(***************************************************************************)
(* Steps of a map.                                                         *)
(***************************************************************************)
LEMMA AscendingAll ==
    ASSUME NEW ls \in Seq(LevelType), NEW p \in Ascending(DOMAIN ls) PROVE Select(ls, p) = ls
<1>1. PICK n \in Nat : n = Len(ls) /\ DOMAIN ls = 1 .. n
  BY Lists
<1>2. Cardinality(1 .. n) = n
  BY FS_Interval
<1>3. p \in [1 .. n -> 1 .. n] /\ \A i, j \in 1 .. n : i < j => p[i] < p[j]
  BY <1>1, <1>2 DEF Ascending
<1>4. ASSUME NEW i \in 1 .. n PROVE p[i] = i
  <2>1. p[i] \in 1 .. n
    BY <1>3
  <2>2. ASSUME NEW S \in SUBSET (1 .. n), NEW T, \A j \in S : p[j] \in T
        PROVE  [j \in S |-> p[j]] \in Injection(S, T)
    <3>1. ASSUME NEW j \in S, NEW k \in S, p[j] = p[k] PROVE j = k
      <4>1. j \in 1 .. n /\ k \in 1 .. n /\ p[j] \in Int /\ p[k] \in Int
        BY <1>3
      <4>2. ~(j < k) /\ ~(k < j)
        BY <1>3, <3>1, <4>1
      <4>3. QED
        BY <4>1, <4>2
    <3>2. QED
      BY <2>2, <3>1 DEF Injection, IsInjective
  <2>3. i <= p[i]
    <3>1. ASSUME NEW j \in 1 .. i PROVE p[j] \in 1 .. p[i]
      <4>1. j \in 1 .. n /\ p[j] \in 1 .. n /\ (j = i \/ p[j] < p[i])
        BY <1>3
      <4>2. QED
        BY <2>1, <4>1
    <3>2. [j \in 1 .. i |-> p[j]] \in Injection(1 .. i, 1 .. p[i])
      BY <2>2, <3>1
    <3>3. /\ IsFiniteSet(1 .. p[i]) /\ Cardinality(1 .. p[i]) = p[i] /\ Cardinality(1 .. i) = i
      BY <2>1, FS_Interval
    <3>4. Cardinality(1 .. i) <= Cardinality(1 .. p[i])
      BY <3>2, <3>3, FS_Injection
    <3>5. QED
      BY <3>3, <3>4
  <2>4. p[i] <= i
    <3>1. ASSUME NEW j \in i .. n PROVE p[j] \in p[i] .. n
      <4>1. j \in 1 .. n /\ p[j] \in 1 .. n /\ (j = i \/ p[i] < p[j])
        BY <1>3
      <4>2. QED
        BY <2>1, <4>1
    <3>2. [j \in i .. n |-> p[j]] \in Injection(i .. n, p[i] .. n)
      BY <2>2, <3>1
    <3>3. /\ IsFiniteSet(p[i] .. n) /\ Cardinality(p[i] .. n) = n - p[i] + 1
          /\ Cardinality(i .. n) = n - i + 1
      BY <2>1, FS_Interval
    <3>4. Cardinality(i .. n) <= Cardinality(p[i] .. n)
      BY <3>2, <3>3, FS_Injection
    <3>5. QED
      BY <2>1, <3>3, <3>4
  <2>5. QED
    BY <2>1, <2>3, <2>4
<1>5. Select(ls, p) = [i \in 1 .. n |-> ls[i]]
  BY <1>3, <1>4 DEF Select
<1>6. ls = [i \in 1 .. n |-> ls[i]]
  BY <1>1
<1>7. QED
  BY <1>5, <1>6

\* What precedes the first merged level precedes what is made of it.
LEMMA LessMerged ==
    ASSUME NEW l \in LevelType, NEW ms \in Seq(LevelType), ms # <<>>, Less(l, Head(ms))
    PROVE  Less(l, MergedLevel(ms))
<1>1. PICK n \in LevelType, h \in LevelType : n = MergedLevel(ms) /\ h = Head(ms)
  BY MergedLevelType
<1>2. (n.index = h.index /\ n.sub_index = h.sub_index) \/ n.index > h.index
  BY <1>1, MergedLevelType
<1>3. PICK a \in Nat, b \in Nat, c \in Nat : a = l.index /\ b = h.index /\ c = n.index
  BY Cells
<1>4. a < b \/ (a = b /\ l.sub_index > h.sub_index)
  BY <1>1, <1>3 DEF Less
<1>5. CASE n.index = h.index /\ n.sub_index = h.sub_index
  BY <1>1, <1>3, <1>4, <1>5 DEF Less
<1>6. CASE n.index > h.index
  <2>1. a < c
    BY <1>3, <1>4, <1>6
  <2>2. QED
    BY <1>1, <1>3, <2>1 DEF Less
<1>7. QED
  BY <1>2, <1>5, <1>6

LEMMA ApartCell ==
    ASSUME NEW l, NEW m, NEW ms, l.index = m.index, l.sub_index = m.sub_index, Apart(l, ms)
    PROVE  Apart(m, ms)
  BY DEF Apart, Less

\* A file takes the place of a level in memory.
LEMMA Refiled ==
    ASSUME NEW ls \in Seq(LevelType), Ordered(ls), NEW i \in DOMAIN ls, ~ls[i].file,
           NEW l \in LevelType, l.file, l.map = ls[i].map,
           l.index = ls[i].index, l.sub_index = ls[i].sub_index,
           NEW new \in Seq(LevelType), DOMAIN new = DOMAIN ls, new[i] = l,
           \A j \in DOMAIN ls \ {i} : new[j] = ls[j]
    PROVE  /\ Ordered(new) /\ Overlay(new) = Overlay(ls)
           /\ MemoryArea(new) = MemoryArea(ls) - ls[i].area
           /\ Levels0(new) = Levels0(ls)
           /\ \A m : m \in ToSet(new) <=> m = l \/ (m \in ToSet(ls) /\ m # ls[i])
<1>1. \A j \in DOMAIN ls : /\ new[j].index = ls[j].index /\ new[j].sub_index = ls[j].sub_index
                           /\ new[j].map = ls[j].map
  OBVIOUS
<1>2. Ordered(new)
  BY <1>1 DEF Ordered, Less
<1>3. Overlay(new) = Overlay(ls)
  <2>1. ASSUME NEW k \in Keys PROVE Overlay(new)[k] = Overlay(ls)[k]
    <3>1. CASE Overlay(ls)[k] = NOT_FOUND /\ \A j \in DOMAIN ls : ls[j].map[k] = NOT_FOUND
      BY <1>1, <3>1, OverlayAt
    <3>2. CASE ~(Overlay(ls)[k] = NOT_FOUND /\ \A j \in DOMAIN ls : ls[j].map[k] = NOT_FOUND)
      <4>1. PICK h \in DOMAIN ls :
              /\ Overlay(ls)[k] = ls[h].map[k] /\ ls[h].map[k] # NOT_FOUND
              /\ \A j \in DOMAIN ls : j < h => ls[j].map[k] = NOT_FOUND
        BY <3>2, OverlayAt
      <4>2. ~(\A j \in DOMAIN new : new[j].map[k] = NOT_FOUND)
        BY <1>1, <4>1
      <4>3. PICK g \in DOMAIN new :
              /\ Overlay(new)[k] = new[g].map[k] /\ new[g].map[k] # NOT_FOUND
              /\ \A j \in DOMAIN new : j < g => new[j].map[k] = NOT_FOUND
        BY <4>2, OverlayAt
      <4>4. g \in Int /\ h \in Int /\ ~(g < h) /\ ~(h < g)
        BY <1>1, <4>1, <4>3, Lists
      <4>5. g = h
        BY <4>4
      <4>6. QED
        BY <1>1, <4>1, <4>3, <4>5
    <3>3. QED
      BY <3>1, <3>2
  <2>2. Overlay(new) \in Maps /\ Overlay(ls) \in Maps
    BY OverlayType
  <2>3. QED
    BY <2>1, <2>2 DEF Maps
<1>4. MemoryArea(new) = MemoryArea(ls) - ls[i].area
  <2> DEFINE f == [j \in DOMAIN ls |-> IF ls[j].file THEN 0 ELSE ls[j].area]
             g == [j \in DOMAIN new |-> IF new[j].file THEN 0 ELSE new[j].area]
  <2>1. MemoryArea(ls) = Total(f) /\ MemoryArea(new) = Total(g)
    BY DEF MemoryArea
  <2>2. \A j \in DOMAIN ls : ls[j] \in LevelType /\ new[j] \in LevelType
    BY Lists
  <2>3. f \in [DOMAIN ls -> Nat] /\ g \in [DOMAIN ls -> Nat]
    BY <2>2 DEF LevelType
  <2>4. f[i] = ls[i].area /\ g[i] = 0 /\ \A j \in DOMAIN ls \ {i} : g[j] = f[j]
    OBVIOUS
  <2>5. IsFiniteSet(DOMAIN ls)
    BY Listed
  <2>6. f[i] \in Nat
    BY <2>3
  <2> HIDE DEF f, g
  <2>7. Total(g) = Total(f) - f[i] + g[i]
    <3>1. PICK S : S = DOMAIN ls
      OBVIOUS
    <3>2. IsFiniteSet(S) /\ f \in [S -> Nat] /\ g \in [S -> Nat] /\ i \in S
      BY <2>3, <2>5, <3>1
    <3>3. \A j \in S \ {i} : g[j] = f[j]
      BY <2>4, <3>1
    <3>4. QED
      BY <3>2, <3>3, TotalChanged, SMTT(30)
  <2>8. Total(f) \in Nat
    BY <2>3, <2>5, TotalType
  <2>9. QED
    BY <2>1, <2>4, <2>6, <2>7, <2>8
<1>5. Levels0(new) = Levels0(ls)
  <2>1. {j \in DOMAIN new : new[j].index = 0} = {j \in DOMAIN ls : ls[j].index = 0}
    BY <1>1
  <2>2. QED
    BY <2>1 DEF Levels0
<1>6. ASSUME NEW m PROVE m \in ToSet(new) <=> m = l \/ (m \in ToSet(ls) /\ m # ls[i])
  <2>1. \A j \in DOMAIN ls : ls[j] = ls[i] => j = i
    BY OneEach
  <2>2. \A x : x \in ToSet(ls) <=> \E j \in DOMAIN ls : x = ls[j]
    BY InSet
  <2>3. \A x : x \in ToSet(new) <=> \E j \in DOMAIN ls : x = new[j]
    BY InSet
  <2>4. QED
    BY <2>1, <2>2, <2>3
<1>7. QED
  BY <1>2, <1>3, <1>4, <1>5, <1>6

\* No area in memory: every level that has one is a file.
LEMMA NothingInMemory ==
    ASSUME NEW ls \in Seq(LevelType), Ordered(ls), MemoryArea(ls) = 0, NEW i \in DOMAIN ls,
           ls[i].area > 0
    PROVE  ls[i].file
<1>1. PICK S, f : S = ToSet(ls) /\ f = MemoryOf(S)
  OBVIOUS
<1>2. IsFiniteSet(S) /\ f \in [S -> Nat] /\ ls[i] \in S /\ f[ls[i]] = Memory(ls[i]) /\ ls[i] \in LevelType
  BY <1>1, SetType, MemoryOfType, Listed, InSet
<1>3. f[ls[i]] <= Total(f)
  BY <1>2, TotalBounds
<1>4. Total(f) = 0
  BY <1>1, MemoryAreaOf
<1>5. ~(Memory(ls[i]) > 0)
  BY <1>2, <1>3, <1>4
<1>6. QED
  BY <1>5 DEF Memory

===============================================================================
