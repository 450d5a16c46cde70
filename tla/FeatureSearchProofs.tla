------------------------- MODULE FeatureSearchProofs -------------------------
(***************************************************************************)
(* A search waits for every task and draws from the best, but for the      *)
(* drift, whatever its features are, whatever its tasks find and in which  *)
(* order they end.                                                         *)
(***************************************************************************)
EXTENDS FeatureSearch, FiniteSetTheorems, TLAPS

ModeType == [threaded : BOOLEAN, negative : BOOLEAN]

ResultType(Features, Outcomes) ==
    [rest : SUBSET Features, queued : SUBSET Features, count : Nat, best : Int,
     chosen : SUBSET Outcomes, woken : BOOLEAN, seen : SUBSET (Features \X Int)]

\* A feature is tried once, and the count is that of the tasks that have not ended.
Tried(s) ==
    /\ IsFiniteSet(s.queued) /\ IsFiniteSet(s.seen)
    /\ s.count = Cardinality(s.queued)
    /\ s.rest \cap s.queued = {}
    /\ \A x \in s.seen : x[1] \notin s.rest \cup s.queued

\* As long as nothing was taken the best is what it was at the start, and all
\* gains were worse.  After that the best, and what is chosen, is off the least
\* gain, and what is chosen off the best, by less than Eps for every gain but one.
Close(s) ==
    /\ s.chosen = {} => s.best >= -Eps /\ \A x \in s.seen : x[2] >= s.best + Eps
    /\ s.chosen # {} => s.seen # {} /\ \A x \in s.seen : s.best <= x[2] + Drift(s)
    /\ \A c \in s.chosen :
          c.gain <= s.best + Drift(s) /\ \A x \in s.seen : c.gain <= x[2] + Drift(s)

Good(s, Features, Outcomes) == s \in ResultType(Features, Outcomes) /\ Tried(s) /\ Close(s)

\* Where the search is says what is left of it.
Stages ==
    /\ phase \in {"blocked", "choose"} => search.rest = {}
    /\ phase = "choose" => search.queued = {}

SearchInv(Features, Outcomes) == mode \in ModeType /\ Good(search, Features, Outcomes) /\ Stages

Gains(Outcomes) == \A o \in Outcomes : o.gain \in Int

-----------------------------------------------------------------------------

LEMMA DriftGrows ==
    ASSUME NEW s, NEW t, IsFiniteSet(s.seen), NEW x, x \notin s.seen, t.seen = s.seen \cup {x}
    PROVE  /\ IsFiniteSet(t.seen) /\ Drift(s) \in Int /\ Drift(t) \in Nat
           /\ Drift(t) = Drift(s) + (Eps - 1)
           /\ s.seen # {} => Drift(s) \in Nat
<1>1. PICK n \in Nat : n = Cardinality(s.seen)
  BY FS_CardinalityType
<1>2. Cardinality(t.seen) = n + 1 /\ IsFiniteSet(t.seen)
  <2>1. IsFiniteSet(s.seen \cup {x}) /\ Cardinality(s.seen \cup {x}) = Cardinality(s.seen) + 1
    BY FS_AddElement
  <2>2. QED
    BY <1>1, <2>1
<1>3. PICK e \in Nat : e = Eps - 1
  BY SearchAssumption
<1>4. Drift(s) = e * (n - 1) /\ Drift(t) = e * ((n + 1) - 1)
  BY <1>1, <1>2, <1>3 DEF Drift
<1>5. e * ((n + 1) - 1) = e * (n - 1) + e /\ e * (n - 1) \in Int /\ e * ((n + 1) - 1) \in Nat
  BY SMT
<1>6. s.seen # {} => e * (n - 1) \in Nat
  <2>1. s.seen # {} => n # 0
    BY <1>1, FS_EmptySet
  <2>2. n # 0 => n - 1 \in Nat
    OBVIOUS
  <2>3. \A k \in Nat : e * k \in Nat
    OBVIOUS
  <2>4. QED
    BY <2>1, <2>2, <2>3
<1>7. QED
  BY <1>2, <1>3, <1>4, <1>5, <1>6

\* What set() does with a gain.
LEMMA SetIs ==
    ASSUME NEW Features, NEW Outcomes, NEW s \in ResultType(Features, Outcomes), NEW f \in s.queued,
           NEW o \in Outcomes, o.gain \in Int, s.count > 0, NEW t, t = Set(s, f, o)
    PROVE  /\ t \in ResultType(Features, Outcomes)
           /\ t.rest = s.rest /\ t.queued = s.queued \ {f} /\ t.count = s.count - 1
           /\ t.seen = s.seen \cup {<<f, o.gain>>}
           /\ o.gain >= s.best + Eps => t.best = s.best /\ t.chosen = s.chosen
           /\ o.gain < s.best + Eps => /\ t.best = o.gain
                                       /\ t.chosen \in {{o}, s.chosen \cup {o}}
                                       /\ o.gain > s.best - Eps => t.chosen = s.chosen \cup {o}
                                       /\ o.gain <= s.best - Eps => t.chosen = {o}
<1>1. PICK g \in Int, b \in Int, e \in Nat : g = o.gain /\ b = s.best /\ e = Eps
  BY SearchAssumption DEF ResultType
<1>2. s.count \in Nat /\ s.count - 1 \in Nat
  BY DEF ResultType
<1>3. PICK w \in BOOLEAN : w = (s.woken \/ (s.count - 1) % 100 = 0)
  OBVIOUS
<1>4. PICK best, chosen :
        /\ best = IF g < b + e THEN g ELSE b
        /\ chosen = IF g < b + e THEN (IF g <= b - e THEN {} ELSE s.chosen) \cup {o} ELSE s.chosen
  OBVIOUS
<1>5. PICK q, h : q = s.queued \ {f} /\ h = s.seen \cup {<<f, g>>}
  OBVIOUS
<1>6. best \in Int /\ chosen \in SUBSET Outcomes
  BY <1>1, <1>4 DEF ResultType
<1>7. q \in SUBSET Features /\ h \in SUBSET (Features \X Int) /\ s.rest \in SUBSET Features
  BY <1>5 DEF ResultType
<1>8. /\ t \in ResultType(Features, Outcomes)
      /\ t.rest = s.rest /\ t.queued = s.queued \ {f} /\ t.count = s.count - 1
      /\ t.seen = s.seen \cup {<<f, g>>} /\ t.best = best /\ t.chosen = chosen
  <2>1. t = [rest |-> s.rest, queued |-> q, count |-> s.count - 1, best |-> best,
             chosen |-> chosen, woken |-> w, seen |-> h]
    <3>1. t = [s EXCEPT !.queued = q, !.best = best, !.chosen = chosen, !.count = s.count - 1,
                        !.woken = w, !.seen = h]
      BY <1>1, <1>3, <1>4, <1>5 DEF Set
    <3>2. QED
      BY <3>1 DEF ResultType
  <2>2. t \in ResultType(Features, Outcomes)
    BY <1>2, <1>3, <1>6, <1>7, <2>1 DEF ResultType
  <2>3. QED
    BY <1>5, <2>1, <2>2
<1>9. g \in Int /\ b \in Int /\ e \in Nat
  OBVIOUS
<1>10. /\ g >= b + e => best = b /\ chosen = s.chosen
       /\ g < b + e => /\ best = g
                       /\ g > b - e => chosen = s.chosen \cup {o}
                       /\ g <= b - e => chosen = {o}
                       /\ chosen \in {{o}, s.chosen \cup {o}}
  BY <1>4, <1>9
<1>11. QED
  BY <1>1, <1>8, <1>10

LEMMA CountedIs ==
    ASSUME NEW Features, NEW Outcomes, NEW s \in ResultType(Features, Outcomes), NEW f \in s.rest,
           NEW t, t = Counted(s, f)
    PROVE  /\ t \in ResultType(Features, Outcomes)
           /\ t.rest = s.rest \ {f} /\ t.queued = s.queued \cup {f} /\ t.count = s.count + 1
           /\ t.best = s.best /\ t.chosen = s.chosen /\ t.seen = s.seen
<1>1. PICK r, q : r = s.rest \ {f} /\ q = s.queued \cup {f}
  OBVIOUS
<1>2. /\ r \in SUBSET Features /\ q \in SUBSET Features /\ s.count + 1 \in Nat
      /\ s.best \in Int /\ s.chosen \in SUBSET Outcomes /\ s.woken \in BOOLEAN
      /\ s.seen \in SUBSET (Features \X Int)
  BY <1>1 DEF ResultType
<1>3. t = [rest |-> r, queued |-> q, count |-> s.count + 1, best |-> s.best,
           chosen |-> s.chosen, woken |-> s.woken, seen |-> s.seen]
  <2>1. t = [s EXCEPT !.rest = r, !.queued = q, !.count = s.count + 1]
    BY <1>1 DEF Counted
  <2>2. QED
    BY <2>1 DEF ResultType
<1>4. t \in ResultType(Features, Outcomes)
  BY <1>2, <1>3 DEF ResultType
<1>5. QED
  BY <1>1, <1>3, <1>4

\* A task that is made.
LEMMA CountedGood ==
    ASSUME NEW Features, NEW Outcomes, NEW s, Good(s, Features, Outcomes), NEW f \in s.rest,
           NEW t, t = Counted(s, f)
    PROVE  Good(t, Features, Outcomes)
<1>1. /\ t \in ResultType(Features, Outcomes)
      /\ t.rest = s.rest \ {f} /\ t.queued = s.queued \cup {f} /\ t.count = s.count + 1
      /\ t.best = s.best /\ t.chosen = s.chosen /\ t.seen = s.seen
  BY CountedIs DEF Good
<1>2. IsFiniteSet(t.queued) /\ Cardinality(t.queued) = Cardinality(s.queued) + 1
  <2>1. IsFiniteSet(s.queued) /\ f \notin s.queued
    BY DEF Good, Tried
  <2>2. /\ IsFiniteSet(s.queued \cup {f})
        /\ Cardinality(s.queued \cup {f}) = Cardinality(s.queued) + 1
    BY <2>1, FS_AddElement
  <2>3. QED
    BY <1>1, <2>2
<1>3. Tried(t)
  BY <1>1, <1>2 DEF Good, Tried
<1>4. Close(t)
  BY <1>1 DEF Good, Close, Drift
<1>5. QED
  BY <1>1, <1>3, <1>4 DEF Good

\* A task that ends.
LEMMA SetGood ==
    ASSUME NEW Features, NEW Outcomes, Gains(Outcomes), NEW s, Good(s, Features, Outcomes),
           NEW f \in s.queued, NEW o \in Outcomes, NEW t, t = Set(s, f, o)
    PROVE  Good(t, Features, Outcomes)
<1>1. PICK g \in Int : g = o.gain
  BY DEF Gains
<1>2. s \in ResultType(Features, Outcomes) /\ Tried(s) /\ Close(s)
  BY DEF Good
<1>3. /\ IsFiniteSet(s.queued \ {f})
      /\ s.count > 0 /\ Cardinality(s.queued \ {f}) = s.count - 1
  <2>1. IsFiniteSet(s.queued \ {f}) /\ Cardinality(s.queued \ {f}) = s.count - 1
    BY <1>2, FS_RemoveElement DEF Tried
  <2>2. s.count \in Nat /\ s.count - 1 \in Nat
    BY <1>2, <2>1, FS_CardinalityType DEF ResultType
  <2>3. QED
    BY <2>1, <2>2
<1>4. /\ t \in ResultType(Features, Outcomes)
      /\ t.rest = s.rest /\ t.queued = s.queued \ {f} /\ t.count = s.count - 1
      /\ t.seen = s.seen \cup {<<f, g>>}
      /\ g >= s.best + Eps => t.best = s.best /\ t.chosen = s.chosen
      /\ g < s.best + Eps => /\ t.best = g
                             /\ t.chosen \in {{o}, s.chosen \cup {o}}
                             /\ g > s.best - Eps => t.chosen = s.chosen \cup {o}
                             /\ g <= s.best - Eps => t.chosen = {o}
  BY <1>1, <1>2, <1>3, SetIs
<1>5. <<f, g>> \notin s.seen
  BY <1>2 DEF Tried
<1>6. PICK d \in Int, e \in Nat, b \in Int :
        /\ d = Drift(s) /\ e = Eps /\ e > 0 /\ b = s.best
        /\ IsFiniteSet(t.seen) /\ Drift(t) \in Nat /\ Drift(t) = d + (e - 1)
        /\ s.seen # {} => d \in Nat
  <2>1. Drift(s) \in Int /\ s.best \in Int /\ Eps \in Nat /\ Eps > 0
    BY <1>2, <1>4, <1>5, DriftGrows, SearchAssumption DEF Tried, ResultType
  <2>2. /\ IsFiniteSet(t.seen) /\ Drift(t) \in Nat /\ Drift(t) = Drift(s) + (Eps - 1)
        /\ s.seen # {} => Drift(s) \in Nat
    BY <1>2, <1>4, <1>5, DriftGrows DEF Tried
  <2>3. QED
    BY <2>1, <2>2
<1>7. Tried(t)
  <2>1. f \notin s.rest /\ \A x \in t.seen : x[1] \notin t.rest \cup t.queued
    <3>1. ASSUME NEW x \in t.seen PROVE x[1] \notin t.rest \cup t.queued
      BY <1>2, <1>4 DEF Tried
    <3>2. QED
      BY <1>2, <3>1 DEF Tried
  <2>2. QED
    BY <1>2, <1>3, <1>4, <1>6, <2>1 DEF Tried
<1>8. /\ s.chosen = {} => b >= -e /\ \A x \in s.seen : x[2] >= b + e
      /\ s.chosen # {} => s.seen # {} /\ \A x \in s.seen : b <= x[2] + d
      /\ \A c \in s.chosen : c.gain <= b + d /\ \A x \in s.seen : c.gain <= x[2] + d
  BY <1>2, <1>6 DEF Close
<1>9. /\ \A x \in s.seen : x[2] \in Int
      /\ \A c \in s.chosen : c.gain \in Int
      /\ \A x \in t.seen : x \in s.seen \/ x[2] = g
  BY <1>2, <1>4 DEF ResultType, Gains
<1>10. PICK a \in Nat : a = Drift(t) /\ a = d + (e - 1)
  BY <1>6
<1>11. CASE g >= b + e
  <2>1. t.best = b /\ t.chosen = s.chosen
    BY <1>4, <1>6, <1>11
  <2>2. s.chosen = {} => t.best >= -e /\ \A x \in t.seen : x[2] >= b + e
    BY <1>8, <1>9, <1>11, <2>1
  <2>3. s.chosen # {} => t.seen # {} /\ \A x \in t.seen : b <= x[2] + a
    <3>1. ASSUME NEW x \in t.seen, s.chosen # {} PROVE b <= x[2] + a
      <4>1. CASE x \in s.seen
        <5>1. PICK y \in Int : y = x[2]
          BY <1>9, <4>1
        <5>2. b <= y + d
          BY <1>8, <3>1, <4>1, <5>1
        <5>3. QED
          BY <1>6, <1>10, <5>1, <5>2
      <4>2. CASE x[2] = g
        BY <1>11, <4>2
      <4>3. QED
        BY <1>9, <4>1, <4>2
    <3>2. QED
      BY <1>4, <3>1
  <2>4. ASSUME NEW c \in s.chosen
        PROVE  c.gain <= b + a /\ \A x \in t.seen : c.gain <= x[2] + a
    <3>1. PICK z \in Int : z = c.gain
      BY <1>9
    <3>2. z <= b + d
      BY <1>8, <3>1
    <3>3. z <= b + a
      BY <1>6, <1>10, <3>2
    <3>4. ASSUME NEW x \in t.seen PROVE z <= x[2] + a
      <4>1. CASE x \in s.seen
        <5>1. PICK y \in Int : y = x[2]
          BY <1>9, <4>1
        <5>2. z <= y + d
          BY <1>8, <3>1, <4>1, <5>1
        <5>3. QED
          BY <1>6, <1>10, <5>1, <5>2
      <4>2. CASE x[2] = g
        BY <1>11, <3>3, <4>2
      <4>3. QED
        BY <1>9, <4>1, <4>2
    <3>5. QED
      BY <3>1, <3>3, <3>4
  <2>5. Close(t)
    BY <1>6, <1>10, <2>1, <2>2, <2>3, <2>4 DEF Close
  <2>6. QED
    BY <1>4, <1>7, <2>5 DEF Good
<1>12. CASE g < b + e
  <2>1. /\ t.best = g /\ o \in t.chosen /\ t.chosen \subseteq s.chosen \cup {o}
        /\ t.seen # {} /\ \A c \in t.chosen : c = o \/ (c \in s.chosen /\ g > b - e)
    <3>1. s.best = b /\ Eps = e /\ g < s.best + Eps
      BY <1>6, <1>12
    <3>2. t.best = g /\ t.chosen \in {{o}, s.chosen \cup {o}}
      BY <1>4, <3>1
    <3>3. g > b - e \/ t.chosen = {o}
      <4>1. g > b - e \/ g <= b - e
        OBVIOUS
      <4>2. g <= b - e => t.chosen = {o}
        BY <1>4, <3>1
      <4>3. QED
        BY <4>1, <4>2
    <3>4. \A c \in t.chosen : c = o \/ (c \in s.chosen /\ g > b - e)
      BY <3>2, <3>3
    <3>5. QED
      BY <1>4, <3>2, <3>4
  \* The gain is near what was seen before.
  <2>2. ASSUME NEW x \in t.seen PROVE g <= x[2] + a
    <3>1. CASE x[2] = g
      BY <1>10, <3>1
    <3>2. CASE x \in s.seen
      <4>1. PICK y \in Int : y = x[2]
        BY <1>9, <3>2
      <4>2. CASE s.chosen = {}
        <5>1. y >= b + e
          BY <1>8, <3>2, <4>1, <4>2
        <5>2. QED
          BY <1>10, <1>12, <4>1, <5>1
      <4>3. CASE s.chosen # {}
        <5>1. b <= y + d
          BY <1>8, <3>2, <4>1, <4>3
        <5>2. QED
          BY <1>6, <1>10, <1>12, <4>1, <5>1
      <4>4. QED
        BY <4>2, <4>3
    <3>3. QED
      BY <1>9, <3>1, <3>2
  <2>3. ASSUME NEW c \in t.chosen
        PROVE  c.gain <= g + a /\ \A x \in t.seen : c.gain <= x[2] + a
    <3>1. CASE c = o
      BY <1>1, <1>10, <2>2, <3>1
    <3>2. CASE c \in s.chosen /\ g > b - e
      <4>1. PICK z \in Int : z = c.gain
        BY <1>9, <3>2
      <4>2. z <= b + d
        BY <1>8, <3>2, <4>1
      <4>3. z <= g + a
        BY <1>6, <1>10, <3>2, <4>2
      <4>4. ASSUME NEW x \in t.seen PROVE z <= x[2] + a
        <5>1. CASE x \in s.seen
          <6>1. PICK y \in Int : y = x[2]
            BY <1>9, <5>1
          <6>2. z <= y + d
            BY <1>8, <3>2, <4>1, <5>1, <6>1
          <6>3. QED
            BY <1>6, <1>10, <6>1, <6>2
        <5>2. CASE x[2] = g
          BY <4>3, <5>2
        <5>3. QED
          BY <1>9, <5>1, <5>2
      <4>5. QED
        BY <4>1, <4>3, <4>4
    <3>3. QED
      BY <2>1, <3>1, <3>2
  <2>4. Close(t)
    BY <1>10, <2>1, <2>2, <2>3 DEF Close
  <2>5. QED
    BY <1>4, <1>7, <2>4 DEF Good
<1>13. QED
  BY <1>6, <1>11, <1>12

-----------------------------------------------------------------------------

\* A result before any task.
LEMMA FreshGood ==
    ASSUME NEW Features, NEW Outcomes, NEW features \in SUBSET Features, NEW best \in Int, NEW s,
           best >= -Eps,
           s = [rest |-> features, queued |-> {}, count |-> 0, best |-> best, chosen |-> {},
                woken |-> FALSE, seen |-> {}]
    PROVE  Good(s, Features, Outcomes)
<1>1. s \in ResultType(Features, Outcomes)
  BY DEF ResultType
<1>2. Tried(s)
  BY FS_EmptySet DEF Tried
<1>3. Close(s)
  BY DEF Close
<1>4. QED
  BY <1>1, <1>2, <1>3 DEF Good

LEMMA NoSearchGood ==
    ASSUME NEW Features, NEW Outcomes
    PROVE  Good(NoSearch, Features, Outcomes)
<1>1. {} \in SUBSET Features /\ 0 \in Int /\ 0 >= -Eps
  BY SearchAssumption
<1>2. QED
  BY <1>1, FreshGood DEF NoSearch

LEMMA SearchStarts ==
    ASSUME NEW Features, NEW Outcomes, SearchInit
    PROVE  SearchInv(Features, Outcomes)
<1>1. Good(search, Features, Outcomes)
  BY NoSearchGood DEF SearchInit
<1>2. QED
  BY <1>1 DEF SearchInit, SearchInv, Stages, ModeType

\* Each step of a search, and of what is between searches, keeps the invariant.
LEMMA SearchSteps ==
    ASSUME NEW Features, NEW Outcomes, Gains(Outcomes),
           SearchInv(Features, Outcomes), [SearchNext(Features, Outcomes)]_searchVars
    PROVE  SearchInv(Features, Outcomes)'
<1>1. mode \in ModeType /\ Good(search, Features, Outcomes) /\ Stages
  BY DEF SearchInv
<1>2. PICK s, t : s = search /\ t = search'
  OBVIOUS
<1>3. SUFFICES mode' \in ModeType /\ Good(t, Features, Outcomes) /\ Stages'
  BY <1>2 DEF SearchInv, Good, Tried, Close, Drift
<1>4. ASSUME NEW features \in SUBSET Features, Begin(features)
      PROVE  mode' \in ModeType /\ Good(t, Features, Outcomes) /\ Stages'
  <2>1. PICK best : best = IF mode.negative THEN Worst ELSE -Eps
    OBVIOUS
  <2>2. best \in Int /\ best >= -Eps
    BY <2>1, SearchAssumption
  <2>3. t = [rest |-> features, queued |-> {}, count |-> 0, best |-> best, chosen |-> {},
             woken |-> FALSE, seen |-> {}]
    BY <1>2, <1>4, <2>1 DEF Begin, NoSearch
  <2>4. Good(t, Features, Outcomes)
    BY <2>2, <2>3, FreshGood
  <2>5. QED
    BY <1>1, <1>4, <2>4 DEF Begin, Stages
<1>5. ASSUME NEW f \in search.rest, Make(f, Outcomes)
      PROVE  mode' \in ModeType /\ Good(t, Features, Outcomes) /\ Stages'
  <2>1. PICK c : c = Counted(s, f)
    OBVIOUS
  <2>2. Good(c, Features, Outcomes)
    BY <1>1, <1>2, <2>1, CountedGood
  <2>3. f \in c.queued
    <3>1. s \in ResultType(Features, Outcomes)
      BY <1>1, <1>2 DEF Good
    <3>2. QED
      BY <1>2, <2>1, <3>1, CountedIs
  <2>4. Good(t, Features, Outcomes)
    <3>1. CASE mode.threaded
      BY <1>2, <1>5, <2>1, <2>2, <3>1 DEF Make
    <3>2. CASE ~mode.threaded
      <4>1. PICK o \in Outcomes : t = Set(c, f, o)
        BY <1>2, <1>5, <2>1, <3>2 DEF Make
      <4>2. QED
        BY <2>2, <2>3, <4>1, SetGood
    <3>3. QED
      BY <3>1, <3>2
  <2>5. QED
    BY <1>1, <1>5, <2>4 DEF Make, Stages
<1>6. ASSUME NEW f \in search.queued, Execute(f, Outcomes)
      PROVE  mode' \in ModeType /\ Good(t, Features, Outcomes) /\ Stages'
  <2>1. PICK o \in Outcomes : t = Set(s, f, o)
    BY <1>2, <1>6 DEF Execute
  <2>2. Good(t, Features, Outcomes)
    BY <1>1, <1>2, <2>1, SetGood
  <2>3. t.rest = s.rest
    BY <1>1, <1>2, <2>1 DEF Set, Good, ResultType
  <2>4. QED
    BY <1>1, <1>2, <1>6, <2>2, <2>3 DEF Execute, Stages
<1>7. ASSUME search.rest = {}, phase' = IF search.count > 0 THEN "blocked" ELSE "choose",
             search' = [search EXCEPT !.woken = FALSE], UNCHANGED mode
      PROVE  mode' \in ModeType /\ Good(t, Features, Outcomes) /\ Stages'
  <2>1. t = [rest |-> s.rest, queued |-> s.queued, count |-> s.count, best |-> s.best,
             chosen |-> s.chosen, woken |-> FALSE, seen |-> s.seen]
    <3>1. s \in ResultType(Features, Outcomes) /\ t = [s EXCEPT !.woken = FALSE]
      BY <1>1, <1>2, <1>7 DEF Good
    <3>2. QED
      BY <3>1 DEF ResultType
  <2>2. s \in ResultType(Features, Outcomes) /\ Tried(s) /\ Close(s)
    BY <1>1, <1>2 DEF Good
  <2>3. t \in ResultType(Features, Outcomes)
    BY <2>1, <2>2 DEF ResultType
  <2>4. Tried(t)
    BY <2>1, <2>2 DEF Tried
  <2>5. Close(t)
    BY <2>1, <2>2 DEF Close, Drift
  <2>6. ~(s.count > 0) => s.queued = {}
    <3>1. s.count \in Nat /\ s.count = Cardinality(s.queued) /\ IsFiniteSet(s.queued)
      BY <2>2 DEF ResultType, Tried
    <3>2. s.count = 0 => s.queued = {}
      BY <3>1, FS_EmptySet
    <3>3. QED
      BY <3>1, <3>2
  <2>7. Stages'
    BY <1>2, <1>7, <2>1, <2>6 DEF Stages
  <2>8. QED
    BY <1>1, <1>7, <2>3, <2>4, <2>5, <2>7 DEF Good
<1>8. CASE Finish
  BY <1>1, <1>2, <1>8, NoSearchGood DEF Finish, Stages
<1>9. CASE Elsewhere
  <2>1. t = NoSearch \/ t = s
    BY <1>2, <1>9 DEF Elsewhere
  <2>2. Good(t, Features, Outcomes)
    BY <1>1, <1>2, <2>1, NoSearchGood
  <2>3. QED
    BY <1>1, <1>9, <2>2 DEF Elsewhere, Stages, SearchPhases
<1>10. CASE UNCHANGED searchVars
  BY <1>1, <1>2, <1>10 DEF searchVars, Stages
<1>11. CASE Wait
  BY <1>7, <1>11 DEF Wait
<1>12. CASE WakeUp
  BY <1>1, <1>7, <1>12 DEF WakeUp, Stages
<1>13. QED
  BY <1>4, <1>5, <1>6, <1>8, <1>9, <1>10, <1>11, <1>12 DEF SearchNext

LEMMA InvIsExact ==
    ASSUME NEW Features, NEW Outcomes, SearchInv(Features, Outcomes)
    PROVE  SearchExact
<1>1. search \in ResultType(Features, Outcomes) /\ Tried(search) /\ Close(search) /\ Stages
  BY DEF SearchInv, Good
<1>2. SearchIsComplete
  BY <1>1 DEF Tried, Stages, SearchIsComplete
<1>3. ASSUME NEW x \in search.seen, x[2] < 0 PROVE search.chosen # {}
  <2>1. PICK y \in Int, b \in Int, e \in Nat : y = x[2] /\ b = search.best /\ e = Eps
    BY <1>1, SearchAssumption DEF ResultType
  <2>2. search.chosen = {} => b >= -e /\ y >= b + e
    BY <1>1, <2>1 DEF Close
  <2>3. y < 0
    BY <1>3, <2>1
  <2>4. QED
    BY <2>2, <2>3
<1>4. SearchIsBest
  BY <1>1, <1>3 DEF Close, SearchIsBest
<1>5. QED
  BY <1>2, <1>4 DEF SearchExact

\* Whatever the features of the searches are and whatever their tasks find, in
\* whichever order the threads end them, wait() lets a search go on only when each
\* feature of its bag was tried, and what it then draws from is the best of them.
THEOREM SearchesExactly ==
    ASSUME NEW Features, NEW Outcomes, Gains(Outcomes)
    PROVE  SearchSpec(Features, Outcomes) => []SearchExact
<1>1. SearchInit => SearchInv(Features, Outcomes)
  BY SearchStarts
<1>2. SearchInv(Features, Outcomes) /\ [SearchNext(Features, Outcomes)]_searchVars
      => SearchInv(Features, Outcomes)'
  BY SearchSteps
<1>3. SearchInv(Features, Outcomes) => SearchExact
  BY InvIsExact
<1>4. QED
  BY <1>1, <1>2, <1>3, PTL DEF SearchSpec
=============================================================================
