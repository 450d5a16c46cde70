---------------------- MODULE CompositeActiveObjectProofs ----------------------
(* Proofs about CompositeActiveObject, for any number of users and children, of
   whom one user waits.  First the order of the children, which holds while no
   child throws; then, until a second one has, what may still be at work.    *)
EXTENDS CompositeActiveObject, SequenceTheorems, TLAPS

OneWaiter == \A v, w \in Waiters : v = w

LEMMA Reversed ==
    ASSUME NEW S, NEW s \in Seq(S)
    PROVE  /\ Reverse(s) \in Seq(S)
           /\ Len(Reverse(s)) = Len(s)
           /\ \A i \in 1 .. Len(s) : Reverse(s)[i] = s[Len(s) + 1 - i]
<1>1. \A i \in 1 .. Len(s) : Len(s) - i + 1 \in 1 .. Len(s) /\ Len(s) - i + 1 = Len(s) + 1 - i
  OBVIOUS
<1>2. \A i \in 1 .. Len(s) : s[Len(s) - i + 1] \in S
  BY <1>1
<1>3. QED
  BY <1>1, <1>2 DEF Reverse

\* A user that sleeps, waits without the lock, or does nothing.
Away(v) == pc[v] \in {"idle", "sleep"} \/ (pc[v] = "join" /\ op[v] = "wait")

LEMMA Others ==
    ASSUME Types, LockHeld, NEW u \in Users, NEW v \in Users, v /= u, lock_ \in {u, NoUser}
    PROVE  Away(v)
<1>1. lock_ /= v
  BY ConstantsAssumption
<1>2. ~Locked(v) /\ Placed(v)
  BY <1>1 DEF LockHeld
<1>3. pc[v] \in Places
  BY DEF Types
<1>4. QED
  BY <1>2, <1>3 DEF Locked, Places, Placed, Away

\* The levels of the children.
LEMMA Levels ==
    ASSUME Types
    PROVE  /\ \A c \in Children : Level(c) \in 0 .. 2
           /\ \A c \in Children : Level(c) = 0 <=> child[c] = "not_active"
           /\ \A c \in Children : Level(c) = 2 <=> child[c] = "active"
           /\ \A i \in DOMAIN child_objects_ : child_objects_[i] \in Children
           /\ DOMAIN child_objects_ = 1 .. Len(child_objects_)
<1>1. \A c \in Children : child[c] \in States
  BY DEF Types
<1>2. QED
  BY <1>1 DEF Types, States, Level

\* Initially there are no children.
LEMMA InitOrderly == Init => IndInv
<1> SUFFICES ASSUME Init PROVE IndInv
  OBVIOUS
<1>1. Types
  BY DEF Init, Types, Places, Operations, States
<1>2. OwnedOnce /\ AtRest /\ InOrder
  BY DEF Init, OwnedOnce, AtRest, InOrder
<1>3. LockHeld
  BY ConstantsAssumption DEF Init, LockHeld, Placed, Locked
<1>4. \A u \in Users : Progress(u)
  BY DEF Init, Progress
<1>5. QED
  BY <1>1, <1>2, <1>3, <1>4 DEF IndInv, Orderly, Init

\* What the list of children and their levels become.
LEMMA LevelsKept ==
    ASSUME UNCHANGED <<child, child_objects_>>
    PROVE  \A i \in DOMAIN child_objects_ : LevelAt(i)' = LevelAt(i)
  BY DEF LevelAt, Level

LEMMA OneChild ==
    ASSUME Types, OwnedOnce, NEW n \in DOMAIN child_objects_, NEW state \in States,
           Becomes(child_objects_[n], state), child_objects_' = child_objects_
    PROVE  /\ child' \in [Children -> States]
           /\ \A i \in DOMAIN child_objects_ : i /= n => LevelAt(i)' = LevelAt(i)
           /\ state = "active" => LevelAt(n)' = 2
           /\ state \in {"stopping", "ended"} => LevelAt(n)' = 1
           /\ state = "not_active" => LevelAt(n)' = 0
<1>1. child \in [Children -> States] /\ child' = [child EXCEPT ![child_objects_[n]] = state]
  BY DEF Types, Becomes
<1>2. \A i \in DOMAIN child_objects_ : child_objects_[i] \in Children
  BY Levels
<1>3. child' \in [Children -> States] /\ child'[child_objects_[n]] = state
  BY <1>1, <1>2
<1>4. \A i \in DOMAIN child_objects_ :
        i /= n => child'[child_objects_[i]] = child[child_objects_[i]]
  BY <1>1, <1>2 DEF OwnedOnce
<1>5. QED
  BY <1>3, <1>4 DEF LevelAt, Level

LEMMA Stranger ==
    ASSUME Types, NEW c \in Children, c \notin Owned, NEW state \in States, Becomes(c, state)
    PROVE  /\ child' \in [Children -> States]
           /\ child_objects_' = child_objects_ =>
                 \A i \in DOMAIN child_objects_ : LevelAt(i)' = LevelAt(i)
<1>1. \A i \in DOMAIN child_objects_ : child_objects_[i] \in Children /\ child_objects_[i] /= c
  BY Levels DEF Owned, ToSet
<1>2. child \in [Children -> States] /\ child' = [child EXCEPT ![c] = state]
  BY DEF Types, Becomes
<1>3. \A i \in DOMAIN child_objects_ : child'[child_objects_[i]] = child[child_objects_[i]]
  BY <1>1, <1>2
<1>4. QED
  BY <1>2, <1>3 DEF LevelAt, Level

\* A child that is added is the last one.
LEMMA Added ==
    ASSUME Types, OwnedOnce, NEW c \in Children, c \notin Owned, NEW state \in States,
           child' = [child EXCEPT ![c] = state], Push(c)
    PROVE  /\ child' \in [Children -> States]
           /\ child_objects_' \in Seq(Children)
           /\ DOMAIN child_objects_' = 1 .. Len(child_objects_) + 1
           /\ Len(child_objects_') = Len(child_objects_) + 1
           /\ OwnedOnce'
           /\ \A i \in DOMAIN child_objects_ : child_objects_'[i] = child_objects_[i]
           /\ \A i \in DOMAIN child_objects_ : LevelAt(i)' = LevelAt(i)
           /\ \A i : i = Len(child_objects_) + 1 =>
                 /\ state = "active" => LevelAt(i)' = 2
                 /\ state = "not_active" => LevelAt(i)' = 0
<1>1. \A i \in DOMAIN child_objects_ : child_objects_[i] \in Children /\ child_objects_[i] /= c
  BY Levels DEF Owned, ToSet
<1>2. /\ child \in [Children -> States] /\ child_objects_ \in Seq(Children)
      /\ child_objects_' = Append(child_objects_, c)
  BY DEF Types, Push
<1>3. /\ child_objects_' \in Seq(Children)
      /\ Len(child_objects_') = Len(child_objects_) + 1
      /\ DOMAIN child_objects_' = 1 .. Len(child_objects_) + 1
      /\ \A i \in DOMAIN child_objects_ : child_objects_'[i] = child_objects_[i]
      /\ child_objects_'[Len(child_objects_) + 1] = c
  BY <1>2
<1>4. /\ child' \in [Children -> States] /\ child'[c] = state
      /\ \A i \in DOMAIN child_objects_ : child'[child_objects_[i]] = child[child_objects_[i]]
  BY <1>1, <1>2
<1>5. OwnedOnce'
  BY <1>1, <1>2, <1>3 DEF OwnedOnce
<1>6. \A i \in DOMAIN child_objects_ : LevelAt(i)' = LevelAt(i)
  BY <1>3, <1>4 DEF LevelAt, Level
<1>7. \A i : i = Len(child_objects_) + 1 =>
        /\ state = "active" => LevelAt(i)' = 2
        /\ state = "not_active" => LevelAt(i)' = 0
  BY <1>3, <1>4 DEF LevelAt, Level
<1>8. QED
  BY <1>3, <1>4, <1>5, <1>6, <1>7

-----------------------------------------------------------------------------
(* A step of one user leaves the others where they are.                      *)

Unmoved(v) ==
    pc'[v] = pc[v] /\ op'[v] = op[v] /\ todo'[v] = todo[v] /\ list'[v] = list[v]

\* What a user that waits for the children without the lock needs of a step.
JoinersKept ==
    /\ active_state_' = "deactivating"
    /\ Len(child_objects_') \in Nat
    /\ Len(child_objects_) <= Len(child_objects_')
    /\ DOMAIN child_objects_' = 1 .. Len(child_objects_')
    /\ \A i \in DOMAIN child_objects_ :
          child_objects_'[i] = child_objects_[i] /\ LevelAt(i)' = LevelAt(i)
    /\ \A i \in DOMAIN child_objects_' : i > Len(child_objects_) => LevelAt(i)' = 0

LEMMA OneMoves ==
    ASSUME Orderly, NEW u \in Users, lock_ \in {u, NoUser}, lock_' \in {u, NoUser},
           \A v \in Users : v /= u => Unmoved(v),
           \A v \in Users : v /= u /\ pc[v] = "join" => JoinersKept,
           Types', Placed(u)', lock_' = u <=> Locked(u)', Progress(u)',
           OwnedOnce', AtRest', InOrder'
    PROVE  Orderly'
<1>1. \A v \in Users : v /= u => Away(v)
  BY Others DEF Orderly
<1>2. \A v \in Users : v /= u => v /= lock_ /\ v /= lock_'
  BY ConstantsAssumption
<1>3. LockHeld'
  <2>1. ASSUME NEW v \in Users, v /= u PROVE Placed(v)' /\ ~(lock_' = v) /\ ~Locked(v)'
    <3>1. Placed(v)'
      BY <2>1 DEF Orderly, LockHeld, Placed, Unmoved
    <3>2. ~Locked(v)'
      BY <2>1, <1>1 DEF Locked, Unmoved, Away
    <3>3. QED
      BY <3>1, <3>2, <2>1, <1>2
  <2>2. QED
    BY <2>1 DEF LockHeld
<1>4. ASSUME NEW v \in Users, v /= u PROVE Progress(v)'
  <2>1. Unmoved(v) /\ Away(v) /\ Progress(v)
    BY <1>4, <1>1 DEF Orderly
  <2>2. CASE pc[v] \in {"idle", "sleep"}
    BY <2>1, <2>2 DEF Progress, Unmoved
  <2>3. CASE pc[v] = "join"
    <3>1. JoinersKept /\ Joining(v)
      BY <2>1, <2>3, <1>4 DEF Progress
    <3>2. todo[v] \in Seq(Children) /\ child_objects_ \in Seq(Children)
      BY DEF Orderly, Types
    <3>3. LastOf(todo[v])'
      <4>1. todo'[v] = todo[v] /\ LastOf(todo[v])
        BY <3>1, <2>1 DEF Joining, Unmoved
      <4>2. \A i \in 1 .. Len(todo[v]) : Len(todo[v]) + 1 - i \in DOMAIN child_objects_
        BY <3>2, <4>1 DEF LastOf
      <4>3. Len(todo[v]) <= Len(child_objects_')
        BY <3>1, <3>2, <4>1 DEF LastOf, JoinersKept
      <4>4. \A i \in 1 .. Len(todo[v]) : todo[v][i] = child_objects_'[Len(todo[v]) + 1 - i]
        BY <3>1, <4>1, <4>2 DEF LastOf, JoinersKept
      <4>5. QED
        BY <4>1, <4>3, <4>4 DEF LastOf
    <3>4. Joining(v)'
      BY <3>1, <3>2, <3>3, <2>1 DEF JoinersKept, Joining, Unmoved
    <3>5. QED
      BY <3>4, <2>1, <2>3 DEF Progress, Unmoved
  <2>4. QED
    BY <2>1, <2>2, <2>3 DEF Away
<1>5. QED
  BY <1>3, <1>4 DEF Orderly

\* The children and the state of the composite stay: so do the joiners.
LEMMA NothingForJoiners ==
    ASSUME Orderly, UNCHANGED <<child, child_objects_, active_state_>>
    PROVE  \A v \in Users : pc[v] = "join" => JoinersKept
<1>1. child_objects_ \in Seq(Children)
  BY DEF Orderly, Types
<1>2. QED
  BY <1>1, LevelsKept DEF Orderly, Progress, Joining, JoinersKept

LEMMA NoJoiners ==
    ASSUME Orderly, active_state_ /= "deactivating"
    PROVE  \A v \in Users : pc[v] /= "join"
  BY DEF Orderly, Progress, Joining

LEMMA OneJoiner ==
    ASSUME Orderly, OneWaiter, NEW u \in Waiters
    PROVE  \A v \in Users : v /= u => pc[v] /= "join"
  BY DEF Orderly, OneWaiter, LockHeld, Placed

-----------------------------------------------------------------------------
(* The steps of a user, one lemma for each.                                  *)

LEMMA Lengths ==
    ASSUME Types
    PROVE  /\ child_objects_ \in Seq(Children)
           /\ Len(child_objects_) \in Nat
           /\ DOMAIN child_objects_ = 1 .. Len(child_objects_)
           /\ \A u \in Users :
                 /\ todo[u] \in Seq(Children) /\ Len(todo[u]) \in Nat
                 /\ list[u] \in Seq(Children) /\ Len(list[u]) \in Nat
                 /\ todo[u] /= <<>> => Len(todo[u]) /= 0 /\ Head(todo[u]) = todo[u][1]
  BY DEF Types

LEMMA OrderlyActivate ==
    ASSUME Orderly, NEW u \in Users, activate_object(u) PROVE Orderly'
<1>1. /\ pc[u] = "idle" /\ lock_ = NoUser /\ lock_' = u /\ active_state_ = "not_active"
      /\ pc' = [pc EXCEPT ![u] = "start"] /\ op' = [op EXCEPT ![u] = "activate"]
      /\ todo' = [todo EXCEPT ![u] = child_objects_]
      /\ UNCHANGED <<active_state_, synchronous_, child_objects_, child, list, errors>>
  BY DEF activate_object, Enter, At, Does, Todo
<1> USE DEF Orderly
<1>2. Types'
  BY <1>1 DEF Types, Places, Operations
<1>3. \A i \in DOMAIN child_objects_ : LevelAt(i)' = LevelAt(i)
  BY <1>1, LevelsKept
<1>4. OwnedOnce' /\ InOrder'
  BY <1>1, <1>3 DEF OwnedOnce, InOrder
<1>5. \A v \in Users : v /= u => Unmoved(v) /\ Away(v)
  BY <1>1, Others DEF Types, Unmoved
<1>6. list'[u] = <<>> /\ todo'[u] = child_objects_ /\ pc'[u] = "start" /\ op'[u] = "activate"
  BY <1>1 DEF Types, Progress
<1>7. Placed(u)' /\ (lock_' = u <=> Locked(u)')
  BY <1>1, <1>6 DEF Placed, Locked
<1>8. AtRest'
  BY <1>1, <1>6, ConstantsAssumption DEF AtRest
<1>9. Progress(u)'
  <2>1. \A i \in DOMAIN child_objects_ : LevelAt(i)' = 0
    BY <1>1, <1>3, <1>5 DEF AtRest, Away
  <2>2. child_objects_ \in Seq(Children)
    BY DEF Types
  <2>3. LastOf(list[u])'
    BY <1>1, <1>6, <2>2 DEF LastOf
  <2>4. /\ Len(list[u])' + Len(todo[u])' = Len(child_objects_)
        /\ \A i \in 1 .. Len(todo[u])' : todo[u][i]' = child_objects_[Len(list[u])' + i]
    BY <1>6, <2>2
  <2>5. \A i \in DOMAIN child_objects_ : LevelAt(i)' = IF i <= Len(list[u])' THEN 2 ELSE 0
    BY <2>1, <1>6, <2>2
  <2>6. Starting(u)'
    BY <1>1, <2>3, <2>4, <2>5 DEF Starting
  <2>7. QED
    BY <1>6, <2>6 DEF Progress
<1>10. \A v \in Users : pc[v] /= "join"
  BY <1>1, NoJoiners
<1>11. QED
  BY <1>1, <1>2, <1>4, <1>5, <1>7, <1>8, <1>9, <1>10, OneMoves

LEMMA OrderlyStartChild ==
    ASSUME Orderly, NEW u \in Users, StartChild(u) PROVE Orderly'
<1> USE DEF Orderly
<1>1. /\ pc[u] = "start" /\ todo[u] /= <<>> /\ Becomes(Head(todo[u]), "active")
      /\ list' = [list EXCEPT ![u] = <<Head(todo[u])>> \o list[u]]
      /\ todo' = [todo EXCEPT ![u] = Tail(todo[u])]
      /\ UNCHANGED <<lock_, active_state_, synchronous_, child_objects_, pc, op, errors>>
  BY DEF StartChild, Todo, Types
<1>2. Starting(u) /\ Placed(u) /\ lock_ = u /\ Locked(u)
  BY <1>1 DEF Progress, LockHeld, Locked
<1>3. PICK a \in Nat, b \in Nat, m \in Nat :
        /\ a = Len(list[u]) /\ b = Len(todo[u]) /\ m = Len(child_objects_)
        /\ b /= 0 /\ a + b = m
        /\ DOMAIN child_objects_ = 1 .. m
  BY ZenonT(40), <1>1, <1>2, Lengths DEF Starting
<1>4. PICK c \in Children : c = Head(todo[u]) /\ c = todo[u][1]
  BY <1>1, Lengths DEF Types
<1>5. a + 1 \in 1 .. m /\ 1 \in 1 .. b /\ (a + 1) + (b - 1) = m /\ b - 1 \in Nat
  <2>1. b /= 0 /\ a + b = m
    BY <1>3
  <2>2. QED
    BY <2>1
<1>6. c = child_objects_[a + 1]
  BY <1>2, <1>3, <1>4, <1>5 DEF Starting
<1>7. /\ child' \in [Children -> States] /\ LevelAt(a + 1)' = 2
      /\ \A i \in DOMAIN child_objects_ : i /= a + 1 => LevelAt(i)' = LevelAt(i)
  <2>1. Becomes(child_objects_[a + 1], "active") /\ child_objects_' = child_objects_
    BY <1>1, <1>4, <1>6
  <2>2. Types /\ OwnedOnce /\ "active" \in States /\ a + 1 \in DOMAIN child_objects_
    BY <1>3, <1>5 DEF States
  <2>3. QED
    BY <2>1, <2>2, OneChild
<1>8. PICK s \in Seq(Children), t \in Seq(Children) :
        /\ list' = [list EXCEPT ![u] = s] /\ todo' = [todo EXCEPT ![u] = t]
        /\ list'[u] = s /\ todo'[u] = t
        /\ Len(s) = a + 1 /\ Len(t) = b - 1
        /\ \A i \in 1 .. a + 1 : s[i] = IF i = 1 THEN c ELSE list[u][i - 1]
        /\ \A i \in 1 .. b - 1 : t[i] = todo[u][i + 1]
  <2>1. list[u] \in Seq(Children) /\ todo[u] \in Seq(Children)
    BY Lengths
  <2>2. /\ <<c>> \o list[u] \in Seq(Children) /\ Len(<<c>> \o list[u]) = a + 1
        /\ \A i \in 1 .. a + 1 : (<<c>> \o list[u])[i] = IF i = 1 THEN c ELSE list[u][i - 1]
    BY <2>1, <1>3
  <2>3. /\ Tail(todo[u]) \in Seq(Children) /\ Len(Tail(todo[u])) = b - 1
        /\ \A i \in 1 .. b - 1 : Tail(todo[u])[i] = todo[u][i + 1]
    BY <2>1, <1>1, <1>3
  <2>4. list'[u] = <<c>> \o list[u] /\ todo'[u] = Tail(todo[u])
    BY <1>1, <1>4 DEF Types
  <2>5. QED
    BY <1>1, <1>4, <2>2, <2>3, <2>4
<1>9. Types'
  BY <1>1, <1>7, <1>8 DEF Types
<1>10. \A v \in Users : v /= u => Unmoved(v)
  BY <1>1 DEF Types, Unmoved
<1>11. Placed(u)' /\ (lock_' = u <=> Locked(u)')
  <2>1. pc' = pc /\ op' = op /\ lock_' = lock_
    BY <1>1
  <2>2. QED
    BY <2>1, <1>2 DEF Placed, Locked
<1>12. \A i \in 1 .. m : LevelAt(i)' = IF i <= a + 1 THEN 2 ELSE 0
  <2>1. \A i \in 1 .. m : LevelAt(i) = IF i <= a THEN 2 ELSE 0
    BY <1>2, <1>3 DEF Starting
  <2>2. QED
    BY <1>3, <1>5, <1>7, <2>1
<1>13. OwnedOnce' /\ InOrder'
  BY <1>1, <1>3, <1>12 DEF OwnedOnce, InOrder
<1>14. AtRest'
  BY <1>1, <1>2 DEF AtRest, Starting
<1>15. Progress(u)'
  <2>1. \A i \in 1 .. a + 1 : s[i] = child_objects_[a + 1 + 1 - i]
    <3>1. \A i \in 1 .. a : list[u][i] = child_objects_[a + 1 - i]
      BY <1>2, <1>3 DEF Starting, LastOf
    <3>2. ASSUME NEW i \in 1 .. a + 1, i /= 1 PROVE s[i] = child_objects_[a + 1 + 1 - i]
      <4>1. i - 1 \in 1 .. a /\ a + 1 - (i - 1) = a + 1 + 1 - i
        BY <3>2
      <4>2. QED
        BY <3>1, <4>1, <1>8, <3>2
    <3>3. s[1] = child_objects_[a + 1] /\ a + 1 + 1 - 1 = a + 1
      <4>1. 1 \in 1 .. a + 1 /\ a + 1 + 1 - 1 = a + 1
        OBVIOUS
      <4>2. s[1] = c
        BY <1>8, <4>1
      <4>3. QED
        BY <1>6, <4>1, <4>2
    <3>4. QED
      BY <3>2, <3>3
  <2>2. \A i \in 1 .. b - 1 : t[i] = child_objects_[(a + 1) + i]
    <3>1. \A i \in 1 .. b - 1 : i + 1 \in 1 .. b /\ a + (i + 1) = (a + 1) + i
      OBVIOUS
    <3>2. \A i \in 1 .. b : todo[u][i] = child_objects_[a + i]
      BY <1>2, <1>3 DEF Starting
    <3>3. QED
      BY <3>1, <3>2, <1>8
  <2>3. a + 1 <= m
    BY <1>5
  <2>4. LastOf(list[u])'
    BY <1>1, <1>3, <1>8, <2>1, <2>3 DEF LastOf
  <2>5. Starting(u)'
    BY ZenonT(40), <1>1, <1>2, <1>3, <1>5, <1>8, <1>12, <2>2, <2>4 DEF Starting
  <2>6. QED
    BY <1>1, <2>5 DEF Progress
<1>16. \A v \in Users : pc[v] /= "join"
  BY <1>2, NoJoiners DEF Starting
<1>17. QED
  BY <1>1, <1>2, <1>9, <1>10, <1>11, <1>13, <1>14, <1>15, <1>16, OneMoves

\* A child that is to be started can only fail by throwing.
LEMMA NoStartFails ==
    ASSUME Orderly, NEW u \in Users, StartFails(u), failures = 0, failures' = 0 PROVE FALSE
<1>1. pc[u] = "start" /\ todo[u] /= <<>> /\ child[Head(todo[u])] /= "not_active"
  BY DEF StartFails, Throws
<1>2. Starting(u)
  BY <1>1 DEF Orderly, Progress
<1>3. PICK a \in Nat, b \in Nat, m \in Nat :
        /\ a = Len(list[u]) /\ b = Len(todo[u]) /\ m = Len(child_objects_)
        /\ b /= 0 /\ a + b = m
        /\ DOMAIN child_objects_ = 1 .. m
        /\ Head(todo[u]) = todo[u][1]
  BY ZenonT(40), <1>1, <1>2, Lengths DEF Starting, Orderly
<1>4. a + 1 \in 1 .. m /\ 1 \in 1 .. b /\ ~(a + 1 <= a)
  <2>1. b /= 0 /\ a + b = m
    BY <1>3
  <2>2. QED
    BY <2>1
<1>5. Head(todo[u]) = child_objects_[a + 1]
  BY <1>2, <1>3, <1>4 DEF Starting
<1>6. LevelAt(a + 1) = 0
  BY <1>2, <1>3, <1>4 DEF Starting
<1>7. QED
  BY <1>1, <1>5, <1>6 DEF LevelAt, Level

LEMMA OrderlyStarted ==
    ASSUME Orderly, NEW u \in Users, Started(u) PROVE Orderly'
<1>1. /\ pc[u] = "start" /\ todo[u] = <<>> /\ active_state_' = "active" /\ lock_' = NoUser
      /\ pc' = [pc EXCEPT ![u] = "idle"] /\ op' = [op EXCEPT ![u] = "none"]
      /\ todo' = [todo EXCEPT ![u] = <<>>] /\ list' = [list EXCEPT ![u] = <<>>]
      /\ errors' = [errors EXCEPT ![u] = FALSE]
      /\ UNCHANGED <<synchronous_, child_objects_, child>>
  BY DEF Started, Leave, Returns, At, Does, Todo
<1> USE DEF Orderly
<1>2. Types'
  BY <1>1 DEF Types, Places, Operations
<1>3. \A i \in DOMAIN child_objects_ : LevelAt(i)' = LevelAt(i)
  BY <1>1, LevelsKept
<1>4. OwnedOnce' /\ InOrder'
  BY <1>1, <1>3 DEF OwnedOnce, InOrder
<1>5. \A v \in Users : v /= u => Unmoved(v)
  BY <1>1 DEF Types, Unmoved
<1>6. list'[u] = <<>> /\ pc'[u] = "idle" /\ op'[u] = "none"
  BY <1>1 DEF Types
<1>7. lock_ = u /\ Starting(u)
  BY <1>1 DEF LockHeld, Locked, Progress
<1>8. Placed(u)' /\ (lock_' = u <=> Locked(u)') /\ Progress(u)'
  BY <1>1, <1>6, ConstantsAssumption DEF Placed, Locked, Progress
<1>9. AtRest'
  <2>1. child_objects_ \in Seq(Children) /\ list[u] \in Seq(Children)
    BY DEF Types
  <2>2. \A i \in DOMAIN child_objects_ : LevelAt(i) = 2
    BY <1>1, <1>7, <2>1 DEF Starting
  <2>3. QED
    BY <1>1, <1>3, <2>2 DEF AtRest
<1>10. \A v \in Users : pc[v] /= "join"
  BY <1>7, NoJoiners DEF Starting
<1>11. QED
  BY <1>1, <1>2, <1>4, <1>5, <1>7, <1>8, <1>9, <1>10, OneMoves

\* deactivate_object and clear_children begin to stop an active composite.
LEMMA OrderlyBeginStop ==
    ASSUME Orderly, NEW u \in Users, pc[u] = "idle", lock_ = NoUser, active_state_ = "active",
           NEW name \in {"deactivate", "clear"}, name = "clear" => u \in Waiters,
           Does(u, name), BeginStop(u, LastFirst(child_objects_)),
           UNCHANGED <<active_state_, synchronous_, child_objects_, child>>
    PROVE  Orderly'
<1> DEFINE r == LastFirst(child_objects_)
<1>1. /\ lock_' = u /\ pc' = [pc EXCEPT ![u] = "stop"] /\ op' = [op EXCEPT ![u] = name]
      /\ todo' = [todo EXCEPT ![u] = r] /\ list' = [list EXCEPT ![u] = r] /\ UNCHANGED errors
  BY DEF BeginStop, At, Does, Todo
<1>2. /\ child_objects_ \in Seq(Children) /\ r \in Seq(Children) /\ Len(r) = Len(child_objects_)
      /\ \A i \in 1 .. Len(child_objects_) : r[i] = child_objects_[Len(child_objects_) + 1 - i]
  <2>1. child_objects_ \in Seq(Children)
    BY DEF Orderly, Types
  <2>2. QED
    BY <2>1, Reversed DEF LastFirst
<1> HIDE DEF r
<1> USE DEF Orderly
<1>3. Types'
  BY <1>1, <1>2 DEF Types, Places, Operations
<1>4. \A i \in DOMAIN child_objects_ : LevelAt(i)' = LevelAt(i)
  BY LevelsKept
<1>5. OwnedOnce' /\ InOrder'
  BY <1>4 DEF OwnedOnce, InOrder
<1>6. \A v \in Users : v /= u => Unmoved(v)
  BY <1>1 DEF Types, Unmoved
<1>7. list'[u] = r /\ todo'[u] = r /\ pc'[u] = "stop" /\ op'[u] = name
  BY <1>1 DEF Types
<1>8. Placed(u)' /\ (lock_' = u <=> Locked(u)')
  BY <1>1, <1>7 DEF Placed, Locked, LockHeld
<1>9. AtRest'
  BY <1>1, ConstantsAssumption DEF AtRest
<1>10. LastOf(r)
  BY <1>2, Lengths DEF LastOf
<1>11. \A i \in DOMAIN child_objects_ : LevelAt(i)' = 2
  BY <1>4 DEF AtRest
<1>12. Stopping(u)'
  <2>1. LastOf(todo[u])' /\ LastOf(list[u])'
    BY <1>7, <1>10 DEF LastOf
  <2>2. \A i \in DOMAIN child_objects_ : i < Len(r) \/ i = Len(r)
    BY <1>2, Lengths
  <2>3. QED
    BY <1>2, <1>7, <1>11, <2>1, <2>2 DEF Stopping
<1>13. Progress(u)'
  BY <1>7, <1>12 DEF Progress
<1>14. \A v \in Users : pc[v] /= "join"
  BY NoJoiners
<1>15. QED
  BY <1>1, <1>3, <1>5, <1>6, <1>8, <1>9, <1>13, <1>14, OneMoves

\* The child at the head of todo, while the last ones come first.
LEMMA NextLast ==
    ASSUME Types, NEW u \in Users, LastOf(todo[u]), todo[u] /= <<>>
    PROVE  \E n \in DOMAIN child_objects_, t \in Seq(Children) :
              /\ n \in Nat \ {0} /\ n = Len(todo[u]) /\ Head(todo[u]) = child_objects_[n]
              /\ Tail(todo[u]) = t /\ Len(t) = n - 1
              /\ LastOf(t)
<1>1. PICK n \in Nat, m \in Nat :
        /\ n = Len(todo[u]) /\ m = Len(child_objects_) /\ n /= 0
        /\ DOMAIN child_objects_ = 1 .. m /\ Head(todo[u]) = todo[u][1]
  BY Lengths
<1>2. n \in 1 .. m /\ n + 1 - 1 = n /\ 1 \in 1 .. n /\ n - 1 <= m
  <2>1. n <= m /\ n /= 0
    BY <1>1 DEF LastOf
  <2>2. QED
    BY <2>1
<1>3. Head(todo[u]) = child_objects_[n]
  BY <1>1, <1>2 DEF LastOf
<1>4. PICK t \in Seq(Children) :
        t = Tail(todo[u]) /\ Len(t) = n - 1 /\ \A i \in 1 .. n - 1 : t[i] = todo[u][i + 1]
  <2>1. todo[u] \in Seq(Children)
    BY Lengths
  <2>2. /\ Tail(todo[u]) \in Seq(Children) /\ Len(Tail(todo[u])) = n - 1
        /\ \A i \in 1 .. n - 1 : Tail(todo[u])[i] = todo[u][i + 1]
    BY <2>1, <1>1
  <2>3. QED
    BY <2>2
<1>5. LastOf(t)
  <2>1. \A i \in 1 .. n - 1 : i + 1 \in 1 .. n /\ n + 1 - (i + 1) = (n - 1) + 1 - i
    OBVIOUS
  <2>2. \A i \in 1 .. n : todo[u][i] = child_objects_[n + 1 - i]
    BY <1>1 DEF LastOf
  <2>3. \A i \in 1 .. n - 1 : t[i] = child_objects_[(n - 1) + 1 - i]
    BY <2>1, <2>2, <1>4
  <2>4. QED
    BY <2>3, <1>1, <1>2, <1>4 DEF LastOf
<1>6. QED
  BY <1>1, <1>2, <1>3, <1>4, <1>5

LEMMA OrderlyStopChild ==
    ASSUME Orderly, NEW u \in Users, StopChild(u), failures = 0, failures' = 0 PROVE Orderly'
<1> USE DEF Orderly
<1>1. /\ pc[u] = "stop" /\ todo[u] /= <<>>
      /\ UNCHANGED <<lock_, active_state_, synchronous_, child_objects_, op, list, errors>>
      /\ Becomes(Head(todo[u]), IF child[Head(todo[u])] = "active" THEN "stopping"
                                ELSE child[Head(todo[u])])
      /\ IF synchronous_ THEN pc' = [pc EXCEPT ![u] = "sync"] /\ UNCHANGED todo
         ELSE todo' = [todo EXCEPT ![u] = Tail(todo[u])] /\ UNCHANGED pc
  BY DEF StopChild, Throws, At, Todo
<1>2. Stopping(u) /\ Placed(u) /\ lock_ = u /\ Locked(u) /\ LastOf(todo[u])
  BY <1>1 DEF Progress, LockHeld, Locked, Stopping
<1>3. PICK n \in DOMAIN child_objects_, t \in Seq(Children) :
        /\ n \in Nat \ {0} /\ n = Len(todo[u]) /\ Head(todo[u]) = child_objects_[n]
        /\ Tail(todo[u]) = t /\ Len(t) = n - 1
        /\ LastOf(t)
  BY <1>1, <1>2, NextLast
<1>4. /\ \A i \in DOMAIN child_objects_ : i <= n => LevelAt(i) = 2
      /\ \A i \in DOMAIN child_objects_ : i > n => /\ LevelAt(i) <= 1
                                                   /\ synchronous_ => LevelAt(i) = 0
  <2>1. DOMAIN child_objects_ \subseteq Nat
    BY Lengths
  <2>2. \A i \in DOMAIN child_objects_ :
          IF i < n \/ i = n THEN LevelAt(i) = 2
          ELSE LevelAt(i) <= 1 /\ (synchronous_ /\ i > n => LevelAt(i) = 0)
    BY <1>1, <1>2, <1>3 DEF Stopping
  <2>3. QED
    BY <1>3, <2>1, <2>2
<1>5. /\ child' \in [Children -> States] /\ LevelAt(n)' = 1
      /\ \A i \in DOMAIN child_objects_ : i /= n => LevelAt(i)' = LevelAt(i)
  <2>1. child[child_objects_[n]] = "active"
    <3>1. LevelAt(n) = 2
      BY <1>3, <1>4
    <3>2. QED
      BY <3>1 DEF LevelAt, Level
  <2>2. Becomes(child_objects_[n], "stopping") /\ child_objects_' = child_objects_
    BY <1>1, <1>3, <2>1
  <2>3. Types /\ OwnedOnce /\ "stopping" \in States
    BY DEF States
  <2>4. QED
    BY <2>2, <2>3, OneChild
<1>6. /\ \A i \in DOMAIN child_objects_ : i < n => LevelAt(i)' = 2
      /\ LevelAt(n)' = 1
      /\ \A i \in DOMAIN child_objects_ : i > n => /\ LevelAt(i)' <= 1
                                                   /\ synchronous_ => LevelAt(i)' = 0
  <2>1. DOMAIN child_objects_ \subseteq Nat
    BY Lengths
  <2>2. QED
    BY <2>1, <1>3, <1>4, <1>5
<1>7. Types'
  BY <1>1, <1>3, <1>5 DEF Types, Places
<1>8. OwnedOnce'
  BY <1>1 DEF OwnedOnce
<1>9. InOrder'
  <2>1. DOMAIN child_objects_ \subseteq Nat
    BY Lengths
  <2>2. ASSUME NEW i \in DOMAIN child_objects_, NEW j \in DOMAIN child_objects_, i < j
        PROVE  LevelAt(i)' >= LevelAt(j)' /\ (synchronous_ /\ LevelAt(i)' = 1 => LevelAt(j)' = 0)
    <3>1. CASE i < n
      <4>1. LevelAt(i)' = 2
        BY <1>6, <3>1
      <4>2. LevelAt(j)' \in {0, 1, 2}
        BY DEF LevelAt, Level
      <4>3. QED
        BY <4>1, <4>2
    <3>2. CASE i >= n
      <4>1. j > n
        BY <2>1, <2>2, <3>2, <1>3
      <4>2. LevelAt(j)' <= 1 /\ (synchronous_ => LevelAt(j)' = 0) /\ LevelAt(j)' \in {0, 1, 2}
        BY <4>1, <1>6 DEF LevelAt, Level
      <4>3. CASE i = n
        BY <4>2, <4>3, <1>6
      <4>4. CASE i > n
        <5>1. LevelAt(i)' = LevelAt(i) /\ LevelAt(j)' = LevelAt(j)
          BY <1>5, <4>1, <4>4, <1>3, <2>1
        <5>2. QED
          BY <5>1, <2>2 DEF InOrder
      <4>5. QED
        BY <3>2, <4>3, <4>4, <1>3, <2>1
    <3>3. QED
      BY <3>1, <3>2, <1>3, <2>1
  <2>3. QED
    BY <2>2, <1>1 DEF InOrder
<1>10. AtRest'
  BY <1>1, <1>2, ConstantsAssumption DEF AtRest, Stopping
<1>11. \A v \in Users : v /= u => Unmoved(v)
  BY <1>1 DEF Types, Unmoved
<1>12. pc'[u] = (IF synchronous_ THEN "sync" ELSE "stop") /\ op'[u] = op[u] /\ list'[u] = list[u]
       /\ todo'[u] = IF synchronous_ THEN todo[u] ELSE t
  BY <1>1, <1>3 DEF Types
<1>13. Placed(u)' /\ (lock_' = u <=> Locked(u)')
  BY <1>1, <1>2, <1>12 DEF Placed, Locked
<1>14. Progress(u)'
  <2>1. LastOf(todo[u])'
    BY <1>1, <1>2, <1>3, <1>12 DEF LastOf
  <2>2. LastOf(list[u])' /\ Len(list'[u]) = Len(child_objects_')
    BY <1>1, <1>2, <1>12 DEF LastOf, Stopping
  <2>3. DOMAIN child_objects_ \subseteq Nat
    BY Lengths
  <2>4. CASE synchronous_
    <3>1. /\ pc'[u] = "sync" /\ todo'[u] = todo[u] /\ todo'[u] /= <<>> /\ Len(todo'[u]) = n
      BY <1>1, <1>3, <1>12, <2>4
    <3>2. \A i \in DOMAIN child_objects_ :
            IF i < n THEN LevelAt(i)' = 2
            ELSE LevelAt(i)' <= 1 /\ (synchronous_ /\ i > n => LevelAt(i)' = 0)
      BY <1>3, <1>6, <2>3
    <3>3. Stopping(u)'
      BY <1>1, <1>2, <2>1, <2>2, <2>4, <3>1, <3>2 DEF Stopping
    <3>4. QED
      BY <3>1, <3>3 DEF Progress
  <2>5. CASE ~synchronous_
    <3>1. pc'[u] = "stop" /\ Len(todo'[u]) = n - 1
      BY <1>3, <1>12, <2>5
    <3>2. \A i \in DOMAIN child_objects_ :
            IF i < n - 1 \/ i = n - 1 THEN LevelAt(i)' = 2 ELSE LevelAt(i)' <= 1
      BY <1>3, <1>6, <2>3
    <3>3. Stopping(u)'
      BY <1>1, <1>2, <2>1, <2>2, <2>5, <3>1, <3>2 DEF Stopping
    <3>4. QED
      BY <3>1, <3>3 DEF Progress
  <2>6. QED
    BY <2>4, <2>5
<1>15. \A v \in Users : pc[v] /= "join"
  BY <1>2, NoJoiners DEF Stopping
<1>16. QED
  BY <1>1, <1>2, <1>7, <1>8, <1>9, <1>10, <1>11, <1>13, <1>14, <1>15, OneMoves

LEMMA OrderlyWaitAtOnce ==
    ASSUME Orderly, NEW u \in Users, WaitAtOnce(u), failures = 0, failures' = 0 PROVE Orderly'
<1> USE DEF Orderly
<1>1. /\ pc[u] = "sync"
      /\ UNCHANGED <<lock_, active_state_, synchronous_, child_objects_, op, list, errors>>
      /\ Becomes(Head(todo[u]), "not_active")
      /\ pc' = [pc EXCEPT ![u] = "stop"] /\ todo' = [todo EXCEPT ![u] = Tail(todo[u])]
  BY DEF WaitAtOnce, Throws, Waited, At, Todo
<1>2. /\ Stopping(u) /\ Placed(u) /\ lock_ = u /\ Locked(u)
      /\ LastOf(todo[u]) /\ todo[u] /= <<>> /\ synchronous_
  BY <1>1 DEF Progress, LockHeld, Locked, Stopping
<1>3. PICK n \in DOMAIN child_objects_, t \in Seq(Children) :
        /\ n \in Nat \ {0} /\ n = Len(todo[u]) /\ Head(todo[u]) = child_objects_[n]
        /\ Tail(todo[u]) = t /\ Len(t) = n - 1
        /\ LastOf(t)
  BY <1>1, <1>2, NextLast
<1>4. /\ child' \in [Children -> States] /\ LevelAt(n)' = 0
      /\ \A i \in DOMAIN child_objects_ : i /= n => LevelAt(i)' = LevelAt(i)
  <2>1. Becomes(child_objects_[n], "not_active") /\ child_objects_' = child_objects_
    BY <1>1, <1>3
  <2>2. Types /\ OwnedOnce /\ "not_active" \in States
    BY DEF States
  <2>3. QED
    BY <2>1, <2>2, OneChild
<1>5. DOMAIN child_objects_ \subseteq Nat
  BY Lengths
<1>6. \A i \in DOMAIN child_objects_ : LevelAt(i)' = IF i < n THEN 2 ELSE 0
  <2>1. \A i \in DOMAIN child_objects_ :
          IF i < n THEN LevelAt(i) = 2 ELSE i > n => LevelAt(i) = 0
    BY <1>1, <1>2, <1>3 DEF Stopping
  <2>2. QED
    BY <2>1, <1>3, <1>4, <1>5
<1>7. Types'
  BY <1>1, <1>3, <1>4 DEF Types, Places
<1>8. OwnedOnce' /\ InOrder'
  BY <1>1, <1>3, <1>5, <1>6 DEF OwnedOnce, InOrder
<1>9. AtRest'
  BY <1>1, <1>2, ConstantsAssumption DEF AtRest, Stopping
<1>10. \A v \in Users : v /= u => Unmoved(v)
  BY <1>1 DEF Types, Unmoved
<1>11. pc'[u] = "stop" /\ op'[u] = op[u] /\ list'[u] = list[u] /\ todo'[u] = t
  BY <1>1, <1>3 DEF Types
<1>12. Placed(u)' /\ (lock_' = u <=> Locked(u)')
  BY <1>1, <1>2, <1>11 DEF Placed, Locked
<1>13. Progress(u)'
  <2>1. LastOf(todo[u])'
    BY <1>1, <1>3, <1>11 DEF LastOf
  <2>2. LastOf(list[u])' /\ Len(list'[u]) = Len(child_objects_')
    BY <1>1, <1>2, <1>11 DEF LastOf, Stopping
  <2>3. \A i \in DOMAIN child_objects_ :
          IF i < n - 1 \/ i = n - 1 THEN LevelAt(i)' = 2
          ELSE LevelAt(i)' <= 1 /\ LevelAt(i)' = 0
    BY <1>3, <1>5, <1>6
  <2>4. Stopping(u)'
    BY <1>1, <1>2, <1>3, <1>11, <2>1, <2>2, <2>3 DEF Stopping
  <2>5. QED
    BY <1>11, <2>4 DEF Progress
<1>14. \A v \in Users : pc[v] /= "join"
  BY <1>2, NoJoiners DEF Stopping
<1>15. QED
  BY <1>1, <1>2, <1>7, <1>8, <1>9, <1>10, <1>12, <1>13, <1>14, OneMoves

LEMMA OrderlyStopped ==
    ASSUME Orderly, NEW u \in Users, Stopped(u) PROVE Orderly'
<1> USE DEF Orderly
<1>1. /\ pc[u] = "stop" /\ todo[u] = <<>> /\ ~errors[u] /\ op[u] \in {"deactivate", "clear"}
  BY DEF Stopped, LockHeld, Placed, Types
<1>2. /\ active_state_' = "deactivating"
      /\ UNCHANGED <<synchronous_, child_objects_, child>>
      /\ IF op[u] = "deactivate" THEN Leave(u)
         ELSE At(u, "join") /\ Todo(u, list[u]) /\ UNCHANGED <<lock_, list, errors, op>>
  BY <1>1 DEF Stopped
<1>3. Stopping(u) /\ Placed(u) /\ lock_ = u
  BY <1>1 DEF Progress, LockHeld, Locked
<1>4. IF op[u] = "deactivate"
      THEN /\ lock_' = NoUser /\ pc' = [pc EXCEPT ![u] = "idle"] /\ op' = [op EXCEPT ![u] = "none"]
           /\ todo' = [todo EXCEPT ![u] = <<>>] /\ list' = [list EXCEPT ![u] = <<>>]
           /\ errors' = [errors EXCEPT ![u] = FALSE]
      ELSE /\ pc' = [pc EXCEPT ![u] = "join"] /\ todo' = [todo EXCEPT ![u] = list[u]]
           /\ UNCHANGED <<lock_, list, errors, op>>
  BY <1>2 DEF Leave, Returns, At, Todo, Does
<1>5. Types'
  <2>1. CASE op[u] = "deactivate"
    <3>1. /\ lock_' = NoUser /\ pc' = [pc EXCEPT ![u] = "idle"] /\ op' = [op EXCEPT ![u] = "none"]
          /\ todo' = [todo EXCEPT ![u] = <<>>] /\ list' = [list EXCEPT ![u] = <<>>]
          /\ errors' = [errors EXCEPT ![u] = FALSE]
      BY <1>4, <2>1
    <3>2. /\ active_state_' = "deactivating"
          /\ UNCHANGED <<synchronous_, child_objects_, child>>
      BY <1>2
    <3>3. /\ lock_' \in Users \cup {NoUser} /\ pc' \in [Users -> Places]
          /\ op' \in [Users -> Operations]
      BY <3>1 DEF Types, Places, Operations
    <3>4. todo' \in [Users -> Seq(Children)] /\ list' \in [Users -> Seq(Children)]
      BY <3>1 DEF Types
    <3>5. errors' = [v \in Users |-> FALSE]
      BY <3>1 DEF Types
    <3>6. QED
      BY <3>2, <3>3, <3>4, <3>5 DEF Types
  <2>2. CASE op[u] /= "deactivate"
    <3>1. list[u] \in Seq(Children)
      BY Lengths
    <3>2. QED
      BY <1>2, <1>4, <2>2, <3>1 DEF Types, Places, Operations
  <2>3. QED
    BY <2>1, <2>2
<1>6. \A i \in DOMAIN child_objects_ : LevelAt(i)' = LevelAt(i)
  BY <1>2, LevelsKept
<1>7. OwnedOnce' /\ InOrder'
  BY <1>2, <1>6 DEF OwnedOnce, InOrder
<1>8. \A v \in Users : v /= u => Unmoved(v)
  BY <1>4 DEF Types, Unmoved
<1>9. AtRest'
  <2>1. \A i \in DOMAIN child_objects_ : i \in Nat /\ i > 0
    BY Lengths
  <2>2. \A i \in DOMAIN child_objects_ : LevelAt(i) <= 1 /\ (synchronous_ => LevelAt(i) = 0)
    BY <1>1, <1>3, <2>1 DEF Stopping
  <2>3. QED
    BY <1>2, <1>6, <2>2 DEF AtRest
<1>10. IF op[u] = "deactivate" THEN list'[u] = <<>> /\ pc'[u] = "idle" /\ op'[u] = "none"
       ELSE list'[u] = list[u] /\ todo'[u] = list[u] /\ pc'[u] = "join" /\ op'[u] = "clear"
  BY <1>1, <1>4 DEF Types
<1>11. Placed(u)' /\ (lock_' = u <=> Locked(u)') /\ lock_' \in {u, NoUser}
  BY <1>1, <1>3, <1>4, <1>10, ConstantsAssumption DEF Placed, Locked
<1>12. Progress(u)'
  <2>1. CASE op[u] = "deactivate"
    BY <1>10, <2>1 DEF Progress
  <2>2. CASE op[u] /= "deactivate"
    <3>1. LastOf(todo[u])' /\ Len(todo'[u]) = Len(child_objects_)
      BY <1>2, <1>3, <1>10, <2>2 DEF Stopping, LastOf
    <3>2. \A i \in DOMAIN child_objects_ : ~(i > Len(child_objects_))
      BY Lengths
    <3>3. Joining(u)'
      BY <1>2, <3>1, <3>2 DEF Joining
    <3>4. QED
      BY <1>10, <2>2, <3>3 DEF Progress
  <2>3. QED
    BY <2>1, <2>2
<1>13. \A v \in Users : pc[v] /= "join"
  BY <1>3, NoJoiners DEF Stopping
<1>14. QED
  BY <1>3, <1>5, <1>7, <1>8, <1>9, <1>11, <1>12, <1>13, OneMoves

LEMMA Return ==
    ASSUME Types, NEW u \in Users, Returns(u)
    PROVE  /\ pc' \in [Users -> Places] /\ op' \in [Users -> Operations]
           /\ todo' \in [Users -> Seq(Children)] /\ list' \in [Users -> Seq(Children)]
           /\ errors' = [v \in Users |-> FALSE]
           /\ Placed(u)' /\ ~Locked(u)' /\ Progress(u)'
           /\ pc'[u] = "idle" /\ \A v \in Users : v /= u => Unmoved(v)
<1>1. /\ pc' = [pc EXCEPT ![u] = "idle"] /\ op' = [op EXCEPT ![u] = "none"]
      /\ todo' = [todo EXCEPT ![u] = <<>>] /\ list' = [list EXCEPT ![u] = <<>>]
      /\ errors' = [errors EXCEPT ![u] = FALSE]
  BY DEF Returns, At, Does, Todo
<1>2. pc' \in [Users -> Places] /\ op' \in [Users -> Operations]
  BY <1>1 DEF Types, Places, Operations
<1>3. todo' \in [Users -> Seq(Children)] /\ list' \in [Users -> Seq(Children)]
  BY <1>1 DEF Types
<1>4. errors' = [v \in Users |-> FALSE]
  BY <1>1 DEF Types
<1>5. pc'[u] = "idle" /\ op'[u] = "none" /\ list'[u] = <<>>
  BY <1>1 DEF Types
<1>6. Placed(u)' /\ ~Locked(u)' /\ Progress(u)'
  BY <1>5 DEF Placed, Locked, Progress
<1>7. \A v \in Users : v /= u => Unmoved(v)
  BY <1>1 DEF Types, Unmoved
<1>8. QED
  BY <1>2, <1>3, <1>4, <1>5, <1>6, <1>7

\* The one who waits for the children goes on while others may hold the lock.
LEMMA OrderlyJoinChild ==
    ASSUME Orderly, OneWaiter, NEW u \in Users, JoinChild(u), failures = 0, failures' = 0
    PROVE  Orderly'
<1> USE DEF Orderly
<1>1. /\ pc[u] = "join" /\ todo[u] /= <<>>
      /\ UNCHANGED <<lock_, active_state_, synchronous_, child_objects_, pc, op, list, errors>>
      /\ Becomes(Head(todo[u]), "not_active") /\ todo' = [todo EXCEPT ![u] = Tail(todo[u])]
  BY DEF JoinChild, Throws, Waited, Todo
<1>2. Joining(u) /\ LastOf(todo[u]) /\ u \in Waiters
  BY <1>1 DEF Progress, Joining, LockHeld, Placed
<1>3. PICK n \in DOMAIN child_objects_, t \in Seq(Children) :
        /\ n \in Nat \ {0} /\ n = Len(todo[u]) /\ Head(todo[u]) = child_objects_[n]
        /\ Tail(todo[u]) = t /\ Len(t) = n - 1
        /\ LastOf(t)
  BY <1>1, <1>2, NextLast
<1>4. /\ child' \in [Children -> States] /\ LevelAt(n)' = 0
      /\ \A i \in DOMAIN child_objects_ : i /= n => LevelAt(i)' = LevelAt(i)
  <2>1. Becomes(child_objects_[n], "not_active") /\ child_objects_' = child_objects_
    BY <1>1, <1>3
  <2>2. Types /\ OwnedOnce /\ "not_active" \in States
    BY DEF States
  <2>3. QED
    BY <2>1, <2>2, OneChild
<1>5. DOMAIN child_objects_ \subseteq Nat
  BY Lengths
<1>6. \A i \in DOMAIN child_objects_ : i >= n => LevelAt(i)' = 0
  <2>1. \A i \in DOMAIN child_objects_ : i > n => LevelAt(i) = 0
    BY <1>2, <1>3 DEF Joining
  <2>2. QED
    BY <2>1, <1>3, <1>4, <1>5
<1>7. Types'
  BY <1>1, <1>3, <1>4 DEF Types
<1>8. OwnedOnce' /\ LockHeld'
  BY <1>1 DEF OwnedOnce, LockHeld, Placed, Locked
<1>9. InOrder'
  <2>1. ASSUME NEW i \in DOMAIN child_objects_, NEW j \in DOMAIN child_objects_, i < j
        PROVE  LevelAt(i)' >= LevelAt(j)' /\ (synchronous_ /\ LevelAt(i)' = 1 => LevelAt(j)' = 0)
    <3>1. CASE j >= n
      BY <1>6, <3>1 DEF LevelAt, Level
    <3>2. CASE j < n
      <4>1. LevelAt(i)' = LevelAt(i) /\ LevelAt(j)' = LevelAt(j)
        BY <1>3, <1>4, <1>5, <2>1, <3>2
      <4>2. QED
        BY <4>1, <2>1 DEF InOrder
    <3>3. QED
      BY <3>1, <3>2, <1>3, <1>5
  <2>2. QED
    BY <2>1, <1>1 DEF InOrder
<1>10. AtRest'
  <2>1. active_state_ = "deactivating" /\ active_state_' = "deactivating"
    BY <1>1, <1>2 DEF Joining
  <2>2. \A i \in DOMAIN child_objects_ : LevelAt(i)' <= 1 /\ (synchronous_ => LevelAt(i)' = 0)
    <3>1. \A i \in DOMAIN child_objects_ : LevelAt(i) <= 1 /\ (synchronous_ => LevelAt(i) = 0)
      BY <2>1 DEF AtRest
    <3>2. QED
      BY <3>1, <1>4
  <2>3. QED
    BY <2>1, <2>2, <1>1 DEF AtRest
<1>11. Progress(u)'
  <2>1. todo'[u] = t
    BY <1>1, <1>3 DEF Types
  <2>2. LastOf(todo[u])'
    BY <1>1, <1>3, <2>1 DEF LastOf
  <2>3. \A i \in DOMAIN child_objects_ : i > n - 1 => LevelAt(i)' = 0
    BY <1>3, <1>5, <1>6
  <2>4. Joining(u)'
    BY <1>1, <1>2, <1>3, <2>1, <2>2, <2>3 DEF Joining
  <2>5. QED
    BY <1>1, <2>4 DEF Progress
<1>12. ASSUME NEW v \in Users, v /= u PROVE Progress(v)'
  <2>1. pc[v] \notin {"join", "start", "stop", "sync"} /\ pc' = pc /\ Progress(v)
    BY <1>1, <1>2, <1>12, OneJoiner DEF Progress, Joining, Starting, Stopping
  <2>2. todo'[v] = todo[v] /\ list' = list
    BY <1>1, <1>12 DEF Types
  <2>3. QED
    BY <1>1, <2>1, <2>2 DEF Progress, Adopting, Owned
<1>13. QED
  BY <1>7, <1>8, <1>9, <1>10, <1>11, <1>12

LEMMA OrderlyJoinedUnderLock ==
    ASSUME Orderly, OneWaiter, NEW u \in Users, JoinedUnderLock(u) PROVE Orderly'
<1> USE DEF Orderly
<1>1. /\ pc[u] = "join" /\ op[u] = "clear" /\ ~errors[u] /\ u \in Waiters /\ lock_ = u
  BY DEF JoinedUnderLock, LockHeld, Placed, Types, Locked
<1>2. /\ active_state_' = "not_active" /\ child_objects_' = <<>> /\ Returns(u) /\ lock_' = NoUser
      /\ UNCHANGED <<synchronous_, child>>
  BY <1>1 DEF JoinedUnderLock, Leave
<1>3. Types'
  BY <1>2, Return DEF Types
<1>4. OwnedOnce' /\ InOrder' /\ AtRest'
  BY <1>2 DEF OwnedOnce, InOrder, AtRest
<1>5. \A v \in Users : v /= u => Unmoved(v) /\ pc[v] /= "join"
  BY <1>1, <1>2, Return, OneJoiner
<1>6. Placed(u)' /\ (lock_' = u <=> Locked(u)') /\ Progress(u)'
  BY <1>2, Return, ConstantsAssumption
<1>7. QED
  BY <1>1, <1>2, <1>3, <1>4, <1>5, <1>6, OneMoves

LEMMA OrderlyLook ==
    ASSUME Orderly, NEW u \in Waiters, pc[u] \in {"idle", "sleep"}, Look(u) PROVE Orderly'
<1> DEFINE r == LastFirst(child_objects_)
<1>1. /\ lock_ = NoUser
      /\ pc' = [pc EXCEPT ![u] = CASE active_state_ = "active" -> "sleep"
                                   [] active_state_ = "deactivating" -> "join"
                                   [] active_state_ = "not_active" -> "idle"]
      /\ todo' = [todo EXCEPT ![u] = IF active_state_ = "deactivating" THEN r ELSE <<>>]
      /\ op' = [op EXCEPT ![u] = IF active_state_ = "not_active" THEN "none" ELSE "wait"]
      /\ UNCHANGED <<lock_, active_state_, synchronous_, child_objects_, child, list, errors>>
  BY DEF Look, At, Todo, Does
<1>2. /\ child_objects_ \in Seq(Children) /\ r \in Seq(Children) /\ Len(r) = Len(child_objects_)
      /\ \A i \in 1 .. Len(child_objects_) : r[i] = child_objects_[Len(child_objects_) + 1 - i]
  <2>1. child_objects_ \in Seq(Children)
    BY DEF Orderly, Types
  <2>2. QED
    BY <2>1, Reversed DEF LastFirst
<1> HIDE DEF r
<1> USE DEF Orderly
<1>3. PICK place \in {"sleep", "join", "idle"} :
        /\ pc' = [pc EXCEPT ![u] = place]
        /\ place = "sleep" <=> active_state_ = "active"
        /\ place = "join" <=> active_state_ = "deactivating"
        /\ place = "idle" <=> active_state_ = "not_active"
  <2>1. active_state_ \in {"active", "deactivating", "not_active"}
    BY DEF Types
  <2>2. CASE active_state_ = "active"
    BY <1>1, <2>2
  <2>3. CASE active_state_ = "deactivating"
    BY <1>1, <2>3
  <2>4. CASE active_state_ = "not_active"
    BY <1>1, <2>4
  <2>5. QED
    BY <2>1, <2>2, <2>3, <2>4
<1>u. u \in Users /\ ~Locked(u)
  BY <1>1, ConstantsAssumption DEF LockHeld
<1>4. Types'
  <2>1. pc' \in [Users -> Places] /\ op' \in [Users -> Operations]
    BY <1>1, <1>3 DEF Types, Places, Operations
  <2>2. todo' \in [Users -> Seq(Children)]
    <3>1. (IF active_state_ = "deactivating" THEN r ELSE <<>>) \in Seq(Children)
      BY <1>2
    <3>2. PICK s \in Seq(Children) : todo' = [todo EXCEPT ![u] = s]
      BY <1>1, <3>1
    <3>3. QED
      BY <3>2 DEF Types
  <2>3. QED
    BY <1>1, <2>1, <2>2 DEF Types
<1>5. \A i \in DOMAIN child_objects_ : LevelAt(i)' = LevelAt(i)
  BY <1>1, LevelsKept
<1>6. OwnedOnce' /\ InOrder'
  BY <1>1, <1>5 DEF OwnedOnce, InOrder
<1>7. pc'[u] = place /\ list' = list /\ \A v \in Users : v /= u => Unmoved(v)
  BY <1>1, <1>3, <1>u DEF Types, Unmoved
<1>8. AtRest'
  <2>1. \A v \in Users : pc[v] /= "start"
    BY <1>1, ConstantsAssumption DEF LockHeld, Locked
  <2>2. QED
    BY <1>1, <1>5, <2>1 DEF AtRest
<1>9. op'[u] = (IF place = "idle" THEN "none" ELSE "wait")
  BY <1>1, <1>3, <1>u DEF Types
<1>10. Placed(u)' /\ (lock_' = u <=> Locked(u)')
  <2>1. lock_' /= u
    BY <1>1, <1>u, ConstantsAssumption
  <2>2. op'[u] \in {"none", "wait"} /\ (op'[u] = "none" <=> pc'[u] = "idle")
    BY <1>7, <1>9
  <2>3. QED
    BY <1>7, <2>1, <2>2 DEF Placed, Locked
<1>11. Progress(u)'
  <2>1. CASE place = "join"
    <3>1. todo'[u] = r
      BY <1>1, <1>3, <2>1, <1>u DEF Types
    <3>2. LastOf(todo[u])'
      BY <1>1, <1>2, <3>1, Lengths DEF LastOf
    <3>3. \A i \in DOMAIN child_objects_ : ~(i > Len(todo'[u]))
      BY <1>2, <3>1, Lengths
    <3>4. Joining(u)'
      BY <1>1, <1>3, <2>1, <3>2, <3>3 DEF Joining
    <3>5. QED
      BY <1>7, <2>1, <3>4 DEF Progress
  <2>2. CASE place \in {"idle", "sleep"}
    <3>1. list[u] = <<>>
      BY <1>u DEF Progress
    <3>2. QED
      BY <1>7, <2>2, <3>1 DEF Progress
  <2>3. QED
    BY <2>1, <2>2
<1>12. \A v \in Users : pc[v] = "join" => JoinersKept
  BY <1>1, NothingForJoiners
<1>13. QED
  BY <1>1, <1>u, <1>4, <1>6, <1>7, <1>8, <1>10, <1>11, <1>12, OneMoves

LEMMA OrderlyEndWait ==
    ASSUME Orderly, OneWaiter, NEW u \in Users, EndWait(u) PROVE Orderly'
<1> USE DEF Orderly
<1>1. /\ pc[u] = "join" /\ op[u] = "wait" /\ todo[u] = <<>> /\ ~errors[u] /\ u \in Waiters
      /\ Joining(u)
  BY DEF EndWait, LockHeld, Placed, Types, Progress
<1>2. /\ active_state_' = "not_active" /\ Returns(u) /\ lock_ = NoUser /\ lock_' = NoUser
      /\ UNCHANGED <<synchronous_, child_objects_, child>>
  BY <1>1 DEF EndWait, Joining
<1>3. Types'
  BY <1>2, Return DEF Types
<1>4. \A i \in DOMAIN child_objects_ : LevelAt(i)' = LevelAt(i)
  BY <1>2, LevelsKept
<1>5. \A i \in DOMAIN child_objects_ : LevelAt(i) = 0
  <2>1. \A i \in DOMAIN child_objects_ : i > 0
    BY Lengths
  <2>2. QED
    BY <1>1, <2>1 DEF Joining
<1>6. OwnedOnce' /\ InOrder' /\ AtRest'
  BY <1>2, <1>4, <1>5 DEF OwnedOnce, InOrder, AtRest
<1>7. \A v \in Users : v /= u => Unmoved(v) /\ pc[v] /= "join"
  BY <1>1, <1>2, Return, OneJoiner
<1>8. Placed(u)' /\ (lock_' = u <=> Locked(u)') /\ Progress(u)'
  BY <1>2, Return, ConstantsAssumption
<1>9. QED
  BY <1>2, <1>3, <1>6, <1>7, <1>8, OneMoves

-----------------------------------------------------------------------------
(* The list of children, and their own steps.                                *)

LEMMA OrderlyAddToActive ==
    ASSUME Orderly, NEW u \in Users, NEW c \in Children, AddToActive(u, c),
           failures = 0, failures' = 0
    PROVE  Orderly'
<1> USE DEF Orderly
<1>1. /\ pc[u] = "idle" /\ lock_ = NoUser /\ active_state_ = "active" /\ c \notin Owned
      /\ child' = [child EXCEPT ![c] = "active"] /\ Push(c)
      /\ UNCHANGED <<lock_, active_state_, synchronous_, pc, op, todo, list, errors>>
  BY DEF AddToActive, Enter, Becomes, Throws, locals
<1>2. /\ child' \in [Children -> States] /\ child_objects_' \in Seq(Children) /\ OwnedOnce'
      /\ DOMAIN child_objects_' = 1 .. Len(child_objects_) + 1
      /\ \A i \in DOMAIN child_objects_ : LevelAt(i)' = LevelAt(i)
      /\ \A i : i = Len(child_objects_) + 1 => LevelAt(i)' = 2
  <2>1. Types /\ OwnedOnce /\ "active" \in States
    BY DEF States
  <2>2. QED
    BY <1>1, <2>1, Added
<1>3. \A i \in DOMAIN child_objects_' : LevelAt(i)' = 2
  <2>1. \A i \in DOMAIN child_objects_ : LevelAt(i) = 2
    BY <1>1 DEF AtRest
  <2>2. \A i \in DOMAIN child_objects_' : i \in DOMAIN child_objects_ \/ i = Len(child_objects_) + 1
    BY <1>2, Lengths
  <2>3. QED
    BY <1>2, <2>1, <2>2
<1>4. Types'
  BY <1>1, <1>2 DEF Types
<1>5. AtRest' /\ InOrder'
  BY <1>1, <1>3 DEF AtRest, InOrder
<1>6. Placed(u)' /\ (lock_' = u <=> Locked(u)') /\ Progress(u)'
  <2>1. Placed(u) /\ ~Locked(u) /\ lock_ /= u /\ Progress(u)
    BY <1>1, ConstantsAssumption DEF LockHeld
  <2>2. QED
    BY <1>1, <2>1 DEF Placed, Locked, Progress
<1>7. \A v \in Users : Unmoved(v) /\ pc[v] /= "join"
  BY <1>1, NoJoiners DEF Unmoved
<1>8. QED
  BY <1>1, <1>2, <1>4, <1>5, <1>6, <1>7, OneMoves

\* A child that does not work is added to a composite that is not active.
LEMMA AddedAtRest ==
    ASSUME Orderly, NEW c \in Children, c \notin Owned, active_state_ /= "active",
           \A v \in Users : pc[v] /= "start",
           child' = [child EXCEPT ![c] = "not_active"], Push(c),
           UNCHANGED <<active_state_, synchronous_>>
    PROVE  /\ child' \in [Children -> States] /\ child_objects_' \in Seq(Children) /\ OwnedOnce'
           /\ AtRest' /\ InOrder'
           /\ \A v \in Users : pc[v] = "join" => JoinersKept
<1> USE DEF Orderly
<1>1. /\ child' \in [Children -> States] /\ child_objects_' \in Seq(Children) /\ OwnedOnce'
      /\ DOMAIN child_objects_' = 1 .. Len(child_objects_) + 1
      /\ Len(child_objects_') = Len(child_objects_) + 1
      /\ \A i \in DOMAIN child_objects_ : child_objects_'[i] = child_objects_[i]
      /\ \A i \in DOMAIN child_objects_ : LevelAt(i)' = LevelAt(i)
      /\ \A i : i = Len(child_objects_) + 1 => LevelAt(i)' = 0
  <2>1. Types /\ OwnedOnce /\ "not_active" \in States
    BY DEF States
  <2>2. QED
    BY <2>1, Added
<1>2. PICK m \in Nat : m = Len(child_objects_) /\ DOMAIN child_objects_ = 1 .. m
  BY Lengths
<1>3. \A i \in DOMAIN child_objects_' : i \in DOMAIN child_objects_ \/ i = m + 1
  BY <1>1, <1>2
<1>4. \A i \in DOMAIN child_objects_' : LevelAt(i)' = IF i = m + 1 THEN 0 ELSE LevelAt(i)
  BY <1>1, <1>2, <1>3
<1>5. AtRest'
  <2>1. ASSUME active_state_ = "deactivating", NEW i \in DOMAIN child_objects_'
        PROVE  LevelAt(i)' <= 1 /\ (synchronous_ => LevelAt(i)' = 0)
    BY <2>1, <1>3, <1>4 DEF AtRest
  <2>2. ASSUME active_state_ = "not_active", NEW i \in DOMAIN child_objects_' PROVE LevelAt(i)' = 0
    BY <2>2, <1>3, <1>4 DEF AtRest
  <2>3. QED
    BY <2>1, <2>2 DEF AtRest
<1>6. InOrder'
  <2>1. ASSUME NEW i \in DOMAIN child_objects_', NEW j \in DOMAIN child_objects_', i < j
        PROVE  LevelAt(i)' >= LevelAt(j)' /\ (synchronous_ /\ LevelAt(i)' = 1 => LevelAt(j)' = 0)
    <3>1. CASE j = m + 1
      BY <3>1, <1>4 DEF LevelAt, Level
    <3>2. CASE j /= m + 1
      <4>1. i \in DOMAIN child_objects_ /\ j \in DOMAIN child_objects_ /\ i /= m + 1
        BY <1>2, <1>3, <2>1, <3>2
      <4>2. LevelAt(i)' = LevelAt(i) /\ LevelAt(j)' = LevelAt(j)
        BY <1>1, <4>1
      <4>3. QED
        BY <2>1, <4>1, <4>2 DEF InOrder
    <3>3. QED
      BY <3>1, <3>2
  <2>2. QED
    BY <2>1 DEF InOrder
<1>7. ASSUME NEW v \in Users, pc[v] = "join" PROVE JoinersKept
  <2>1. active_state_ = "deactivating"
    BY <1>7 DEF Progress, Joining
  <2>2. Len(child_objects_') \in Nat /\ Len(child_objects_) <= Len(child_objects_')
    BY <1>1, <1>2
  <2>3. \A i \in DOMAIN child_objects_' : i > Len(child_objects_) => LevelAt(i)' = 0
    BY <1>1, <1>2, <1>3
  <2>4. DOMAIN child_objects_' = 1 .. Len(child_objects_')
    BY <1>1
  <2>5. QED
    BY <1>1, <2>1, <2>2, <2>3, <2>4 DEF JoinersKept
<1>8. QED
  BY <1>1, <1>5, <1>6, <1>7

LEMMA NobodyStarts ==
    ASSUME Orderly, NEW u \in Users, lock_ \in {u, NoUser}, pc[u] /= "start"
    PROVE  \A v \in Users : pc[v] /= "start"
<1>1. Types /\ LockHeld
  BY DEF Orderly
<1>2. \A v \in Users : v /= u => Away(v)
  BY <1>1, Others
<1>3. QED
  BY <1>2 DEF Away

LEMMA OrderlyAddToInactive ==
    ASSUME Orderly, NEW u \in Users, NEW c \in Children, AddToInactive(u, c) PROVE Orderly'
<1> USE DEF Orderly
<1>1. /\ pc[u] = "idle" /\ lock_ = NoUser /\ active_state_ /= "active" /\ c \notin Owned
      /\ UNCHANGED <<active_state_, synchronous_, list, errors>>
  BY DEF AddToInactive, Enter
<1>2. \A v \in Users : pc[v] /= "start"
  BY <1>1, NobodyStarts
<1>3. CASE child[c] = "not_active" /\ Push(c) /\ UNCHANGED <<lock_, child, failures, pc, op, todo>>
  <2>1. child' = [child EXCEPT ![c] = "not_active"]
    BY <1>3 DEF Types
  <2>2. /\ child' \in [Children -> States] /\ child_objects_' \in Seq(Children) /\ OwnedOnce'
        /\ AtRest' /\ InOrder'
        /\ \A v \in Users : pc[v] = "join" => JoinersKept
    BY <1>1, <1>2, <1>3, <2>1, AddedAtRest
  <2>3. Types'
    BY <1>1, <1>3, <2>2 DEF Types
  <2>4. Placed(u)' /\ (lock_' = u <=> Locked(u)') /\ Progress(u)'
    <3>1. Placed(u) /\ ~Locked(u) /\ lock_ /= u /\ Progress(u)
      BY <1>1, ConstantsAssumption DEF LockHeld
    <3>2. QED
      BY <1>1, <1>3, <3>1 DEF Placed, Locked, Progress
  <2>5. \A v \in Users : Unmoved(v)
    BY <1>1, <1>3 DEF Unmoved
  <2>6. QED
    BY <1>1, <1>3, <2>2, <2>3, <2>4, <2>5, OneMoves
<1>4. CASE /\ child[c] = "active" /\ Becomes(c, "stopping")
           /\ lock_' = u /\ At(u, "adopt") /\ Does(u, "add") /\ Todo(u, <<c>>)
           /\ UNCHANGED <<child_objects_, failures>>
  <2>1. /\ pc' = [pc EXCEPT ![u] = "adopt"] /\ op' = [op EXCEPT ![u] = "add"]
        /\ todo' = [todo EXCEPT ![u] = <<c>>] /\ lock_' = u /\ child_objects_' = child_objects_
    BY <1>4 DEF At, Does, Todo
  <2>2. /\ child' \in [Children -> States]
        /\ \A i \in DOMAIN child_objects_ : LevelAt(i)' = LevelAt(i)
    <3>1. Types /\ "stopping" \in States
      BY DEF States
    <3>2. QED
      BY <1>1, <1>4, <3>1, Stranger
  <2>3. Types'
    <3>1. <<c>> \in Seq(Children)
      OBVIOUS
    <3>2. QED
      BY <1>1, <2>1, <2>2, <3>1 DEF Types, Places, Operations
  <2>4. OwnedOnce' /\ InOrder'
    BY <1>1, <2>1, <2>2 DEF OwnedOnce, InOrder
  <2>5. AtRest'
    BY <1>1, <1>2, <2>1, <2>2 DEF AtRest
  <2>6. \A v \in Users : v /= u => Unmoved(v)
    BY <1>1, <2>1 DEF Types, Unmoved
  <2>7. pc'[u] = "adopt" /\ op'[u] = "add" /\ todo'[u] = <<c>>
    BY <2>1 DEF Types
  <2>8. Placed(u)' /\ (lock_' = u <=> Locked(u)')
    BY <2>1, <2>7 DEF Placed, Locked
  <2>9. Progress(u)'
    BY <1>1, <2>1, <2>7 DEF Progress, Adopting, Owned
  <2>10. ASSUME NEW v \in Users, pc[v] = "join" PROVE JoinersKept
    <3>1. active_state_' = "deactivating"
      BY <1>1, <2>10 DEF Progress, Joining
    <3>2. Len(child_objects_) \in Nat /\ DOMAIN child_objects_ = 1 .. Len(child_objects_)
      BY Lengths
    <3>3. QED
      BY <2>1, <2>2, <3>1, <3>2 DEF JoinersKept
  <2>11. QED
    BY <1>1, <2>1, <2>3, <2>4, <2>5, <2>6, <2>8, <2>9, <2>10, OneMoves
<1>5. QED
  BY <1>3, <1>4 DEF AddToInactive

LEMMA OrderlyAdopt ==
    ASSUME Orderly, NEW u \in Users, Adopt(u), failures = 0, failures' = 0 PROVE Orderly'
<1> USE DEF Orderly
<1>1. /\ pc[u] = "adopt" /\ Becomes(Head(todo[u]), "not_active") /\ Push(Head(todo[u]))
      /\ Returns(u) /\ lock_' = NoUser /\ UNCHANGED <<active_state_, synchronous_>>
  BY DEF Adopt, Leave, Throws, Waited
<1>2. Adopting(u) /\ lock_ = u
  BY <1>1 DEF Progress, LockHeld, Locked
<1>3. PICK c \in Children : c = Head(todo[u]) /\ c \notin Owned
  <2>1. todo[u] \in Seq(Children) /\ Len(todo[u]) = 1 /\ todo[u][1] \notin Owned
    BY <1>2 DEF Adopting, Types
  <2>2. todo[u][1] \in Children /\ Head(todo[u]) = todo[u][1]
    BY <2>1
  <2>3. QED
    BY <2>1, <2>2
<1>4. child' = [child EXCEPT ![c] = "not_active"] /\ Push(c) /\ active_state_ /= "active"
  BY <1>1, <1>2, <1>3 DEF Becomes, Adopting
<1>5. \A v \in Users : pc[v] /= "start"
  BY <1>1, <1>2, NobodyStarts
<1>6. /\ child' \in [Children -> States] /\ child_objects_' \in Seq(Children) /\ OwnedOnce'
      /\ AtRest' /\ InOrder'
      /\ \A v \in Users : pc[v] = "join" => JoinersKept
  BY <1>1, <1>3, <1>4, <1>5, AddedAtRest
<1>7. Types'
  BY <1>1, <1>6, Return DEF Types
<1>8. Placed(u)' /\ (lock_' = u <=> Locked(u)') /\ Progress(u)'
  BY <1>1, Return, ConstantsAssumption
<1>9. \A v \in Users : v /= u => Unmoved(v)
  BY <1>1, Return
<1>10. QED
  BY <1>1, <1>2, <1>6, <1>7, <1>8, <1>9, OneMoves

LEMMA OrderlyClear ==
    ASSUME Orderly, NEW u \in Waiters, clear_children(u) PROVE Orderly'
<1> USE DEF Orderly
<1>1. /\ pc[u] = "idle" /\ lock_ = NoUser /\ u \in Users
      /\ UNCHANGED <<active_state_, synchronous_, child>>
  BY ConstantsAssumption DEF clear_children, Enter
<1>2. active_state_ \in {"active", "deactivating", "not_active"}
  BY DEF Types
<1>3. CASE active_state_ = "active"
  <2>1. /\ Does(u, "clear") /\ BeginStop(u, LastFirst(child_objects_))
        /\ UNCHANGED child_objects_
    BY <1>3 DEF clear_children
  <2>2. QED
    BY <1>1, <1>3, <2>1, OrderlyBeginStop
<1>4. CASE active_state_ = "deactivating"
  <2> DEFINE r == LastFirst(child_objects_)
  <2>1. /\ op' = [op EXCEPT ![u] = "clear"] /\ lock_' = u /\ pc' = [pc EXCEPT ![u] = "join"]
        /\ todo' = [todo EXCEPT ![u] = r] /\ UNCHANGED <<child_objects_, list, errors>>
    BY <1>4 DEF clear_children, Does, At, Todo
  <2>2. /\ child_objects_ \in Seq(Children) /\ r \in Seq(Children) /\ Len(r) = Len(child_objects_)
        /\ \A i \in 1 .. Len(child_objects_) : r[i] = child_objects_[Len(child_objects_) + 1 - i]
    <3>1. child_objects_ \in Seq(Children)
      BY DEF Types
    <3>2. QED
      BY <3>1, Reversed DEF LastFirst
  <2> HIDE DEF r
  <2>3. Types'
    BY <1>1, <2>1, <2>2 DEF Types, Places, Operations
  <2>4. \A i \in DOMAIN child_objects_ : LevelAt(i)' = LevelAt(i)
    BY <1>1, <2>1, LevelsKept
  <2>5. OwnedOnce' /\ InOrder' /\ AtRest'
    BY <1>1, <1>4, <2>1, <2>4 DEF OwnedOnce, InOrder, AtRest
  <2>6. \A v \in Users : v /= u => Unmoved(v)
    BY <2>1 DEF Types, Unmoved
  <2>7. pc'[u] = "join" /\ op'[u] = "clear" /\ todo'[u] = r
    BY <1>1, <2>1 DEF Types
  <2>8. Placed(u)' /\ (lock_' = u <=> Locked(u)')
    BY <2>1, <2>7 DEF Placed, Locked
  <2>9. LastOf(todo[u])'
    BY <2>1, <2>2, <2>7, Lengths DEF LastOf
  <2>10. \A i \in DOMAIN child_objects_ : ~(i > Len(todo'[u]))
    BY <2>2, <2>7, Lengths
  <2>11. Progress(u)'
    BY <1>1, <1>4, <2>1, <2>7, <2>9, <2>10 DEF Progress, Joining
  <2>12. \A v \in Users : pc[v] = "join" => JoinersKept
    BY <1>1, <2>1, NothingForJoiners
  <2>13. QED
    BY <1>1, <2>1, <2>3, <2>5, <2>6, <2>8, <2>11, <2>12, OneMoves
<1>5. CASE active_state_ = "not_active"
  <2>1. child_objects_' = <<>> /\ UNCHANGED <<lock_, pc, op, todo, list, errors>>
    BY <1>5 DEF clear_children, locals
  <2>2. Types'
    BY <1>1, <2>1 DEF Types
  <2>3. OwnedOnce' /\ InOrder' /\ AtRest'
    BY <2>1 DEF OwnedOnce, InOrder, AtRest
  <2>4. \A v \in Users : Unmoved(v) /\ pc[v] /= "join"
    BY <1>5, <2>1, NoJoiners DEF Unmoved
  <2>5. Placed(u)' /\ (lock_' = u <=> Locked(u)') /\ Progress(u)'
    <3>1. Placed(u) /\ ~Locked(u) /\ lock_ /= u /\ Progress(u)
      BY <1>1, ConstantsAssumption DEF LockHeld
    <3>2. QED
      BY <1>1, <2>1, <3>1 DEF Placed, Locked, Progress
  <2>6. QED
    BY <1>1, <2>1, <2>2, <2>3, <2>4, <2>5, OneMoves
<1>6. QED
  BY <1>2, <1>3, <1>4, <1>5

\* The steps of the children, as far as the composite sees them.
LEMMA LevelsOnly ==
    ASSUME Orderly, child' \in [Children -> States],
           \A i \in DOMAIN child_objects_ : LevelAt(i)' = LevelAt(i),
           UNCHANGED <<lock_, active_state_, synchronous_, child_objects_, locals>>
    PROVE  Orderly'
<1> USE DEF Orderly
<1>1. UNCHANGED <<pc, op, todo, list, errors>>
  BY DEF locals
<1>2. Types'
  BY <1>1 DEF Types
<1>3. OwnedOnce' /\ InOrder' /\ LockHeld' /\ AtRest'
  BY <1>1 DEF OwnedOnce, InOrder, LockHeld, Placed, Locked, AtRest
<1>4. ASSUME NEW u \in Users PROVE Progress(u)'
  <2>1. Progress(u)
    OBVIOUS
  <2>2. Starting(u) => Starting(u)'
    BY <1>1 DEF Starting, LastOf
  <2>3. Stopping(u) => Stopping(u)'
    BY <1>1 DEF Stopping, LastOf
  <2>4. Joining(u) => Joining(u)'
    BY <1>1 DEF Joining, LastOf
  <2>5. Adopting(u) => Adopting(u)'
    BY <1>1 DEF Adopting, Owned
  <2>6. QED
    BY <1>1, <2>1, <2>2, <2>3, <2>4, <2>5 DEF Progress
<1>5. QED
  BY <1>2, <1>3, <1>4

LEMMA OrderlyEndChild ==
    ASSUME Orderly, NEW c \in Children, EndChild(c) PROVE Orderly'
<1>1. /\ child[c] = "stopping" /\ child' = [child EXCEPT ![c] = "ended"]
      /\ UNCHANGED <<lock_, active_state_, synchronous_, child_objects_, locals>>
  BY DEF EndChild, Becomes
<1>2. child \in [Children -> States]
  BY DEF Orderly, Types
<1>3. child' \in [Children -> States]
  BY <1>1, <1>2 DEF States
<1>4. \A d \in Children : Level(d)' = Level(d)
  BY <1>1, <1>2 DEF Level
<1>5. \A i \in DOMAIN child_objects_ : child_objects_[i] \in Children
  BY Levels DEF Orderly
<1>6. \A i \in DOMAIN child_objects_ : LevelAt(i)' = LevelAt(i)
  BY <1>1, <1>4, <1>5 DEF LevelAt, Level
<1>7. QED
  BY <1>1, <1>3, <1>6, LevelsOnly

LEMMA OrderlyStartOutside ==
    ASSUME Orderly, NEW c \in Children, StartOutside(c) PROVE Orderly'
<1>1. /\ c \notin Owned /\ Becomes(c, "active")
      /\ UNCHANGED <<lock_, active_state_, synchronous_, child_objects_, locals>>
  BY DEF StartOutside
<1>2. Types /\ "active" \in States
  BY DEF Orderly, States
<1>3. /\ child' \in [Children -> States]
      /\ \A i \in DOMAIN child_objects_ : LevelAt(i)' = LevelAt(i)
  BY <1>1, <1>2, Stranger
<1>4. QED
  BY <1>1, <1>3, LevelsOnly

-----------------------------------------------------------------------------
(* The invariant and what follows from it.                                   *)

Thrown == failures' = failures \/ (failures < MaxFailures /\ failures' = failures + 1)

LEMMA FailuresGrow ==
    ASSUME Next PROVE Thrown
<1>1. ASSUME NEW u \in Users, Step(u) PROVE Thrown
  <2>1. ASSUME \/ StartChild(u) \/ Started(u) \/ Stopped(u)
               \/ JoinedUnderLock(u) \/ WakeUp(u) \/ EndWait(u)
        PROVE  failures' = failures
    BY <2>1 DEF StartChild, Started, Stopped, JoinedUnderLock, WakeUp, Look, EndWait
  <2>2. ASSUME StartFails(u) \/ StopChild(u) \/ WaitAtOnce(u) \/ JoinChild(u) \/ Adopt(u)
        PROVE  Thrown
    BY <2>2 DEF StartFails, StopChild, WaitAtOnce, JoinChild, Adopt, Throws, Thrown
  <2>3. QED
    BY <1>1, <2>1, <2>2 DEF Step, Thrown
<1>2. ASSUME NEW u \in Users, Call(u) PROVE Thrown
  <2>1. ASSUME activate_object(u) \/ deactivate_object(u) \/ wait_object(u) \/ clear_children(u)
        PROVE  failures' = failures
    BY <2>1 DEF activate_object, deactivate_object, wait_object, Look, clear_children
  <2>2. ASSUME NEW c \in Children, AddToActive(u, c) \/ AddToInactive(u, c)
        PROVE  Thrown
    BY <2>2 DEF AddToActive, AddToInactive, Throws, Thrown
  <2>3. QED
    BY <1>2, <2>1, <2>2 DEF Call, Thrown
<1>3. ASSUME NEW u \in Users, SpuriousWakeup(u) PROVE failures' = failures
  BY <1>3 DEF SpuriousWakeup, Look
<1>4. ASSUME NEW c \in Children, EndChild(c) \/ StartOutside(c) PROVE failures' = failures
  BY <1>4 DEF EndChild, StartOutside
<1>5. QED
  BY <1>1, <1>2, <1>3, <1>4 DEF Next, Thrown

LEMMA NextOrderly ==
    ASSUME OneWaiter, Orderly, Next, failures = 0, failures' = 0 PROVE Orderly'
<1>1. ASSUME NEW u \in Users, pc[u] = "sleep" PROVE u \in Waiters
  BY <1>1 DEF Orderly, LockHeld, Placed
<1>2. ASSUME NEW u \in Users, Step(u) PROVE Orderly'
  <2>1. CASE StartChild(u) \/ StartFails(u) \/ Started(u)
    BY <2>1, OrderlyStartChild, NoStartFails, OrderlyStarted
  <2>2. CASE StopChild(u) \/ WaitAtOnce(u) \/ Stopped(u)
    BY <2>2, OrderlyStopChild, OrderlyWaitAtOnce, OrderlyStopped
  <2>3. CASE JoinChild(u) \/ JoinedUnderLock(u) \/ EndWait(u) \/ Adopt(u)
    BY <2>3, OrderlyJoinChild, OrderlyJoinedUnderLock, OrderlyEndWait, OrderlyAdopt
  <2>4. CASE WakeUp(u)
    BY <2>4, <1>1, OrderlyLook DEF WakeUp
  <2>5. QED
    BY <1>2, <2>1, <2>2, <2>3, <2>4 DEF Step
<1>3. ASSUME NEW u \in Users, Call(u) PROVE Orderly'
  <2>1. CASE activate_object(u)
    BY <2>1, OrderlyActivate
  <2>2. CASE deactivate_object(u)
    <3>1. /\ pc[u] = "idle" /\ lock_ = NoUser /\ active_state_ = "active" /\ Does(u, "deactivate")
          /\ BeginStop(u, LastFirst(child_objects_))
          /\ UNCHANGED <<active_state_, synchronous_, child_objects_, child>>
      BY <2>2 DEF deactivate_object, Enter
    <3>2. "deactivate" \in {"deactivate", "clear"} /\ ~("deactivate" = "clear")
      OBVIOUS
    <3>3. QED
      BY <3>1, <3>2, OrderlyBeginStop
  <2>3. CASE u \in Waiters /\ (wait_object(u) \/ clear_children(u))
    BY <2>3, OrderlyLook, OrderlyClear DEF wait_object
  <2>4. CASE \E c \in Children : AddToActive(u, c) \/ AddToInactive(u, c)
    BY <2>4, OrderlyAddToActive, OrderlyAddToInactive
  <2>5. QED
    BY <1>3, <2>1, <2>2, <2>3, <2>4 DEF Call
<1>4. ASSUME NEW u \in Users, SpuriousWakeup(u) PROVE Orderly'
  BY <1>4, <1>1, OrderlyLook DEF SpuriousWakeup
<1>5. ASSUME NEW c \in Children, EndChild(c) \/ StartOutside(c) PROVE Orderly'
  BY <1>5, OrderlyEndChild, OrderlyStartOutside
<1>6. QED
  BY <1>2, <1>3, <1>4, <1>5 DEF Next

LEMMA Stutters ==
    ASSUME Orderly, UNCHANGED vars PROVE Orderly'
<1>1. UNCHANGED <<lock_, active_state_, synchronous_, child_objects_, child, locals>>
  BY DEF vars
<1>2. child' \in [Children -> States]
  BY <1>1 DEF Orderly, Types
<1>3. \A i \in DOMAIN child_objects_ : LevelAt(i)' = LevelAt(i)
  BY <1>1, LevelsKept
<1>4. QED
  BY <1>1, <1>2, <1>3, LevelsOnly

\* The invariant: while no child has thrown, every user is where its lock and
\* its list of children say, and the levels of the children are those of its
\* loop.  One user waits: two would end each other's deactivations.
THEOREM CompositeInvariance == ASSUME OneWaiter PROVE Spec => []IndInv
<1>1. Init => IndInv
  BY InitOrderly
<1>2. IndInv /\ [Next]_vars => IndInv'
  <2> SUFFICES ASSUME IndInv, [Next]_vars PROVE IndInv'
    OBVIOUS
  <2>1. CASE Next
    <3>1. failures' \in Nat /\ (failures' = 0 => failures = 0)
      BY <2>1, FailuresGrow DEF IndInv, Thrown
    <3>2. QED
      BY <2>1, <3>1, NextOrderly DEF IndInv
  <2>2. CASE UNCHANGED vars
    BY <2>2, Stutters DEF IndInv, vars
  <2>3. QED
    BY <2>1, <2>2
<1>3. QED
  BY <1>1, <1>2, PTL DEF Spec

LEMMA OrderlyIsOrdered == ASSUME Orderly PROVE InOrder /\ StoppedMeansStopped
<1>1. InOrder /\ AtRest /\ Types
  BY DEF Orderly
<1>2. \A c \in Owned : \E i \in DOMAIN child_objects_ : c = child_objects_[i]
  BY DEF Owned, ToSet
<1>3. ASSUME active_state_ = "not_active", \A u \in Users : op[u] /= "activate", NEW c \in Owned
      PROVE  child[c] = "not_active"
  <2>1. \A u \in Users : pc[u] /= "start"
    BY <1>3 DEF Orderly, LockHeld, Placed
  <2>2. QED
    BY <1>1, <1>2, <1>3, <2>1 DEF AtRest, LevelAt, Level
<1>4. ASSUME active_state_ = "deactivating", NEW c \in Owned PROVE child[c] /= "active"
  BY <1>1, <1>2, <1>4 DEF AtRest, LevelAt, Level
<1>5. QED
  BY <1>1, <1>3, <1>4 DEF StoppedMeansStopped

\* "First added first activated, last added deactivated and joined first", at
\* every moment, although children are added and waited for meanwhile.
THEOREM ChildrenInOrder == ASSUME OneWaiter PROVE Spec => []AddedOrder
<1>1. IndInv => AddedOrder
  BY OrderlyIsOrdered DEF IndInv, AddedOrder, InOrder, LevelAt
<1>2. QED
  BY <1>1, CompositeInvariance, PTL

-----------------------------------------------------------------------------
(* With one failure.  The order of the children is lost then, so that this
   invariant is about sets: which children may still be at work.             *)

Shapes ==
    /\ lock_ \in Users \cup {NoUser}
    /\ active_state_ \in {"active", "deactivating", "not_active"}
    /\ synchronous_ \in BOOLEAN
    /\ child_objects_ \in Seq(Children)
    /\ child \in [Children -> States]
    /\ pc \in [Users -> Places]
    /\ op \in [Users -> Operations]
    /\ todo \in [Users -> Seq(Children)]
    /\ list \in [Users -> Seq(Children)]
    /\ errors \in [Users -> BOOLEAN]
    /\ failures \in 0 .. 1

\* Which operation is where; all places but idle, sleep and the join of a
\* wait_object are under lock_.
Fits(u, place, name) ==
    /\ place = "start" => name = "activate"
    /\ place \in {"stop", "sync"} => name \in {"activate", "deactivate", "clear"}
    /\ place = "join" => name \in {"activate", "wait", "clear"}
    /\ place = "adopt" => name = "add"
    /\ place = "idle" => name = "none"
    /\ place = "sleep" => name = "wait"
    /\ name \in {"wait", "clear"} => u \in Waiters

UnderLock(place, name) == place \notin {"idle", "sleep"} /\ name /= "wait"

Stationed == \A u \in Users : Fits(u, pc[u], op[u]) /\ (lock_ = u <=> UnderLock(pc[u], op[u]))

\* All children that are not at rest are among those that were started.
Covered(u) == \A c \in Owned : child[c] = "not_active" \/ c \in ToSet(list[u])

Once(s) == \A i, j \in DOMAIN s : s[i] = s[j] => i = j

\* What the children are while a user starts, stops or joins them, or adds one.
Activating(u) ==
    /\ active_state_ = "not_active"
    /\ ToSet(todo[u]) \subseteq Owned /\ Once(todo[u])
    /\ \A c \in ToSet(todo[u]) : child[c] = "not_active"
    /\ Covered(u)

Deactivating(u) ==
    /\ active_state_ = "active"
    /\ Covered(u)
    /\ errors[u] \/ \A c \in Owned : child[c] /= "active" \/ c \in ToSet(todo[u])
    /\ pc[u] = "sync" => todo[u] /= <<>>

Waiting(u) ==
    /\ active_state_ = "deactivating"
    /\ errors[u] \/ \A c \in Owned : child[c] = "not_active" \/ c \in ToSet(todo[u])
    /\ op[u] = "wait" => \A v \in Users : op[v] /= "activate"

Adding(u) == active_state_ /= "active" /\ todo[u] /= <<>> /\ Head(todo[u]) \notin Owned

\* An activation that is taken back has seen the one failure: none comes on top.
Work(u) ==
    /\ pc[u] = "start" => Activating(u)
    /\ pc[u] \in {"stop", "sync"} => Deactivating(u)
    /\ pc[u] = "join" => Waiting(u)
    /\ pc[u] = "adopt" => Adding(u)
    /\ errors[u] => pc[u] \in {"stop", "sync", "join"} /\ op[u] /= "activate"
    /\ op[u] = "activate" /\ pc[u] /= "start" => failures = 1

Quiet ==
    /\ active_state_ = "deactivating" => \A c \in Owned : child[c] /= "active"
    /\ active_state_ = "not_active" /\ (\A u \in Users : pc[u] /= "start")
          => \A c \in Owned : child[c] = "not_active"

Sound == Shapes /\ Once(child_objects_) /\ Stationed /\ (\A u \in Users : Work(u)) /\ Quiet

-----------------------------------------------------------------------------

LEMMA NothingIn == ToSet(<<>>) = {}
  BY DEF ToSet

LEMMA HeadAndTail ==
    ASSUME NEW S, NEW s \in Seq(S), s /= <<>>
    PROVE  /\ Head(s) \in S /\ Tail(s) \in Seq(S)
           /\ ToSet(s) = {Head(s)} \cup ToSet(Tail(s))
           /\ Once(s) => Once(Tail(s)) /\ Head(s) \notin ToSet(Tail(s))
<1>1. /\ Len(s) \in Nat \ {0} /\ DOMAIN s = 1 .. Len(s) /\ Head(s) = s[1] /\ Tail(s) \in Seq(S)
      /\ Head(s) \in S
  OBVIOUS
<1>2. DOMAIN Tail(s) = 1 .. (Len(s) - 1) /\ \A i \in 1 .. (Len(s) - 1) : Tail(s)[i] = s[i + 1]
  OBVIOUS
<1>3. \A i \in 1 .. Len(s) : i = 1 \/ i - 1 \in 1 .. (Len(s) - 1)
  BY <1>1
<1>4. \A i \in 1 .. (Len(s) - 1) : i + 1 \in 1 .. Len(s) /\ i + 1 /= 1
  BY <1>1
<1>5. \A i \in 1 .. Len(s) : s[i] \in {Head(s)} \cup ToSet(Tail(s))
  <2>1. ASSUME NEW i \in 1 .. Len(s), i /= 1 PROVE s[i] \in ToSet(Tail(s))
    <3>1. PICK j \in 1 .. (Len(s) - 1) : j = i - 1
      BY <1>3, <2>1
    <3>2. s[i] = Tail(s)[j]
      BY <1>2, <3>1
    <3>3. QED
      BY <1>2, <3>2 DEF ToSet
  <2>2. QED
    BY <1>1, <2>1
<1>6. ToSet(s) = {Head(s)} \cup ToSet(Tail(s))
  <2>1. \A x \in ToSet(Tail(s)) : x \in ToSet(s)
    BY <1>1, <1>2, <1>4 DEF ToSet
  <2>2. Head(s) \in ToSet(s)
    BY <1>1 DEF ToSet
  <2>3. \A x \in ToSet(s) : x \in {Head(s)} \cup ToSet(Tail(s))
    BY <1>1, <1>5 DEF ToSet
  <2>4. QED
    BY <2>1, <2>2, <2>3
<1>7. ASSUME Once(s) PROVE Once(Tail(s))
  <2>1. ASSUME NEW i \in DOMAIN Tail(s), NEW j \in DOMAIN Tail(s), Tail(s)[i] = Tail(s)[j]
        PROVE  i = j
    <3>1. i \in 1 .. (Len(s) - 1) /\ j \in 1 .. (Len(s) - 1) /\ s[i + 1] = s[j + 1]
      BY <1>2, <2>1
    <3>2. i + 1 = j + 1
      BY <1>1, <1>4, <1>7, <3>1 DEF Once
    <3>3. QED
      BY <3>1, <3>2
  <2>2. QED
    BY <2>1 DEF Once
<1>8. ASSUME Once(s), Head(s) \in ToSet(Tail(s)) PROVE FALSE
  <2>1. PICK i \in 1 .. (Len(s) - 1) : Tail(s)[i] = Head(s)
    BY <1>2, <1>8 DEF ToSet
  <2>2. s[i + 1] = s[1] /\ i + 1 \in DOMAIN s /\ 1 \in DOMAIN s
    BY <1>1, <1>2, <1>4, <2>1
  <2>3. i + 1 = 1
    BY <1>8, <2>2 DEF Once
  <2>4. QED
    BY <1>4, <2>3
<1>9. QED
  BY <1>1, <1>6, <1>7, <1>8

LEMMA InReverse ==
    ASSUME NEW S, NEW s \in Seq(S)
    PROVE  Reverse(s) \in Seq(S) /\ ToSet(Reverse(s)) = ToSet(s)
<1>0. PICK r : r = Reverse(s)
  OBVIOUS
<1>1. PICK n \in Nat :
        /\ r = Reverse(s) /\ r \in Seq(S) /\ Len(r) = n /\ n = Len(s)
        /\ \A i \in 1 .. n : r[i] = s[n + 1 - i]
  <2>1. PICK n \in Nat : n = Len(s)
    OBVIOUS
  <2>2. /\ Reverse(s) \in Seq(S) /\ Len(Reverse(s)) = Len(s)
        /\ \A i \in 1 .. Len(s) : Reverse(s)[i] = s[Len(s) + 1 - i]
    BY Reversed
  <2>3. r \in Seq(S) /\ Len(r) = n /\ \A i \in 1 .. n : r[i] = s[n + 1 - i]
    BY <1>0, <2>1, <2>2
  <2>4. QED
    BY <1>0, <2>1, <2>3
<1>2. DOMAIN s = 1 .. n /\ DOMAIN r = 1 .. n
  BY <1>1
<1>3. \A i \in 1 .. n : n + 1 - i \in 1 .. n /\ n + 1 - (n + 1 - i) = i
  BY <1>1
<1>4. \A x \in ToSet(r) : x \in ToSet(s)
  <2>1. ASSUME NEW i \in 1 .. n PROVE r[i] \in ToSet(s)
    <3>1. PICK j \in 1 .. n : j = n + 1 - i
      BY <1>3
    <3>2. r[i] = s[j]
      BY <1>1, <3>1
    <3>3. QED
      BY <1>2, <3>2 DEF ToSet
  <2>2. QED
    BY <1>2, <2>1 DEF ToSet
<1>5. \A x \in ToSet(s) : x \in ToSet(r)
  <2>1. \A i \in 1 .. n : s[i] = r[n + 1 - i]
    BY <1>1, <1>3
  <2>2. QED
    BY <1>2, <1>3, <2>1 DEF ToSet
<1>6. QED
  BY <1>1, <1>4, <1>5

LEMMA InAppend ==
    ASSUME NEW S, NEW s \in Seq(S), NEW c \in S
    PROVE  /\ Append(s, c) \in Seq(S) /\ ToSet(Append(s, c)) = ToSet(s) \cup {c}
           /\ Once(s) /\ c \notin ToSet(s) => Once(Append(s, c))
<1>0. PICK t : t = Append(s, c)
  OBVIOUS
<1>1. PICK n \in Nat : t = Append(s, c) /\ n = Len(s)
  BY <1>0
<1>2. /\ DOMAIN s = 1 .. n /\ DOMAIN t = 1 .. (n + 1) /\ t \in Seq(S)
      /\ \A i \in 1 .. n : t[i] = s[i]
      /\ t[n + 1] = c
  BY <1>1
<1>3. \A i \in 1 .. (n + 1) : i = n + 1 \/ i \in 1 .. n
  BY <1>1
<1>4. \A i \in 1 .. n : i \in 1 .. (n + 1) /\ s[i] \in ToSet(s)
  BY <1>2 DEF ToSet
<1>5. \A x : x \in ToSet(t) <=> x \in ToSet(s) \cup {c}
  <2>1. \A x \in ToSet(t) : x \in ToSet(s) \cup {c}
    BY <1>2, <1>3, <1>4 DEF ToSet
  <2>2. \A x \in ToSet(s) : x \in ToSet(t)
    BY <1>2, <1>4 DEF ToSet
  <2>3. c \in ToSet(t)
    BY <1>1, <1>2 DEF ToSet
  <2>4. QED
    BY <2>1, <2>2, <2>3
<1>6. ASSUME Once(s), c \notin ToSet(s), NEW i \in DOMAIN t, NEW j \in DOMAIN t, t[i] = t[j]
      PROVE  i = j
  <2>1. CASE i \in 1 .. n /\ j \in 1 .. n
    BY <1>2, <1>6, <2>1 DEF Once
  <2>2. CASE i \in 1 .. n /\ j = n + 1
    BY <1>2, <1>4, <1>6, <2>2
  <2>3. CASE i = n + 1 /\ j \in 1 .. n
    BY <1>2, <1>4, <1>6, <2>3
  <2>4. QED
    BY <1>2, <1>3, <1>6, <2>1, <2>2, <2>3
<1>7. QED
  BY <1>1, <1>2, <1>5, <1>6 DEF Once

LEMMA InCons ==
    ASSUME NEW S, NEW s \in Seq(S), NEW c \in S
    PROVE  <<c>> \o s \in Seq(S) /\ ToSet(<<c>> \o s) = ToSet(s) \cup {c}
<1>0. PICK t : t = <<c>> \o s
  OBVIOUS
<1>1. PICK n \in Nat : t = <<c>> \o s /\ n = Len(s)
  BY <1>0
<1>2. /\ DOMAIN s = 1 .. n /\ DOMAIN t = 1 .. (n + 1) /\ t \in Seq(S)
      /\ t[1] = c /\ \A i \in 1 .. n : t[i + 1] = s[i]
  BY <1>1
<1>3. \A i \in 1 .. (n + 1) : i = 1 \/ (i - 1 \in 1 .. n /\ (i - 1) + 1 = i)
  BY <1>1
<1>4. \A i \in 1 .. (n + 1) : i = 1 \/ t[i] = s[i - 1]
  BY <1>2, <1>3
<1>5. \A x \in ToSet(t) : x \in ToSet(s) \cup {c}
  <2>1. \A j \in 1 .. n : s[j] \in ToSet(s)
    BY <1>2 DEF ToSet
  <2>2. \A i \in 1 .. (n + 1) : t[i] \in ToSet(s) \cup {c}
    BY <1>2, <1>3, <1>4, <2>1
  <2>3. QED
    BY <1>2, <2>2 DEF ToSet
<1>6. \A x \in ToSet(s) : x \in ToSet(t)
  <2>1. \A i \in 1 .. n : i + 1 \in 1 .. (n + 1)
    BY <1>1
  <2>2. QED
    BY <1>2, <2>1 DEF ToSet
<1>7. c \in ToSet(t)
  BY <1>1, <1>2 DEF ToSet
<1>8. QED
  BY <1>1, <1>2, <1>5, <1>6, <1>7

-----------------------------------------------------------------------------
(* What one user does.                                                       *)

Moves(u, place, name, t, l, e) ==
    /\ pc' = [pc EXCEPT ![u] = place] /\ op' = [op EXCEPT ![u] = name]
    /\ todo' = [todo EXCEPT ![u] = t] /\ list' = [list EXCEPT ![u] = l]
    /\ errors' = [errors EXCEPT ![u] = e]

Same(v) ==
    /\ pc'[v] = pc[v] /\ op'[v] = op[v] /\ todo'[v] = todo[v] /\ list'[v] = list[v]
    /\ errors'[v] = errors[v]

LEMMA MovesTo ==
    ASSUME Shapes, NEW u \in Users, NEW place \in Places, NEW name \in Operations,
           NEW t \in Seq(Children), NEW l \in Seq(Children), NEW e \in BOOLEAN,
           Moves(u, place, name, t, l, e)
    PROVE  /\ pc' \in [Users -> Places] /\ op' \in [Users -> Operations]
           /\ todo' \in [Users -> Seq(Children)] /\ list' \in [Users -> Seq(Children)]
           /\ errors' \in [Users -> BOOLEAN]
           /\ pc'[u] = place /\ op'[u] = name /\ todo'[u] = t /\ list'[u] = l /\ errors'[u] = e
           /\ \A v \in Users : v /= u => Same(v)
<1>1. pc' \in [Users -> Places] /\ pc'[u] = place /\ \A v \in Users : v /= u => pc'[v] = pc[v]
  BY DEF Shapes, Moves
<1>2. op' \in [Users -> Operations] /\ op'[u] = name /\ \A v \in Users : v /= u => op'[v] = op[v]
  BY DEF Shapes, Moves
<1>3. /\ todo' \in [Users -> Seq(Children)] /\ todo'[u] = t
      /\ \A v \in Users : v /= u => todo'[v] = todo[v]
  BY DEF Shapes, Moves
<1>4. /\ list' \in [Users -> Seq(Children)] /\ list'[u] = l
      /\ \A v \in Users : v /= u => list'[v] = list[v]
  BY DEF Shapes, Moves
<1>5. /\ errors' \in [Users -> BOOLEAN] /\ errors'[u] = e
      /\ \A v \in Users : v /= u => errors'[v] = errors[v]
  BY DEF Shapes, Moves
<1>6. QED
  BY <1>1, <1>2, <1>3, <1>4, <1>5 DEF Same

\* What a step does to the children of one who waits for them without the lock.
Unhurt(u) ==
    \/ active_state_ /= "deactivating"
    \/ u \in Waiters
    \/ op[u] = "activate"
    \/ /\ active_state_' = active_state_ /\ op'[u] /= "activate"
       /\ \A c \in Owned' : child'[c] = "not_active" \/ (c \in Owned /\ child'[c] = child[c])

\* Who has or takes the lock finds all others without it.  Who waits without
\* the lock meets at most one who adds a child.
LEMMA Acts ==
    ASSUME Sound, OneWaiter, NEW u \in Users, Shapes',
           \A v \in Users : v /= u => Same(v),
           \/ lock_ \in {u, NoUser} /\ lock_' \in {u, NoUser} /\ Unhurt(u)
           \/ /\ op[u] = "wait" /\ pc[u] = "join" /\ op'[u] /= "activate"
              /\ UNCHANGED <<lock_, active_state_, child_objects_>>,
           Fits(u, pc[u], op[u])', lock_' = u <=> UnderLock(pc[u], op[u])',
           Work(u)', Once(child_objects_)', Quiet'
    PROVE  Sound'
<1>1. Shapes /\ Stationed /\ (\A v \in Users : Work(v)) /\ Once(child_objects_) /\ NoUser \notin Users
  BY ConstantsAssumption DEF Sound
<1>2. ASSUME NEW v \in Users, v /= u
      PROVE  Fits(v, pc[v], op[v])' /\ (lock_' = v <=> UnderLock(pc[v], op[v])')
  <2>1. Same(v) /\ Fits(v, pc[v], op[v]) /\ (lock_ = v <=> UnderLock(pc[v], op[v]))
    BY <1>1, <1>2 DEF Stationed
  <2>2. lock_' = v <=> lock_ = v
    BY <1>1, <1>2
  <2>3. QED
    BY <2>1, <2>2 DEF Same, Fits, UnderLock
<1>3. Stationed'
  <2>1. ASSUME NEW v \in Users PROVE (Fits(v, pc[v], op[v]) /\ (lock_ = v <=> UnderLock(pc[v], op[v])))'
    BY <1>2
  <2>2. QED
    BY <2>1 DEF Stationed
<1>4. ASSUME NEW v \in Users, v /= u PROVE Work(v)'
  <2>1. /\ Same(v) /\ Work(v) /\ Fits(v, pc[v], op[v]) /\ pc[v] \in Places /\ op[v] \in Operations
        /\ lock_ = v <=> UnderLock(pc[v], op[v])
    BY <1>1, <1>4 DEF Stationed, Shapes
  <2>2. CASE lock_ \in {u, NoUser} /\ lock_' \in {u, NoUser} /\ Unhurt(u)
    <3>1. lock_ /= v
      BY <1>1, <1>4, <2>2
    <3>2. pc[v] \in {"idle", "sleep"} \/ (pc[v] = "join" /\ op[v] = "wait")
      BY <2>1, <3>1 DEF UnderLock, Fits, Places
    <3>3. CASE pc[v] \in {"idle", "sleep"}
      BY <2>1, <3>3 DEF Work, Same, Fits
    <3>4. CASE pc[v] = "join" /\ op[v] = "wait"
      <4>1. Waiting(v) /\ v \in Waiters
        BY <2>1, <3>4 DEF Work, Fits
      <4>2. u \notin Waiters /\ op[u] /= "activate" /\ active_state_ = "deactivating"
        BY <1>4, <3>4, <4>1 DEF OneWaiter, Waiting
      <4>3. /\ active_state_' = active_state_ /\ op'[u] /= "activate"
            /\ \A c \in Owned' : child'[c] = "not_active" \/ (c \in Owned /\ child'[c] = child[c])
        BY <2>2, <4>2 DEF Unhurt
      <4>4. \A w \in Users : op'[w] /= "activate"
        BY <3>4, <4>1, <4>3 DEF Waiting, Same
      <4>5. Waiting(v)'
        BY <2>1, <4>1, <4>3, <4>4 DEF Waiting, Same
      <4>6. QED
        BY <2>1, <3>4, <4>5 DEF Work, Same
    <3>5. QED
      BY <3>2, <3>3, <3>4
  <2>3. CASE /\ op[u] = "wait" /\ pc[u] = "join" /\ op'[u] /= "activate"
             /\ UNCHANGED <<lock_, active_state_, child_objects_>>
    <3>1. Waiting(u) /\ u \in Waiters
      BY <1>1, <2>3 DEF Work, Stationed, Fits
    <3>2. op[v] /= "activate" /\ v \notin Waiters /\ active_state_ = "deactivating"
      BY <1>4, <2>3, <3>1 DEF Waiting, OneWaiter
    <3>3. pc[v] \in {"idle", "sleep", "adopt"}
      BY <2>1, <3>2 DEF Fits, Places, Work, Deactivating
    <3>4. pc[v] = "adopt" => Adding(v)'
      BY <2>1, <2>3 DEF Work, Adding, Same, Owned
    <3>5. QED
      BY <2>1, <3>2, <3>3, <3>4 DEF Work, Same
  <2>4. QED
    BY <2>2, <2>3
<1>5. \A v \in Users : Work(v)'
  BY <1>4
<1>6. QED
  BY <1>3, <1>5 DEF Sound

\* One child changes.
LEMMA Changed ==
    ASSUME Shapes, NEW c \in Children, NEW state \in States, Becomes(c, state)
    PROVE  /\ child' \in [Children -> States] /\ child'[c] = state
           /\ \A d \in Children : d /= c => child'[d] = child[d]
  BY DEF Shapes, Becomes

LEMMA OwnedAre ==
    ASSUME Shapes
    PROVE  Owned \subseteq Children /\ \A v \in Users : ToSet(todo[v]) \subseteq Children
<1>1. \A s \in Seq(Children) : ToSet(s) \subseteq Children
  BY DEF ToSet
<1>2. QED
  BY <1>1 DEF Shapes, Owned

\* Nobody starts children while the lock is free.
LEMMA LockFree ==
    ASSUME Sound, lock_ = NoUser, NEW v \in Users
    PROVE  pc[v] /= "start" /\ op[v] /= "activate"
<1>1. ~UnderLock(pc[v], op[v]) /\ Fits(v, pc[v], op[v])
  BY ConstantsAssumption DEF Sound, Stationed
<1>2. QED
  BY <1>1 DEF UnderLock, Fits

LEMMA ThrowsOnce ==
    ASSUME Shapes, failures' \in 0 .. 1, Throws
    PROVE  failures = 0 /\ failures' = 1 /\ child' = child
  BY DEF Shapes, Throws

LEMMA ReturnMoves ==
    ASSUME NEW u, Returns(u)
    PROVE  Moves(u, "idle", "none", <<>>, <<>>, FALSE)
  BY DEF Returns, Moves, At, Todo, Does

LEMMA Holder ==
    ASSUME Sound, NEW u \in Users,
           pc[u] \in {"start", "stop", "sync", "adopt"} \/ (pc[u] = "join" /\ op[u] /= "wait")
    PROVE  lock_ = u
<1>1. Fits(u, pc[u], op[u]) /\ (lock_ = u <=> UnderLock(pc[u], op[u]))
  BY DEF Sound, Stationed
<1>2. QED
  BY <1>1 DEF Fits, UnderLock

LEMMA SoundActivate ==
    ASSUME Sound, OneWaiter, NEW u \in Users, activate_object(u) PROVE Sound'
<1>1. /\ pc[u] = "idle" /\ lock_ = NoUser /\ lock_' = u /\ active_state_ = "not_active"
      /\ Moves(u, "start", "activate", child_objects_, list[u], errors[u])
      /\ UNCHANGED <<active_state_, synchronous_, child_objects_, child, failures>>
  BY DEF activate_object, Enter, Does, At, Todo, Moves, Sound, Shapes
<1>2. Shapes /\ Work(u) /\ Quiet /\ Once(child_objects_)
  BY DEF Sound
<1>3. PICK l \in Seq(Children), e \in BOOLEAN : l = list[u] /\ e = errors[u]
  BY <1>2 DEF Shapes
<1>4. /\ pc' \in [Users -> Places] /\ op' \in [Users -> Operations]
      /\ todo' \in [Users -> Seq(Children)] /\ list' \in [Users -> Seq(Children)]
      /\ errors' \in [Users -> BOOLEAN]
      /\ pc'[u] = "start" /\ op'[u] = "activate" /\ todo'[u] = child_objects_ /\ errors'[u] = errors[u]
      /\ list'[u] = list[u]
      /\ \A v \in Users : v /= u => Same(v)
  <2>1. "start" \in Places /\ "activate" \in Operations /\ child_objects_ \in Seq(Children)
    BY <1>2 DEF Places, Operations, Shapes
  <2>2. QED
    BY <1>1, <1>2, <1>3, <2>1, MovesTo
<1>5. Shapes'
  BY <1>1, <1>2, <1>4 DEF Shapes
<1>6. \A c \in Owned : child[c] = "not_active"
  BY <1>1, <1>2, LockFree DEF Quiet
<1>7. Activating(u)'
  BY <1>1, <1>2, <1>4, <1>6 DEF Activating, Covered, Owned
<1>8. Work(u)'
  BY <1>1, <1>2, <1>4, <1>7 DEF Work
<1>9. Fits(u, pc[u], op[u])' /\ (lock_' = u <=> UnderLock(pc[u], op[u])')
  BY <1>1, <1>4 DEF Fits, UnderLock
<1>10. Quiet' /\ Once(child_objects_)' /\ Unhurt(u)
  BY <1>1, <1>2, <1>4 DEF Quiet, Unhurt
<1>11. QED
  BY <1>1, <1>4, <1>5, <1>8, <1>9, <1>10, Acts

LEMMA SoundStartChild ==
    ASSUME Sound, OneWaiter, NEW u \in Users, StartChild(u) PROVE Sound'
<1>1. Shapes /\ Work(u) /\ Once(child_objects_) /\ Fits(u, pc[u], op[u]) /\ Owned \subseteq Children
  BY OwnedAre DEF Sound, Stationed
<1>2. PICK c : c = Head(todo[u])
  OBVIOUS
<1>3. /\ pc[u] = "start" /\ op[u] = "activate" /\ todo[u] /= <<>> /\ Activating(u) /\ ~errors[u]
      /\ lock_ = u /\ Becomes(c, "active")
      /\ UNCHANGED <<lock_, active_state_, synchronous_, child_objects_, failures, pc, op, errors>>
  BY <1>1, <1>2, Holder DEF StartChild, Work, Fits
<1>4. PICK t : t = Tail(todo[u])
  OBVIOUS
<1>5. PICK l : l = <<c>> \o list[u]
  OBVIOUS
<1>6. Moves(u, "start", "activate", t, l, FALSE)
  <2>1. pc' = [pc EXCEPT ![u] = "start"] /\ op' = [op EXCEPT ![u] = "activate"]
    BY <1>1, <1>3 DEF Shapes
  <2>2. errors' = [errors EXCEPT ![u] = FALSE]
    BY <1>1, <1>3 DEF Shapes
  <2>3. QED
    BY <1>2, <1>4, <1>5, <2>1, <2>2 DEF StartChild, Todo, Moves
<1>7. /\ c \in Children /\ t \in Seq(Children) /\ ToSet(todo[u]) = {c} \cup ToSet(t)
      /\ Once(t) /\ c \notin ToSet(t)
  <2>1. todo[u] \in Seq(Children) /\ Once(todo[u])
    BY <1>1, <1>3 DEF Shapes, Activating
  <2>2. QED
    BY <1>2, <1>3, <1>4, <2>1, HeadAndTail
<1>8. l \in Seq(Children) /\ ToSet(l) = ToSet(list[u]) \cup {c}
  <2>1. list[u] \in Seq(Children)
    BY <1>1 DEF Shapes
  <2>2. QED
    BY <1>5, <1>7, <2>1, InCons
<1>9. /\ pc' \in [Users -> Places] /\ op' \in [Users -> Operations]
      /\ todo' \in [Users -> Seq(Children)] /\ list' \in [Users -> Seq(Children)]
      /\ errors' \in [Users -> BOOLEAN]
      /\ pc'[u] = "start" /\ op'[u] = "activate" /\ todo'[u] = t /\ list'[u] = l /\ errors'[u] = FALSE
      /\ \A v \in Users : v /= u => Same(v)
  <2>1. "start" \in Places /\ "activate" \in Operations /\ FALSE \in BOOLEAN
    BY DEF Places, Operations
  <2>2. QED
    BY <1>1, <1>6, <1>7, <1>8, <2>1, MovesTo
<1>10. /\ child' \in [Children -> States] /\ child'[c] = "active"
       /\ \A d \in Children : d /= c => child'[d] = child[d]
  <2>1. "active" \in States
    BY DEF States
  <2>2. QED
    BY <1>1, <1>3, <1>7, <2>1, Changed
<1>11. Shapes'
  BY <1>1, <1>3, <1>9, <1>10 DEF Shapes
<1>12. Activating(u)'
  <2>1. Owned' = Owned
    BY <1>3 DEF Owned
  <2>2. \A d \in ToSet(t) : child'[d] = "not_active"
    BY <1>1, <1>3, <1>7, <1>10 DEF Activating
  <2>3. \A d \in Owned : child'[d] = "not_active" \/ d \in ToSet(l)
    BY <1>1, <1>3, <1>8, <1>10 DEF Activating, Covered
  <2>4. QED
    BY <1>3, <1>7, <1>9, <2>1, <2>2, <2>3 DEF Activating, Covered
<1>13. Work(u)'
  BY <1>9, <1>12 DEF Work
<1>14. Fits(u, pc[u], op[u])' /\ (lock_' = u <=> UnderLock(pc[u], op[u])')
  BY <1>3, <1>9 DEF Fits, UnderLock
<1>15. Quiet' /\ Once(child_objects_)' /\ Unhurt(u)
  BY <1>1, <1>3, <1>9 DEF Quiet, Unhurt, Activating
<1>16. QED
  BY <1>3, <1>9, <1>11, <1>13, <1>14, <1>15, Acts

\* The one failure is spent: nothing fails while the activation is taken back.
LEMMA SoundStartFails ==
    ASSUME Sound, OneWaiter, failures' \in 0 .. 1, NEW u \in Users, StartFails(u) PROVE Sound'
<1>1. Shapes /\ Work(u) /\ Once(child_objects_) /\ Fits(u, pc[u], op[u])
  BY DEF Sound, Stationed
<1>2. PICK l \in Seq(Children) : l = list[u]
  BY <1>1 DEF Shapes
<1>3. /\ pc[u] = "start" /\ op[u] = "activate" /\ todo[u] /= <<>> /\ Activating(u) /\ ~errors[u]
      /\ lock_ = u /\ lock_' = u /\ active_state_' = "active" /\ BeginStop(u, l)
      /\ UNCHANGED <<synchronous_, child_objects_, op>>
  BY <1>1, <1>2, Holder DEF StartFails, Work, Fits, BeginStop
<1>4. failures' = 1 /\ child' = child
  <2>1. child[Head(todo[u])] = "not_active"
    <3>1. todo[u] \in Seq(Children)
      BY <1>1 DEF Shapes
    <3>2. Head(todo[u]) \in ToSet(todo[u])
      BY <1>3, <3>1, HeadAndTail
    <3>3. QED
      BY <1>3, <3>2 DEF Activating
  <2>2. Throws
    BY <2>1 DEF StartFails
  <2>3. QED
    BY <1>1, <2>2, ThrowsOnce
<1>5. Moves(u, "stop", "activate", l, l, FALSE)
  <2>1. op' = [op EXCEPT ![u] = "activate"] /\ errors' = [errors EXCEPT ![u] = FALSE]
    BY <1>1, <1>3 DEF Shapes, BeginStop
  <2>2. QED
    BY <1>3, <2>1 DEF BeginStop, Moves, At, Todo
<1>6. /\ pc' \in [Users -> Places] /\ op' \in [Users -> Operations]
      /\ todo' \in [Users -> Seq(Children)] /\ list' \in [Users -> Seq(Children)]
      /\ errors' \in [Users -> BOOLEAN]
      /\ pc'[u] = "stop" /\ op'[u] = "activate" /\ todo'[u] = l /\ list'[u] = l /\ errors'[u] = FALSE
      /\ \A v \in Users : v /= u => Same(v)
  <2>1. "stop" \in Places /\ "activate" \in Operations /\ FALSE \in BOOLEAN
    BY DEF Places, Operations
  <2>2. Shapes
    BY <1>1
  <2>3. QED
    BY <1>5, <2>1, <2>2, MovesTo
<1>7. Shapes'
  BY <1>1, <1>3, <1>4, <1>6 DEF Shapes
<1>8. Deactivating(u)'
  <2>1. \A c \in Owned : child[c] = "not_active" \/ c \in ToSet(l)
    BY <1>2, <1>3 DEF Activating, Covered
  <2>2. QED
    BY <1>3, <1>4, <1>6, <2>1 DEF Deactivating, Covered, Owned
<1>9. Work(u)'
  BY <1>4, <1>6, <1>8 DEF Work
<1>10. Fits(u, pc[u], op[u])' /\ (lock_' = u <=> UnderLock(pc[u], op[u])')
  BY <1>3, <1>6 DEF Fits, UnderLock
<1>11. Quiet' /\ Once(child_objects_)' /\ Unhurt(u)
  BY <1>1, <1>3 DEF Quiet, Unhurt
<1>12. QED
  BY <1>3, <1>6, <1>7, <1>9, <1>10, <1>11, Acts


\* Who ends an operation, or begins to sleep, has nothing to account for.
LEMMA SoundReturn ==
    ASSUME Sound, OneWaiter, NEW u \in Users, Returns(u), lock_ \in {u, NoUser}, lock_' = NoUser,
           Unhurt(u), active_state_' \in {"active", "deactivating", "not_active"},
           synchronous_' = synchronous_, child_objects_' \in Seq(Children),
           child' \in [Children -> States], failures' \in 0 .. 1, Once(child_objects_)', Quiet'
    PROVE  Sound'
<1>1. Shapes /\ NoUser /= u
  BY ConstantsAssumption DEF Sound
<1>2. /\ pc' \in [Users -> Places] /\ op' \in [Users -> Operations]
      /\ todo' \in [Users -> Seq(Children)] /\ list' \in [Users -> Seq(Children)]
      /\ errors' \in [Users -> BOOLEAN]
      /\ pc'[u] = "idle" /\ op'[u] = "none" /\ errors'[u] = FALSE
      /\ \A v \in Users : v /= u => Same(v)
  <2>1. "idle" \in Places /\ "none" \in Operations /\ FALSE \in BOOLEAN /\ <<>> \in Seq(Children)
    BY DEF Places, Operations
  <2>2. Moves(u, "idle", "none", <<>>, <<>>, FALSE)
    BY ReturnMoves
  <2>3. QED
    BY <1>1, <2>1, <2>2, MovesTo
<1>3. Shapes'
  BY <1>1, <1>2 DEF Shapes
<1>4. Work(u)' /\ Fits(u, pc[u], op[u])' /\ (lock_' = u <=> UnderLock(pc[u], op[u])')
  BY <1>1, <1>2 DEF Work, Fits, UnderLock
<1>5. QED
  BY <1>2, <1>3, <1>4, Acts

LEMMA SoundStarted ==
    ASSUME Sound, OneWaiter, NEW u \in Users, Started(u) PROVE Sound'
<1>1. Shapes /\ Once(child_objects_) /\ Fits(u, pc[u], op[u])
  BY DEF Sound, Stationed
<1>2. /\ Returns(u) /\ lock_ = u /\ lock_' = NoUser /\ op[u] = "activate" /\ active_state_' = "active"
      /\ UNCHANGED <<synchronous_, child_objects_, child, failures>>
  BY <1>1, Holder DEF Started, Leave, Fits
<1>3. Quiet' /\ Once(child_objects_)' /\ Unhurt(u)
  BY <1>1, <1>2 DEF Quiet, Unhurt
<1>4. /\ child_objects_' \in Seq(Children) /\ child' \in [Children -> States] /\ failures' \in 0 .. 1
      /\ active_state_' \in {"active", "deactivating", "not_active"}
  BY <1>1, <1>2 DEF Shapes
<1>5. QED
  BY <1>2, <1>3, <1>4, SoundReturn

\* The children are told to stop, by deactivate_object or clear_children.
LEMMA SoundBeginStop ==
    ASSUME Sound, OneWaiter, NEW u \in Users, NEW name \in {"deactivate", "clear"},
           pc[u] = "idle", lock_ = NoUser, active_state_ = "active", Does(u, name),
           name = "clear" => u \in Waiters, BeginStop(u, LastFirst(child_objects_)),
           UNCHANGED <<active_state_, synchronous_, child_objects_, child, failures>>
    PROVE  Sound'
<1>1. Shapes /\ Work(u) /\ Once(child_objects_)
  BY DEF Sound
<1>2. PICK r \in Seq(Children) : r = LastFirst(child_objects_) /\ ToSet(r) = Owned
  BY <1>1, InReverse DEF Shapes, LastFirst, Owned
<1>3. lock_' = u /\ Moves(u, "stop", name, r, r, FALSE)
  <2>1. errors' = [errors EXCEPT ![u] = FALSE]
    BY <1>1 DEF Shapes, BeginStop, Work
  <2>2. QED
    BY <1>2, <2>1 DEF BeginStop, Moves, At, Todo, Does
<1>4. /\ pc' \in [Users -> Places] /\ op' \in [Users -> Operations]
      /\ todo' \in [Users -> Seq(Children)] /\ list' \in [Users -> Seq(Children)]
      /\ errors' \in [Users -> BOOLEAN]
      /\ pc'[u] = "stop" /\ op'[u] = name /\ todo'[u] = r /\ list'[u] = r /\ errors'[u] = FALSE
      /\ \A v \in Users : v /= u => Same(v)
  <2>1. "stop" \in Places /\ name \in Operations /\ FALSE \in BOOLEAN
    BY DEF Places, Operations
  <2>2. QED
    BY <1>1, <1>2, <1>3, <2>1, MovesTo
<1>5. Shapes'
  BY <1>1, <1>3, <1>4 DEF Shapes
<1>6. Deactivating(u)'
  BY <1>2, <1>4 DEF Deactivating, Covered, Owned
<1>7. Work(u)'
  BY <1>4, <1>6 DEF Work
<1>8. Fits(u, pc[u], op[u])' /\ (lock_' = u <=> UnderLock(pc[u], op[u])')
  BY <1>3, <1>4 DEF Fits, UnderLock
<1>9. Quiet' /\ Once(child_objects_)' /\ Unhurt(u)
  BY <1>1 DEF Quiet, Unhurt
<1>10. QED
  BY <1>3, <1>4, <1>5, <1>7, <1>8, <1>9, Acts

LEMMA SoundDeactivate ==
    ASSUME Sound, OneWaiter, NEW u \in Users, deactivate_object(u) PROVE Sound'
<1>1. PICK name \in {"deactivate", "clear"} : name = "deactivate"
  OBVIOUS
<1>2. /\ pc[u] = "idle" /\ lock_ = NoUser /\ active_state_ = "active" /\ Does(u, name)
      /\ BeginStop(u, LastFirst(child_objects_)) /\ ~(name = "clear")
      /\ UNCHANGED <<active_state_, synchronous_, child_objects_, child, failures>>
  BY <1>1 DEF deactivate_object, Enter
<1>3. QED
  BY <1>2, SoundBeginStop

\* What the loop over the children needs when it goes on.
LEMMA SoundStopping ==
    ASSUME Sound, OneWaiter, NEW u \in Users, pc[u] \in {"stop", "sync"},
           NEW place \in {"stop", "sync"}, NEW t \in Seq(Children), NEW e \in BOOLEAN,
           Moves(u, place, op[u], t, list[u], e), place = "sync" => t /= <<>>,
           UNCHANGED <<lock_, active_state_, synchronous_, child_objects_>>,
           child' \in [Children -> States], failures' \in 0 .. 1,
           \A d \in Owned : child[d] = "not_active" => child'[d] = "not_active",
           e \/ \A d \in Owned : child'[d] /= "active" \/ d \in ToSet(t),
           op[u] = "activate" => ~e /\ failures' = failures
    PROVE  Sound'
<1>1. Shapes /\ Work(u) /\ Once(child_objects_) /\ Fits(u, pc[u], op[u]) /\ lock_ = u
  BY Holder DEF Sound, Stationed
<1>2. Deactivating(u)
  BY <1>1 DEF Work
<1>3. PICK l \in Seq(Children), name \in Operations : l = list[u] /\ name = op[u]
  BY <1>1 DEF Shapes
<1>4. /\ pc' \in [Users -> Places] /\ op' \in [Users -> Operations]
      /\ todo' \in [Users -> Seq(Children)] /\ list' \in [Users -> Seq(Children)]
      /\ errors' \in [Users -> BOOLEAN]
      /\ pc'[u] = place /\ op'[u] = op[u] /\ todo'[u] = t /\ list'[u] = list[u] /\ errors'[u] = e
      /\ \A v \in Users : v /= u => Same(v)
  <2>1. place \in Places
    BY DEF Places
  <2>2. Moves(u, place, name, t, l, e)
    BY <1>3
  <2>3. QED
    BY <1>1, <1>3, <2>1, <2>2, MovesTo
<1>5. Shapes'
  BY <1>1, <1>4 DEF Shapes
<1>6. Deactivating(u)'
  <2>1. Owned' = Owned /\ active_state_' = "active"
    BY <1>2 DEF Owned, Deactivating
  <2>2. Covered(u)'
    BY <1>2, <1>4, <2>1 DEF Deactivating, Covered
  <2>3. QED
    BY <1>4, <2>1, <2>2 DEF Deactivating
<1>7. Work(u)'
  BY <1>1, <1>4, <1>6 DEF Work
<1>8. Fits(u, pc[u], op[u])' /\ (lock_' = u <=> UnderLock(pc[u], op[u])')
  BY <1>1, <1>4 DEF Fits, UnderLock
<1>9. Quiet' /\ Once(child_objects_)' /\ Unhurt(u)
  BY <1>1, <1>2 DEF Quiet, Unhurt, Deactivating
<1>10. QED
  BY <1>1, <1>4, <1>5, <1>7, <1>8, <1>9, Acts

\* The one failure of an activation is spent when its children are stopped.
LEMMA NoSecond ==
    ASSUME Sound, failures' \in 0 .. 1, NEW u \in Users, pc[u] /= "start", Throws
    PROVE  op[u] /= "activate" /\ child' = child /\ failures' = 1
<1>1. Shapes /\ Work(u)
  BY DEF Sound
<1>2. QED
  BY <1>1, ThrowsOnce DEF Work

LEMMA SoundStopChild ==
    ASSUME Sound, OneWaiter, failures' \in 0 .. 1, NEW u \in Users, StopChild(u) PROVE Sound'
<1>1. Shapes /\ Work(u) /\ Owned \subseteq Children
  BY OwnedAre DEF Sound
<1>2. /\ pc[u] = "stop" /\ todo[u] /= <<>>
      /\ UNCHANGED <<lock_, active_state_, synchronous_, child_objects_, op, list>>
  BY DEF StopChild
<1>3. Deactivating(u)
  BY <1>1, <1>2 DEF Work
<1>4. PICK c \in Children, t \in Seq(Children) :
        /\ c = Head(todo[u]) /\ t = Tail(todo[u])
        /\ ToSet(todo[u]) = {c} \cup ToSet(t)
  <2>1. PICK q \in Seq(Children) : q = todo[u]
    BY <1>1 DEF Shapes
  <2>2. Head(q) \in Children /\ Tail(q) \in Seq(Children) /\ ToSet(q) = {Head(q)} \cup ToSet(Tail(q))
    BY <1>2, <2>1, HeadAndTail
  <2>3. QED
    BY <2>1, <2>2
<1>5. op' = [op EXCEPT ![u] = op[u]] /\ list' = [list EXCEPT ![u] = list[u]]
  BY <1>1, <1>2 DEF Shapes
<1>6. CASE /\ Becomes(c, IF child[c] = "active" THEN "stopping" ELSE child[c])
           /\ IF synchronous_ THEN At(u, "sync") /\ UNCHANGED todo ELSE Todo(u, t) /\ UNCHANGED pc
           /\ UNCHANGED <<failures, errors>>
  <2>1. PICK s \in States :
          s /= "active" /\ (child[c] = "not_active" => s = "not_active") /\ Becomes(c, s)
    <3>1. child[c] \in States
      BY <1>1, <1>4 DEF Shapes
    <3>2. CASE child[c] = "active"
      BY <1>6, <3>2 DEF States
    <3>3. CASE child[c] /= "active"
      BY <1>6, <3>1, <3>3
    <3>4. QED
      BY <3>2, <3>3
  <2>2. /\ child' \in [Children -> States] /\ child'[c] = s
        /\ \A d \in Children : d /= c => child'[d] = child[d]
    BY <1>1, <1>4, <2>1, Changed
  <2>3. PICK e \in BOOLEAN : e = errors[u] /\ errors' = [errors EXCEPT ![u] = e]
    BY <1>1, <1>6 DEF Shapes
  <2>4. \A d \in Owned : child[d] = "not_active" => child'[d] = "not_active"
    BY <1>1, <2>1, <2>2
  <2>5. e \/ \A d \in Owned : child'[d] /= "active" \/ d \in ToSet(t)
    BY <1>1, <1>3, <1>4, <2>1, <2>2, <2>3 DEF Deactivating
  <2>6. op[u] = "activate" => ~e /\ failures' = failures
    BY <1>1, <1>6, <2>3 DEF Work
  <2>7. failures' \in 0 .. 1
    BY <1>1, <1>6 DEF Shapes
  <2>8. CASE synchronous_
    <3>1. PICK q \in Seq(Children) : q = todo[u]
      BY <1>1 DEF Shapes
    <3>2. pc' = [pc EXCEPT ![u] = "sync"] /\ todo' = [todo EXCEPT ![u] = q]
      BY <1>1, <1>6, <2>8, <3>1 DEF At, Shapes
    <3>3. Moves(u, "sync", op[u], q, list[u], e)
      BY <1>5, <2>3, <3>2 DEF Moves
    <3>4. e \/ \A d \in Owned : child'[d] /= "active" \/ d \in ToSet(q)
      BY <1>4, <2>5, <3>1
    <3>5. PICK place \in {"stop", "sync"} : place = "sync"
      OBVIOUS
    <3>6. Moves(u, place, op[u], q, list[u], e) /\ q /= <<>>
      BY <1>2, <3>1, <3>3, <3>5
    <3>7. QED
      BY <1>2, <2>2, <2>4, <2>6, <2>7, <3>4, <3>6, SoundStopping
  <2>9. CASE ~synchronous_
    <3>1. PICK place \in {"stop", "sync"} : place = "stop"
      OBVIOUS
    <3>2. pc' = [pc EXCEPT ![u] = place] /\ todo' = [todo EXCEPT ![u] = t]
      BY <1>1, <1>2, <1>6, <2>9, <3>1 DEF Todo, Shapes
    <3>3. Moves(u, place, op[u], t, list[u], e) /\ place /= "sync"
      BY <1>5, <2>3, <3>1, <3>2 DEF Moves
    <3>4. QED
      BY <1>2, <2>2, <2>4, <2>5, <2>6, <2>7, <3>3, SoundStopping
  <2>10. QED
    BY <2>8, <2>9
<1>7. CASE Throws /\ Error(u) /\ Todo(u, t) /\ UNCHANGED pc
  <2>1. op[u] /= "activate" /\ child' = child /\ failures' = 1
    BY <1>2, <1>7, NoSecond
  <2>2. PICK place \in {"stop", "sync"}, e \in BOOLEAN : place = "stop" /\ e = TRUE
    OBVIOUS
  <2>3. /\ pc' = [pc EXCEPT ![u] = place] /\ todo' = [todo EXCEPT ![u] = t]
        /\ errors' = [errors EXCEPT ![u] = e]
    BY <1>1, <1>2, <1>7, <2>2 DEF Todo, Error, Shapes
  <2>4. Moves(u, place, op[u], t, list[u], e) /\ place /= "sync"
    BY <1>5, <2>2, <2>3 DEF Moves
  <2>5. child' \in [Children -> States] /\ failures' \in 0 .. 1
    BY <1>1, <2>1 DEF Shapes
  <2>6. \A d \in Owned : child[d] = "not_active" => child'[d] = "not_active"
    BY <2>1
  <2>7. QED
    BY <1>2, <2>1, <2>2, <2>4, <2>5, <2>6, SoundStopping
<1>8. QED
  BY <1>4, <1>6, <1>7 DEF StopChild

LEMMA SoundWaitAtOnce ==
    ASSUME Sound, OneWaiter, failures' \in 0 .. 1, NEW u \in Users, WaitAtOnce(u) PROVE Sound'
<1>1. Shapes /\ Work(u) /\ Owned \subseteq Children
  BY OwnedAre DEF Sound
<1>2. pc[u] = "sync" /\ UNCHANGED <<lock_, active_state_, synchronous_, child_objects_, op, list>>
  BY DEF WaitAtOnce
<1>3. Deactivating(u) /\ todo[u] /= <<>>
  BY <1>1, <1>2 DEF Work, Deactivating
<1>4. PICK c \in Children, t \in Seq(Children) :
        /\ c = Head(todo[u]) /\ t = Tail(todo[u])
        /\ ToSet(todo[u]) = {c} \cup ToSet(t)
  <2>1. PICK q \in Seq(Children) : q = todo[u]
    BY <1>1 DEF Shapes
  <2>2. Head(q) \in Children /\ Tail(q) \in Seq(Children) /\ ToSet(q) = {Head(q)} \cup ToSet(Tail(q))
    BY <1>3, <2>1, HeadAndTail
  <2>3. QED
    BY <2>1, <2>2
<1>5. PICK place \in {"stop", "sync"} : place = "stop"
  OBVIOUS
<1>6. /\ op' = [op EXCEPT ![u] = op[u]] /\ list' = [list EXCEPT ![u] = list[u]]
      /\ pc' = [pc EXCEPT ![u] = place] /\ todo' = [todo EXCEPT ![u] = t] /\ place /= "sync"
  BY <1>1, <1>2, <1>4, <1>5 DEF Shapes, WaitAtOnce, At, Todo
<1>7. CASE Waited(c) /\ UNCHANGED <<failures, errors>>
  <2>1. /\ child' \in [Children -> States] /\ child'[c] = "not_active"
        /\ \A d \in Children : d /= c => child'[d] = child[d]
    <3>1. "not_active" \in States /\ Becomes(c, "not_active")
      BY <1>7 DEF States, Waited
    <3>2. QED
      BY <1>1, <1>4, <3>1, Changed
  <2>2. PICK e \in BOOLEAN : e = errors[u] /\ errors' = [errors EXCEPT ![u] = e]
    BY <1>1, <1>7 DEF Shapes
  <2>3. \A d \in Owned : child[d] = "not_active" => child'[d] = "not_active"
    BY <1>1, <2>1
  <2>4. e \/ \A d \in Owned : child'[d] /= "active" \/ d \in ToSet(t)
    BY <1>1, <1>3, <1>4, <2>1, <2>2 DEF Deactivating
  <2>5. op[u] = "activate" => ~e /\ failures' = failures
    BY <1>1, <1>7, <2>2 DEF Work
  <2>6. failures' \in 0 .. 1
    BY <1>1, <1>7 DEF Shapes
  <2>7. Moves(u, place, op[u], t, list[u], e)
    BY <1>6, <2>2 DEF Moves
  <2>8. QED
    BY <1>2, <1>6, <2>1, <2>3, <2>4, <2>5, <2>6, <2>7, SoundStopping
<1>8. CASE Throws /\ Error(u)
  <2>1. op[u] /= "activate" /\ child' = child /\ failures' = 1
    BY <1>2, <1>8, NoSecond
  <2>2. PICK e \in BOOLEAN : e = TRUE
    OBVIOUS
  <2>3. Moves(u, place, op[u], t, list[u], e)
    BY <1>6, <1>8, <2>2 DEF Moves, Error
  <2>4. child' \in [Children -> States] /\ failures' \in 0 .. 1
    BY <1>1, <2>1 DEF Shapes
  <2>5. \A d \in Owned : child[d] = "not_active" => child'[d] = "not_active"
    BY <2>1
  <2>6. QED
    BY <1>2, <1>6, <2>1, <2>2, <2>3, <2>4, <2>5, SoundStopping
<1>9. QED
  BY <1>4, <1>7, <1>8 DEF WaitAtOnce

LEMMA SoundStopped ==
    ASSUME Sound, OneWaiter, NEW u \in Users, Stopped(u) PROVE Sound'
<1>1. Shapes /\ Work(u) /\ Once(child_objects_) /\ Fits(u, pc[u], op[u])
  BY DEF Sound, Stationed
<1>2. /\ pc[u] = "stop" /\ todo[u] = <<>> /\ lock_ = u
      /\ UNCHANGED <<synchronous_, child_objects_, child, failures>>
  BY Holder DEF Stopped
<1>3. Deactivating(u) /\ active_state_ = "active" /\ Unhurt(u)
  BY <1>1, <1>2 DEF Work, Deactivating, Unhurt
<1>4. CASE errors[u]
  <2>1. op[u] /= "activate" /\ active_state_' = "active" /\ Returns(u) /\ lock_' = NoUser
    BY <1>1, <1>4 DEF Stopped, Leave, Work
  <2>2. Quiet' /\ Once(child_objects_)'
    BY <1>1, <1>2, <2>1 DEF Quiet
  <2>3. /\ child_objects_' \in Seq(Children) /\ child' \in [Children -> States] /\ failures' \in 0 .. 1
        /\ active_state_' \in {"active", "deactivating", "not_active"}
    BY <1>1, <1>2, <2>1 DEF Shapes
  <2>4. QED
    BY <1>2, <1>3, <2>1, <2>2, <2>3, SoundReturn
<1>5. CASE ~errors[u]
  <2>1. active_state_' = "deactivating"
    BY <1>5 DEF Stopped
  <2>2. \A c \in Owned : child[c] /= "active"
    BY <1>2, <1>3, <1>5, NothingIn DEF Deactivating
  <2>3. Quiet' /\ Once(child_objects_)'
    BY <1>1, <1>2, <2>1, <2>2 DEF Quiet, Owned
  <2>4. /\ child_objects_' \in Seq(Children) /\ child' \in [Children -> States] /\ failures' \in 0 .. 1
        /\ active_state_' \in {"active", "deactivating", "not_active"}
    BY <1>1, <1>2, <2>1 DEF Shapes
  <2>5. CASE op[u] = "deactivate"
    <3>1. Returns(u) /\ lock_' = NoUser
      BY <2>5 DEF Stopped, Leave
    <3>2. QED
      BY <1>2, <1>3, <2>3, <2>4, <3>1, SoundReturn
  <2>6. CASE op[u] /= "deactivate"
    <3>1. PICK l \in Seq(Children), name \in Operations : l = list[u] /\ name = op[u]
      BY <1>1 DEF Shapes
    <3>2. /\ lock_' = u /\ name \in {"activate", "clear"}
          /\ Moves(u, "join", name, l, l, FALSE)
      <4>1. At(u, "join") /\ Todo(u, l) /\ UNCHANGED <<lock_, list, errors, op>>
        BY <1>5, <2>6, <3>1 DEF Stopped
      <4>2. /\ op' = [op EXCEPT ![u] = name] /\ list' = [list EXCEPT ![u] = l]
            /\ errors' = [errors EXCEPT ![u] = FALSE]
        BY <1>1, <1>5, <3>1, <4>1 DEF Shapes
      <4>3. QED
        BY <1>1, <1>2, <2>6, <3>1, <4>1, <4>2 DEF Moves, At, Todo, Fits
    <3>3. /\ pc' \in [Users -> Places] /\ op' \in [Users -> Operations]
          /\ todo' \in [Users -> Seq(Children)] /\ list' \in [Users -> Seq(Children)]
          /\ errors' \in [Users -> BOOLEAN]
          /\ pc'[u] = "join" /\ op'[u] = name /\ todo'[u] = l /\ errors'[u] = FALSE
          /\ \A v \in Users : v /= u => Same(v)
      <4>1. "join" \in Places /\ FALSE \in BOOLEAN
        BY DEF Places
      <4>2. QED
        BY <1>1, <3>1, <3>2, <4>1, MovesTo
    <3>4. Shapes'
      BY <1>1, <1>2, <2>1, <3>2, <3>3 DEF Shapes
    <3>5. Waiting(u)'
      BY <1>2, <1>3, <2>1, <3>1, <3>2, <3>3 DEF Waiting, Deactivating, Covered, Owned
    <3>6. Work(u)'
      BY <1>1, <1>2, <3>1, <3>3, <3>5 DEF Work
    <3>7. Fits(u, pc[u], op[u])' /\ (lock_' = u <=> UnderLock(pc[u], op[u])')
      BY <1>1, <3>1, <3>2, <3>3 DEF Fits, UnderLock
    <3>8. QED
      BY <1>2, <1>3, <2>3, <3>2, <3>3, <3>4, <3>6, <3>7, Acts
  <2>7. QED
    BY <2>5, <2>6
<1>6. QED
  BY <1>1, <1>4, <1>5 DEF Shapes

\* A child was waited for, or one has thrown.
LEMMA SoundJoining ==
    ASSUME Sound, OneWaiter, NEW u \in Users, pc[u] = "join",
           NEW t \in Seq(Children), NEW e \in BOOLEAN, Moves(u, "join", op[u], t, list[u], e),
           UNCHANGED <<lock_, active_state_, synchronous_, child_objects_>>,
           child' \in [Children -> States], failures' \in 0 .. 1,
           \A d \in Owned : child'[d] \in {child[d], "not_active"},
           e \/ \A d \in Owned : child'[d] = "not_active" \/ d \in ToSet(t),
           op[u] = "activate" => ~e /\ failures' = failures
    PROVE  Sound'
<1>1. /\ Shapes /\ Work(u) /\ Once(child_objects_) /\ Fits(u, pc[u], op[u])
      /\ lock_ = u <=> UnderLock(pc[u], op[u])
      /\ Quiet
  BY DEF Sound, Stationed
<1>2. Waiting(u)
  BY <1>1 DEF Work
<1>3. PICK l \in Seq(Children), name \in Operations : l = list[u] /\ name = op[u]
  BY <1>1 DEF Shapes
<1>4. /\ pc' \in [Users -> Places] /\ op' \in [Users -> Operations]
      /\ todo' \in [Users -> Seq(Children)] /\ list' \in [Users -> Seq(Children)]
      /\ errors' \in [Users -> BOOLEAN]
      /\ pc'[u] = "join" /\ op'[u] = op[u] /\ todo'[u] = t /\ list'[u] = list[u] /\ errors'[u] = e
      /\ \A v \in Users : v /= u => Same(v)
  <2>1. "join" \in Places
    BY DEF Places
  <2>2. Moves(u, "join", name, t, l, e)
    BY <1>3
  <2>3. QED
    BY <1>1, <1>3, <2>1, <2>2, MovesTo
<1>5. Shapes'
  BY <1>1, <1>4 DEF Shapes
<1>6. Owned' = Owned /\ active_state_' = "deactivating"
  BY <1>2 DEF Owned, Waiting
<1>7. Waiting(u)'
  <2>1. \A v \in Users : op'[v] = op[v]
    BY <1>4 DEF Same
  <2>2. QED
    BY <1>2, <1>4, <1>6, <2>1 DEF Waiting
<1>8. Work(u)'
  BY <1>1, <1>4, <1>7 DEF Work
<1>9. Fits(u, pc[u], op[u])' /\ (lock_' = u <=> UnderLock(pc[u], op[u])')
  BY <1>1, <1>4 DEF Fits, UnderLock
<1>10. Quiet' /\ Once(child_objects_)'
  BY <1>1, <1>6 DEF Quiet
<1>11. CASE op[u] = "wait"
  BY <1>4, <1>5, <1>8, <1>9, <1>10, <1>11, Acts
<1>12. CASE op[u] /= "wait"
  <2>1. lock_ = u /\ Unhurt(u)
    BY <1>1, <1>12 DEF UnderLock, Fits, Unhurt
  <2>2. QED
    BY <1>4, <1>5, <1>8, <1>9, <1>10, <2>1, Acts
<1>13. QED
  BY <1>11, <1>12

LEMMA SoundJoinChild ==
    ASSUME Sound, OneWaiter, failures' \in 0 .. 1, NEW u \in Users, JoinChild(u) PROVE Sound'
<1>1. Shapes /\ Work(u) /\ Owned \subseteq Children
  BY OwnedAre DEF Sound
<1>2. /\ pc[u] = "join" /\ todo[u] /= <<>>
      /\ UNCHANGED <<lock_, active_state_, synchronous_, child_objects_, pc, op, list>>
  BY DEF JoinChild
<1>3. Waiting(u)
  BY <1>1, <1>2 DEF Work
<1>4. PICK q \in Seq(Children), c \in Children, t \in Seq(Children) :
        /\ q = todo[u] /\ c = Head(todo[u]) /\ t = Tail(todo[u]) /\ ToSet(q) = {c} \cup ToSet(t)
  <2>1. PICK q \in Seq(Children) : q = todo[u]
    BY <1>1 DEF Shapes
  <2>2. Head(q) \in Children /\ Tail(q) \in Seq(Children) /\ ToSet(q) = {Head(q)} \cup ToSet(Tail(q))
    BY <1>2, <2>1, HeadAndTail
  <2>3. QED
    BY <2>1, <2>2
<1>5. /\ op' = [op EXCEPT ![u] = op[u]] /\ list' = [list EXCEPT ![u] = list[u]]
      /\ pc' = [pc EXCEPT ![u] = "join"]
  BY <1>1, <1>2 DEF Shapes
<1>6. CASE Waited(c) /\ Todo(u, t) /\ UNCHANGED <<failures, errors>>
  <2>1. /\ child' \in [Children -> States] /\ child'[c] = "not_active"
        /\ \A d \in Children : d /= c => child'[d] = child[d]
    <3>1. "not_active" \in States /\ Becomes(c, "not_active")
      BY <1>6 DEF States, Waited
    <3>2. QED
      BY <1>1, <3>1, Changed
  <2>2. PICK e \in BOOLEAN : e = errors[u] /\ errors' = [errors EXCEPT ![u] = e]
    BY <1>1, <1>6 DEF Shapes
  <2>3. \A d \in Owned : child'[d] \in {child[d], "not_active"}
    BY <1>1, <2>1
  <2>4. e \/ \A d \in Owned : child'[d] = "not_active" \/ d \in ToSet(t)
    BY <1>1, <1>3, <1>4, <2>1, <2>2 DEF Waiting
  <2>5. op[u] = "activate" => ~e /\ failures' = failures
    BY <1>1, <1>6, <2>2 DEF Work
  <2>6. failures' \in 0 .. 1
    BY <1>1, <1>6 DEF Shapes
  <2>7. Moves(u, "join", op[u], t, list[u], e)
    BY <1>5, <1>6, <2>2 DEF Moves, Todo
  <2>8. QED
    BY <1>2, <2>1, <2>3, <2>4, <2>5, <2>6, <2>7, SoundJoining
<1>7. CASE Throws /\ Error(u) /\ Todo(u, IF errors[u] THEN t ELSE q)
  <2>1. op[u] /= "activate" /\ child' = child /\ failures' = 1
    BY <1>2, <1>7, NoSecond
  <2>2. PICK e \in BOOLEAN : e = TRUE
    OBVIOUS
  <2>3. PICK s \in Seq(Children) : todo' = [todo EXCEPT ![u] = s]
    BY <1>7 DEF Todo
  <2>4. Moves(u, "join", op[u], s, list[u], e)
    BY <1>5, <1>7, <2>2, <2>3 DEF Moves, Error
  <2>5. child' \in [Children -> States] /\ failures' \in 0 .. 1
    BY <1>1, <2>1 DEF Shapes
  <2>6. \A d \in Owned : child'[d] \in {child[d], "not_active"}
    BY <2>1
  <2>7. QED
    BY <1>2, <2>1, <2>2, <2>4, <2>5, <2>6, SoundJoining
<1>8. QED
  BY <1>4, <1>6, <1>7 DEF JoinChild

\* Who has waited for all children without a failure finds none that works.
LEMMA AllWaited ==
    ASSUME Sound, NEW u \in Users, pc[u] = "join", todo[u] = <<>>, ~errors[u]
    PROVE  \A c \in Owned : child[c] = "not_active"
<1>1. Waiting(u)
  BY DEF Sound, Work
<1>2. QED
  BY <1>1, NothingIn DEF Waiting

LEMMA SoundJoinedUnderLock ==
    ASSUME Sound, OneWaiter, NEW u \in Users, JoinedUnderLock(u) PROVE Sound'
<1>1. Shapes /\ Work(u) /\ Once(child_objects_) /\ Fits(u, pc[u], op[u]) /\ Quiet
  BY DEF Sound, Stationed
<1>2. /\ pc[u] = "join" /\ todo[u] = <<>> /\ op[u] \in {"activate", "clear"}
      /\ Returns(u) /\ lock_ = u /\ lock_' = NoUser
      /\ UNCHANGED <<synchronous_, child, failures>>
  BY Holder DEF JoinedUnderLock, Leave
<1>3. Unhurt(u)
  BY <1>1, <1>2 DEF Unhurt, Fits
<1>4. Waiting(u) /\ active_state_ = "deactivating"
  BY <1>1, <1>2 DEF Work, Waiting
<1>5. CASE op[u] = "clear" /\ errors[u]
  <2>1. UNCHANGED <<active_state_, child_objects_>>
    BY <1>5 DEF JoinedUnderLock
  <2>2. Quiet' /\ Once(child_objects_)'
    BY <1>1, <1>2, <1>4, <2>1 DEF Quiet, Owned
  <2>3. /\ child_objects_' \in Seq(Children) /\ child' \in [Children -> States] /\ failures' \in 0 .. 1
        /\ active_state_' \in {"active", "deactivating", "not_active"}
    BY <1>1, <1>2, <2>1 DEF Shapes
  <2>4. QED
    BY <1>2, <1>3, <2>2, <2>3, SoundReturn
<1>6. CASE ~(op[u] = "clear" /\ errors[u])
  <2>1. /\ active_state_' = "not_active"
        /\ child_objects_' = IF op[u] = "clear" THEN <<>> ELSE child_objects_
    BY <1>6 DEF JoinedUnderLock
  <2>2. \A c \in Owned : child[c] = "not_active"
    BY <1>1, <1>2, <1>6, AllWaited DEF Work
  <2>3. child_objects_' \in Seq(Children) /\ Once(child_objects_)' /\ Owned' \subseteq Owned
    BY <1>1, <2>1, NothingIn DEF Shapes, Once, Owned
  <2>4. Quiet'
    BY <1>2, <2>1, <2>2, <2>3 DEF Quiet
  <2>5. /\ child' \in [Children -> States] /\ failures' \in 0 .. 1
        /\ active_state_' \in {"active", "deactivating", "not_active"}
    BY <1>1, <1>2, <2>1 DEF Shapes
  <2>6. QED
    BY <1>2, <1>3, <2>3, <2>4, <2>5, SoundReturn
<1>7. QED
  BY <1>5, <1>6

\* Nobody moves, and no child of the composite begins to work or is waited for.
LEMMA SoundChildren ==
    ASSUME Sound, UNCHANGED <<lock_, active_state_, synchronous_, child_objects_, locals>>,
           child' \in [Children -> States],
           \A c \in Owned : child'[c] = "active" <=> child[c] = "active",
           \A c \in Owned : child'[c] = "not_active" <=> child[c] = "not_active",
           failures' \in 0 .. 1, failures = 1 => failures' = 1
    PROVE  Sound'
<1>1. Shapes /\ Once(child_objects_) /\ Stationed /\ (\A u \in Users : Work(u)) /\ Quiet
  BY DEF Sound
<1>2. UNCHANGED <<pc, op, todo, list, errors>> /\ Owned' = Owned
  BY DEF locals, Owned
<1>3. Shapes'
  BY <1>1, <1>2 DEF Shapes
<1>4. Stationed' /\ Once(child_objects_)'
  BY <1>1, <1>2 DEF Stationed, Fits, UnderLock
<1>5. ASSUME NEW u \in Users PROVE Work(u)'
  <2>1. Work(u) /\ pc'[u] = pc[u] /\ op'[u] = op[u] /\ errors'[u] = errors[u]
    BY <1>1, <1>2
  <2>2. Covered(u) => Covered(u)'
    BY <1>2 DEF Covered
  <2>3. Activating(u) => Activating(u)'
    BY <1>2, <2>2 DEF Activating
  <2>4. Deactivating(u) => Deactivating(u)'
    BY <1>2, <2>2 DEF Deactivating
  <2>5. Waiting(u) => Waiting(u)'
    BY <1>2 DEF Waiting
  <2>6. Adding(u) => Adding(u)'
    BY <1>2 DEF Adding
  <2>7. QED
    BY <2>1, <2>3, <2>4, <2>5, <2>6 DEF Work
<1>6. Quiet'
  BY <1>1, <1>2 DEF Quiet
<1>7. QED
  BY <1>3, <1>4, <1>5, <1>6 DEF Sound

LEMMA SoundEndChild ==
    ASSUME Sound, NEW c \in Children, EndChild(c) PROVE Sound'
<1>1. Shapes /\ Owned \subseteq Children
  BY OwnedAre DEF Sound
<1>2. /\ child[c] = "stopping" /\ Becomes(c, "ended")
      /\ UNCHANGED <<lock_, active_state_, synchronous_, child_objects_, failures, locals>>
  BY DEF EndChild
<1>3. /\ child' \in [Children -> States] /\ child'[c] = "ended"
      /\ \A d \in Children : d /= c => child'[d] = child[d]
  <2>1. "ended" \in States
    BY DEF States
  <2>2. QED
    BY <1>1, <1>2, <2>1, Changed
<1>4. /\ \A d \in Owned : child'[d] = "active" <=> child[d] = "active"
      /\ \A d \in Owned : child'[d] = "not_active" <=> child[d] = "not_active"
  BY <1>1, <1>2, <1>3
<1>5. failures' \in 0 .. 1 /\ (failures = 1 => failures' = 1)
  BY <1>1, <1>2 DEF Shapes
<1>6. QED
  BY <1>2, <1>3, <1>4, <1>5, SoundChildren

LEMMA SoundStartOutside ==
    ASSUME Sound, NEW c \in Children, StartOutside(c) PROVE Sound'
<1>1. Shapes /\ Owned \subseteq Children
  BY OwnedAre DEF Sound
<1>2. /\ c \notin Owned /\ Becomes(c, "active")
      /\ UNCHANGED <<lock_, active_state_, synchronous_, child_objects_, failures, locals>>
  BY DEF StartOutside
<1>3. /\ child' \in [Children -> States]
      /\ \A d \in Children : d /= c => child'[d] = child[d]
  <2>1. "active" \in States
    BY DEF States
  <2>2. QED
    BY <1>1, <1>2, <2>1, Changed
<1>4. \A d \in Owned : child'[d] = child[d]
  BY <1>1, <1>2, <1>3
<1>5. failures' \in 0 .. 1 /\ (failures = 1 => failures' = 1)
  BY <1>1, <1>2 DEF Shapes
<1>6. QED
  BY <1>2, <1>3, <1>4, <1>5, SoundChildren

LEMMA SoundLook ==
    ASSUME Sound, OneWaiter, NEW u \in Waiters, pc[u] \in {"idle", "sleep"}, Look(u) PROVE Sound'
<1>1. u \in Users /\ Shapes /\ Work(u) /\ Once(child_objects_) /\ Quiet /\ Unhurt(u)
  BY ConstantsAssumption DEF Sound, Unhurt
<1>2. lock_ = NoUser /\ UNCHANGED <<lock_, active_state_, synchronous_, child_objects_, child, failures>>
  BY DEF Look
<1>3. PICK place \in Places, name \in Operations, t \in Seq(Children) :
        /\ Moves(u, place, name, t, list[u], FALSE)
        /\ \/ /\ active_state_ /= "deactivating" /\ place \in {"sleep", "idle"}
              /\ name = IF place = "sleep" THEN "wait" ELSE "none"
           \/ active_state_ = "deactivating" /\ place = "join" /\ name = "wait" /\ ToSet(t) = Owned
  <2>1. list' = [list EXCEPT ![u] = list[u]] /\ errors' = [errors EXCEPT ![u] = FALSE]
    BY <1>1 DEF Shapes, Look, Work
  <2>2. CASE active_state_ = "active"
    <3>1. At(u, "sleep") /\ Todo(u, <<>>) /\ Does(u, "wait")
      BY <2>2 DEF Look
    <3>2. Moves(u, "sleep", "wait", <<>>, list[u], FALSE)
      BY <2>1, <3>1 DEF Moves, At, Todo, Does
    <3>3. "sleep" \in Places /\ "wait" \in Operations /\ <<>> \in Seq(Children)
      BY DEF Places, Operations
    <3>4. QED
      BY <2>2, <3>2, <3>3
  <2>3. CASE active_state_ = "deactivating"
    <3>1. PICK r \in Seq(Children) : r = LastFirst(child_objects_) /\ ToSet(r) = Owned
      BY <1>1, InReverse DEF Shapes, LastFirst, Owned
    <3>2. At(u, "join") /\ Todo(u, r) /\ Does(u, "wait")
      BY <2>3, <3>1 DEF Look
    <3>3. Moves(u, "join", "wait", r, list[u], FALSE)
      BY <2>1, <3>2 DEF Moves, At, Todo, Does
    <3>4. "join" \in Places /\ "wait" \in Operations
      BY DEF Places, Operations
    <3>5. QED
      BY <2>3, <3>1, <3>3, <3>4
  <2>4. CASE active_state_ = "not_active"
    <3>1. At(u, "idle") /\ Todo(u, <<>>) /\ Does(u, "none")
      BY <2>4 DEF Look
    <3>2. Moves(u, "idle", "none", <<>>, list[u], FALSE)
      BY <2>1, <3>1 DEF Moves, At, Todo, Does
    <3>3. "idle" \in Places /\ "none" \in Operations /\ <<>> \in Seq(Children)
      BY DEF Places, Operations
    <3>4. QED
      BY <2>4, <3>2, <3>3
  <2>5. QED
    BY <1>1, <2>2, <2>3, <2>4 DEF Shapes
<1>4. PICK l \in Seq(Children) : l = list[u]
  BY <1>1 DEF Shapes
<1>5. /\ pc' \in [Users -> Places] /\ op' \in [Users -> Operations]
      /\ todo' \in [Users -> Seq(Children)] /\ list' \in [Users -> Seq(Children)]
      /\ errors' \in [Users -> BOOLEAN]
      /\ pc'[u] = place /\ op'[u] = name /\ todo'[u] = t /\ errors'[u] = FALSE
      /\ \A v \in Users : v /= u => Same(v)
  <2>1. FALSE \in BOOLEAN /\ Moves(u, place, name, t, l, FALSE)
    BY <1>3, <1>4
  <2>2. QED
    BY <1>1, <2>1, MovesTo
<1>6. Shapes'
  BY <1>1, <1>2, <1>5 DEF Shapes
<1>7. place = "join" => Waiting(u)'
  <2>1. \A v \in Users : op[v] /= "activate"
    BY <1>2, LockFree
  <2>2. \A v \in Users : v /= u => op'[v] /= "activate"
    BY <1>5, <2>1 DEF Same
  <2>3. place = "join" => \A v \in Users : op'[v] /= "activate"
    BY <1>3, <1>5, <2>2
  <2>4. QED
    BY <1>2, <1>3, <1>5, <2>3 DEF Waiting, Owned
<1>8. Work(u)'
  BY <1>3, <1>5, <1>7 DEF Work
<1>9. Fits(u, pc[u], op[u])' /\ (lock_' = u <=> UnderLock(pc[u], op[u])')
  BY <1>1, <1>2, <1>3, <1>5, ConstantsAssumption DEF Fits, UnderLock
<1>10. Quiet' /\ Once(child_objects_)'
  <2>1. \A v \in Users : pc[v] /= "start"
    BY <1>2, LockFree
  <2>2. QED
    BY <1>1, <1>2, <2>1 DEF Quiet, Owned
<1>11. QED
  BY <1>1, <1>2, <1>5, <1>6, <1>8, <1>9, <1>10, Acts

LEMMA SoundEndWait ==
    ASSUME Sound, OneWaiter, NEW u \in Users, EndWait(u) PROVE Sound'
<1>1. /\ Shapes /\ Work(u) /\ Once(child_objects_) /\ Fits(u, pc[u], op[u]) /\ Quiet
      /\ lock_ = u <=> UnderLock(pc[u], op[u])
  BY DEF Sound, Stationed
<1>2. /\ pc[u] = "join" /\ todo[u] = <<>> /\ op[u] = "wait" /\ Returns(u)
      /\ UNCHANGED <<lock_, synchronous_, child_objects_, child, failures>>
  BY DEF EndWait
<1>3. Waiting(u) /\ active_state_ = "deactivating" /\ Unhurt(u) /\ lock_ /= u
  BY <1>1, <1>2 DEF Work, Waiting, Unhurt, Fits, UnderLock
<1>4. CASE /\ ~errors[u] /\ lock_ = NoUser
           /\ active_state_' = IF active_state_ = "deactivating" THEN "not_active" ELSE active_state_
  <2>1. \A c \in Owned : child[c] = "not_active"
    BY <1>2, <1>4, AllWaited
  <2>2. Quiet' /\ Once(child_objects_)'
    BY <1>1, <1>2, <1>3, <1>4, <2>1 DEF Quiet, Owned
  <2>3. /\ child_objects_' \in Seq(Children) /\ child' \in [Children -> States] /\ failures' \in 0 .. 1
        /\ active_state_' \in {"active", "deactivating", "not_active"}
    BY <1>1, <1>2, <1>3, <1>4 DEF Shapes
  <2>4. QED
    BY <1>2, <1>3, <1>4, <2>2, <2>3, SoundReturn
<1>5. CASE errors[u] /\ UNCHANGED active_state_
  <2>1. /\ pc' \in [Users -> Places] /\ op' \in [Users -> Operations]
        /\ todo' \in [Users -> Seq(Children)] /\ list' \in [Users -> Seq(Children)]
        /\ errors' \in [Users -> BOOLEAN]
        /\ pc'[u] = "idle" /\ op'[u] = "none" /\ errors'[u] = FALSE
        /\ \A v \in Users : v /= u => Same(v)
    <3>1. "idle" \in Places /\ "none" \in Operations /\ FALSE \in BOOLEAN /\ <<>> \in Seq(Children)
      BY DEF Places, Operations
    <3>2. Moves(u, "idle", "none", <<>>, <<>>, FALSE)
      BY <1>2, ReturnMoves
    <3>3. QED
      BY <1>1, <3>1, <3>2, MovesTo
  <2>2. Shapes'
    BY <1>1, <1>2, <1>5, <2>1 DEF Shapes
  <2>3. Work(u)' /\ Fits(u, pc[u], op[u])' /\ (lock_' = u <=> UnderLock(pc[u], op[u])')
    BY <1>2, <1>3, <2>1 DEF Work, Fits, UnderLock
  <2>4. Quiet' /\ Once(child_objects_)'
    BY <1>1, <1>2, <1>3, <1>5 DEF Quiet, Owned
  <2>5. QED
    BY <1>2, <1>5, <2>1, <2>2, <2>3, <2>4, Acts
<1>6. QED
  BY <1>4, <1>5 DEF EndWait

\* A child that is added, by a user who is where it was.
LEMMA SoundAdded ==
    ASSUME Sound, OneWaiter, NEW u \in Users, pc[u] = "idle", lock_ = NoUser,
           UNCHANGED <<lock_, active_state_, synchronous_, locals>>,
           NEW c \in Children, c \notin Owned, Push(c),
           child' \in [Children -> States], \A d \in Owned : child'[d] = child[d],
           active_state_ /= "active" => child'[c] = "not_active", failures' \in 0 .. 1
    PROVE  Sound'
<1>1. /\ Shapes /\ Work(u) /\ Once(child_objects_) /\ Fits(u, pc[u], op[u]) /\ Quiet
      /\ lock_ = u <=> UnderLock(pc[u], op[u])
  BY DEF Sound, Stationed
<1>2. /\ child_objects_' \in Seq(Children) /\ Once(child_objects_)' /\ Owned' = Owned \cup {c}
  <2>1. PICK s \in Seq(Children) : s = child_objects_
    BY <1>1 DEF Shapes
  <2>2. Append(s, c) \in Seq(Children) /\ ToSet(Append(s, c)) = ToSet(s) \cup {c} /\ Once(Append(s, c))
    BY <1>1, <2>1, InAppend DEF Owned
  <2>3. QED
    BY <2>1, <2>2 DEF Push, Owned
<1>3. UNCHANGED <<pc, op, todo, list, errors>>
  BY DEF locals
<1>4. Shapes'
  BY <1>1, <1>2, <1>3 DEF Shapes
<1>5. \A v \in Users : Same(v)
  BY <1>3 DEF Same
<1>6. Work(u)' /\ Fits(u, pc[u], op[u])' /\ (lock_' = u <=> UnderLock(pc[u], op[u])')
  BY <1>1, <1>3 DEF Work, Fits, UnderLock
<1>7. Quiet'
  <2>1. \A v \in Users : pc[v] /= "start"
    BY LockFree
  <2>2. QED
    BY <1>1, <1>2, <2>1 DEF Quiet
<1>8. Unhurt(u)
  <2>1. op'[u] /= "activate"
    BY <1>1, <1>3 DEF Fits
  <2>2. active_state_ = "deactivating"
            => \A d \in Owned' : child'[d] = "not_active" \/ (d \in Owned /\ child'[d] = child[d])
    BY <1>2
  <2>3. QED
    BY <2>1, <2>2 DEF Unhurt
<1>9. QED
  BY <1>2, <1>4, <1>5, <1>6, <1>7, <1>8, Acts

LEMMA SoundAddToActive ==
    ASSUME Sound, OneWaiter, failures' \in 0 .. 1, NEW u \in Users, NEW c \in Children, AddToActive(u, c)
    PROVE  Sound'
<1>1. Shapes /\ Owned \subseteq Children
  BY OwnedAre DEF Sound
<1>2. /\ pc[u] = "idle" /\ lock_ = NoUser /\ active_state_ = "active" /\ c \notin Owned
      /\ UNCHANGED <<lock_, active_state_, synchronous_, locals>>
  BY DEF AddToActive, Enter
<1>3. CASE Becomes(c, "active") /\ Push(c) /\ UNCHANGED failures
  <2>1. /\ child' \in [Children -> States]
        /\ \A d \in Children : d /= c => child'[d] = child[d]
    <3>1. "active" \in States
      BY DEF States
    <3>2. QED
      BY <1>1, <1>3, <3>1, Changed
  <2>2. failures' \in 0 .. 1 /\ \A d \in Owned : child'[d] = child[d]
    BY <1>1, <1>2, <1>3, <2>1 DEF Shapes
  <2>3. QED
    BY <1>2, <1>3, <2>1, <2>2, SoundAdded
<1>4. CASE Throws /\ UNCHANGED child_objects_
  <2>1. failures' = 1 /\ child' = child
    BY <1>1, <1>4, ThrowsOnce
  <2>2. child' \in [Children -> States] /\ failures' \in 0 .. 1
    BY <1>1, <2>1 DEF Shapes
  <2>3. QED
    BY <1>2, <1>4, <2>1, <2>2, SoundChildren
<1>5. QED
  BY <1>3, <1>4 DEF AddToActive

LEMMA SoundAddToInactive ==
    ASSUME Sound, OneWaiter, NEW u \in Users, NEW c \in Children, AddToInactive(u, c) PROVE Sound'
<1>1. /\ Shapes /\ Owned \subseteq Children /\ Work(u) /\ Once(child_objects_) /\ Quiet
      /\ Fits(u, pc[u], op[u])
  BY OwnedAre DEF Sound, Stationed
<1>2. /\ pc[u] = "idle" /\ lock_ = NoUser /\ active_state_ /= "active" /\ c \notin Owned
      /\ UNCHANGED <<active_state_, synchronous_, list, errors>>
  BY DEF AddToInactive, Enter
<1>3. CASE /\ child[c] = "not_active" /\ Push(c)
           /\ UNCHANGED <<lock_, child, failures, pc, op, todo>>
  <2>1. UNCHANGED <<lock_, active_state_, synchronous_, locals>>
    BY <1>2, <1>3 DEF locals
  <2>2. child' \in [Children -> States] /\ failures' \in 0 .. 1 /\ child' = child
    BY <1>1, <1>3 DEF Shapes
  <2>3. QED
    BY <1>2, <1>3, <2>1, <2>2, SoundAdded
<1>4. CASE /\ child[c] = "active" /\ Becomes(c, "stopping")
           /\ lock_' = u /\ At(u, "adopt") /\ Does(u, "add") /\ Todo(u, <<c>>)
           /\ UNCHANGED <<child_objects_, failures>>
  <2>1. /\ child' \in [Children -> States] /\ \A d \in Owned : child'[d] = child[d]
    <3>1. "stopping" \in States
      BY DEF States
    <3>2. /\ child' \in [Children -> States] /\ \A d \in Children : d /= c => child'[d] = child[d]
      BY <1>1, <1>4, <3>1, Changed
    <3>3. QED
      BY <1>1, <1>2, <3>2
  <2>2. PICK l \in Seq(Children), t \in Seq(Children) :
          l = list[u] /\ t = <<c>> /\ t /= <<>> /\ Head(t) = c
    <3>1. <<c>> \in Seq(Children) /\ <<c>> /= <<>> /\ Head(<<c>>) = c
      OBVIOUS
    <3>2. list[u] \in Seq(Children)
      BY <1>1 DEF Shapes
    <3>3. QED
      BY <3>1, <3>2
  <2>3. Moves(u, "adopt", "add", t, l, FALSE)
    <3>1. list' = [list EXCEPT ![u] = l] /\ errors' = [errors EXCEPT ![u] = FALSE]
      BY <1>1, <1>2, <2>2 DEF Shapes, Work
    <3>2. QED
      BY <1>4, <2>2, <3>1 DEF Moves, At, Does, Todo
  <2>4. /\ pc' \in [Users -> Places] /\ op' \in [Users -> Operations]
        /\ todo' \in [Users -> Seq(Children)] /\ list' \in [Users -> Seq(Children)]
        /\ errors' \in [Users -> BOOLEAN]
        /\ pc'[u] = "adopt" /\ op'[u] = "add" /\ todo'[u] = t /\ errors'[u] = FALSE
        /\ \A v \in Users : v /= u => Same(v)
    <3>1. "adopt" \in Places /\ "add" \in Operations /\ FALSE \in BOOLEAN
      BY DEF Places, Operations
    <3>2. QED
      BY <1>1, <2>2, <2>3, <3>1, MovesTo
  <2>5. Shapes'
    BY <1>1, <1>2, <1>4, <2>1, <2>4 DEF Shapes
  <2>6. Work(u)'
    BY <1>2, <1>4, <2>2, <2>4 DEF Work, Adding, Owned
  <2>7. Fits(u, pc[u], op[u])' /\ (lock_' = u <=> UnderLock(pc[u], op[u])')
    BY <1>4, <2>4 DEF Fits, UnderLock
  <2>8. Quiet' /\ Once(child_objects_)'
    <3>1. \A v \in Users : pc[v] /= "start"
      BY <1>2, LockFree
    <3>2. QED
      BY <1>1, <1>2, <1>4, <2>1, <3>1 DEF Quiet, Owned
  <2>9. Unhurt(u)
    <3>1. Owned' = Owned
      BY <1>4 DEF Owned
    <3>2. QED
      BY <1>2, <2>1, <2>4, <3>1 DEF Unhurt
  <2>10. QED
    BY <1>2, <1>4, <2>4, <2>5, <2>6, <2>7, <2>8, <2>9, Acts
<1>5. QED
  BY <1>3, <1>4 DEF AddToInactive

LEMMA SoundAdopt ==
    ASSUME Sound, OneWaiter, failures' \in 0 .. 1, NEW u \in Users, Adopt(u) PROVE Sound'
<1>1. /\ Shapes /\ Owned \subseteq Children /\ Work(u) /\ Once(child_objects_) /\ Quiet
  BY OwnedAre DEF Sound
<1>2. /\ pc[u] = "adopt" /\ lock_ = u /\ Returns(u) /\ lock_' = NoUser
      /\ UNCHANGED <<active_state_, synchronous_>>
  BY Holder DEF Adopt, Leave
<1>3. Adding(u)
  BY <1>1, <1>2 DEF Work
<1>4. PICK c \in Children : c = Head(todo[u]) /\ c \notin Owned
  <2>1. todo[u] \in Seq(Children)
    BY <1>1 DEF Shapes
  <2>2. QED
    BY <1>3, <2>1, HeadAndTail DEF Adding
<1>5. \A v \in Users : pc[v] /= "start"
  BY <1>2, Holder
<1>6. op'[u] /= "activate"
  BY <1>1, <1>2 DEF Returns, Does, Shapes
<1>7. active_state_' \in {"active", "deactivating", "not_active"} /\ synchronous_' = synchronous_
  BY <1>1, <1>2 DEF Shapes
<1>8. CASE Waited(c) /\ Push(c) /\ UNCHANGED failures
  <2>1. /\ child' \in [Children -> States] /\ child'[c] = "not_active"
        /\ \A d \in Children : d /= c => child'[d] = child[d]
    <3>1. "not_active" \in States /\ Becomes(c, "not_active")
      BY <1>8 DEF States, Waited
    <3>2. QED
      BY <1>1, <3>1, Changed
  <2>2. /\ child_objects_' \in Seq(Children) /\ Once(child_objects_)' /\ Owned' = Owned \cup {c}
    <3>1. PICK s \in Seq(Children) : s = child_objects_
      BY <1>1 DEF Shapes
    <3>2. Append(s, c) \in Seq(Children) /\ ToSet(Append(s, c)) = ToSet(s) \cup {c} /\ Once(Append(s, c))
      BY <1>1, <1>4, <3>1, InAppend DEF Owned
    <3>3. QED
      BY <1>8, <3>1, <3>2 DEF Push, Owned
  <2>3. \A d \in Owned : child'[d] = child[d]
    BY <1>1, <1>4, <2>1
  <2>4. Quiet'
    BY <1>1, <1>2, <1>5, <2>1, <2>2, <2>3 DEF Quiet
  <2>5. Unhurt(u)
    BY <1>2, <1>6, <2>1, <2>2, <2>3 DEF Unhurt
  <2>6. failures' \in 0 .. 1
    BY <1>1, <1>8 DEF Shapes
  <2>7. QED
    BY <1>2, <1>7, <2>1, <2>2, <2>4, <2>5, <2>6, SoundReturn
<1>9. CASE Throws /\ UNCHANGED child_objects_
  <2>1. failures' = 1 /\ child' = child /\ Owned' = Owned
    BY <1>1, <1>9, ThrowsOnce DEF Owned
  <2>2. Quiet' /\ Unhurt(u)
    BY <1>1, <1>2, <1>5, <1>6, <2>1 DEF Quiet, Unhurt
  <2>3. /\ child_objects_' \in Seq(Children) /\ child' \in [Children -> States] /\ failures' \in 0 .. 1
        /\ Once(child_objects_)'
    BY <1>1, <1>9, <2>1 DEF Shapes
  <2>4. QED
    BY <1>2, <1>7, <2>2, <2>3, SoundReturn
<1>10. QED
  BY <1>4, <1>8, <1>9 DEF Adopt

LEMMA SoundClear ==
    ASSUME Sound, OneWaiter, NEW u \in Waiters, clear_children(u) PROVE Sound'
<1>1. /\ u \in Users /\ Shapes /\ Work(u) /\ Once(child_objects_) /\ Quiet /\ Unhurt(u)
      /\ Fits(u, pc[u], op[u]) /\ (lock_ = u <=> UnderLock(pc[u], op[u]))
  BY ConstantsAssumption DEF Sound, Unhurt, Stationed
<1>2. /\ pc[u] = "idle" /\ lock_ = NoUser
      /\ UNCHANGED <<active_state_, synchronous_, child, failures>>
  BY DEF clear_children, Enter
<1>3. CASE active_state_ = "active"
  <2>1. PICK name \in {"deactivate", "clear"} : name = "clear"
    OBVIOUS
  <2>2. Does(u, name) /\ BeginStop(u, LastFirst(child_objects_)) /\ UNCHANGED child_objects_
    BY <1>3, <2>1 DEF clear_children
  <2>3. QED
    BY <1>1, <1>2, <1>3, <2>2, SoundBeginStop
<1>4. CASE active_state_ = "deactivating"
  <2>1. PICK r \in Seq(Children) : r = LastFirst(child_objects_) /\ ToSet(r) = Owned
    BY <1>1, InReverse DEF Shapes, LastFirst, Owned
  <2>2. /\ Does(u, "clear") /\ lock_' = u /\ At(u, "join") /\ Todo(u, r)
        /\ UNCHANGED <<child_objects_, list, errors>>
    BY <1>4, <2>1 DEF clear_children
  <2>3. PICK l \in Seq(Children) : l = list[u]
    BY <1>1 DEF Shapes
  <2>4. Moves(u, "join", "clear", r, l, FALSE)
    <3>1. list' = [list EXCEPT ![u] = l] /\ errors' = [errors EXCEPT ![u] = FALSE]
      BY <1>1, <1>2, <2>2, <2>3 DEF Shapes, Work
    <3>2. QED
      BY <2>2, <3>1 DEF Moves, At, Does, Todo
  <2>5. /\ pc' \in [Users -> Places] /\ op' \in [Users -> Operations]
        /\ todo' \in [Users -> Seq(Children)] /\ list' \in [Users -> Seq(Children)]
        /\ errors' \in [Users -> BOOLEAN]
        /\ pc'[u] = "join" /\ op'[u] = "clear" /\ todo'[u] = r /\ errors'[u] = FALSE
        /\ \A v \in Users : v /= u => Same(v)
    <3>1. "join" \in Places /\ "clear" \in Operations /\ FALSE \in BOOLEAN
      BY DEF Places, Operations
    <3>2. QED
      BY <1>1, <2>1, <2>3, <2>4, <3>1, MovesTo
  <2>6. Shapes'
    BY <1>1, <1>2, <2>2, <2>5 DEF Shapes
  <2>7. Work(u)'
    BY <1>2, <1>4, <2>1, <2>2, <2>5 DEF Work, Waiting, Owned
  <2>8. Fits(u, pc[u], op[u])' /\ (lock_' = u <=> UnderLock(pc[u], op[u])')
    BY <2>2, <2>5 DEF Fits, UnderLock
  <2>9. Quiet' /\ Once(child_objects_)'
    BY <1>1, <1>2, <1>4, <2>2 DEF Quiet, Owned
  <2>10. QED
    BY <1>1, <1>2, <2>2, <2>5, <2>6, <2>7, <2>8, <2>9, Acts
<1>5. CASE active_state_ = "not_active"
  <2>1. child_objects_' = <<>> /\ UNCHANGED <<lock_, pc, op, todo, list, errors>>
    BY <1>5 DEF clear_children, locals
  <2>2. Shapes' /\ Once(child_objects_)' /\ Owned' = {}
    BY <1>1, <1>2, <2>1, NothingIn DEF Shapes, Once, Owned
  <2>3. Quiet'
    BY <2>2 DEF Quiet
  <2>4. \A v \in Users : Same(v)
    BY <2>1 DEF Same
  <2>5. Work(u)' /\ Fits(u, pc[u], op[u])' /\ (lock_' = u <=> UnderLock(pc[u], op[u])')
    BY <1>1, <1>2, <2>1 DEF Work, Fits, UnderLock
  <2>6. QED
    BY <1>1, <1>2, <2>1, <2>2, <2>3, <2>4, <2>5, Acts
<1>6. QED
  BY <1>1, <1>3, <1>4, <1>5 DEF Shapes

LEMMA InitSound == Init => Sound
<1> SUFFICES ASSUME Init PROVE Sound
  OBVIOUS
<1>1. Shapes
  BY DEF Init, Shapes, Places, Operations, States
<1>2. Once(child_objects_) /\ Owned = {}
  BY NothingIn DEF Init, Once, Owned
<1>3. Quiet
  BY <1>2 DEF Quiet
<1>4. Stationed
  BY ConstantsAssumption DEF Init, Stationed, Fits, UnderLock
<1>5. \A u \in Users : Work(u)
  BY DEF Init, Work
<1>6. QED
  BY <1>1, <1>2, <1>3, <1>4, <1>5 DEF Sound

LEMMA NextSound ==
    ASSUME OneWaiter, Sound, Next, failures' \in 0 .. 1 PROVE Sound'
<1>1. ASSUME NEW u \in Users, pc[u] = "sleep" PROVE u \in Waiters
  BY <1>1 DEF Sound, Stationed, Fits
<1>2. ASSUME NEW u \in Users, Step(u) PROVE Sound'
  <2>1. CASE StartChild(u) \/ StartFails(u) \/ Started(u)
    BY <2>1, SoundStartChild, SoundStartFails, SoundStarted
  <2>2. CASE StopChild(u) \/ WaitAtOnce(u) \/ Stopped(u)
    BY <2>2, SoundStopChild, SoundWaitAtOnce, SoundStopped
  <2>3. CASE JoinChild(u) \/ JoinedUnderLock(u) \/ EndWait(u) \/ Adopt(u)
    BY <2>3, SoundJoinChild, SoundJoinedUnderLock, SoundEndWait, SoundAdopt
  <2>4. CASE WakeUp(u)
    BY <2>4, <1>1, SoundLook DEF WakeUp
  <2>5. QED
    BY <1>2, <2>1, <2>2, <2>3, <2>4 DEF Step
<1>3. ASSUME NEW u \in Users, Call(u) PROVE Sound'
  <2>1. CASE activate_object(u) \/ deactivate_object(u)
    BY <2>1, SoundActivate, SoundDeactivate
  <2>2. CASE u \in Waiters /\ (wait_object(u) \/ clear_children(u))
    BY <2>2, SoundLook, SoundClear DEF wait_object
  <2>3. CASE \E c \in Children : AddToActive(u, c) \/ AddToInactive(u, c)
    BY <2>3, SoundAddToActive, SoundAddToInactive
  <2>4. QED
    BY <1>3, <2>1, <2>2, <2>3 DEF Call
<1>4. ASSUME NEW u \in Users, SpuriousWakeup(u) PROVE Sound'
  BY <1>4, <1>1, SoundLook DEF SpuriousWakeup
<1>5. ASSUME NEW c \in Children, EndChild(c) \/ StartOutside(c) PROVE Sound'
  BY <1>5, SoundEndChild, SoundStartOutside
<1>6. QED
  BY <1>2, <1>3, <1>4, <1>5 DEF Next

\* The invariant while at most one child has thrown: what may still work or was
\* not waited for is on the list of the user who is at work on it.
THEOREM SoundInvariance ==
    ASSUME OneWaiter PROVE Spec => [](failures \in 0 .. MaxFailures /\ (failures <= 1 => Sound))
<1> DEFINE Inv == failures \in 0 .. MaxFailures /\ (failures <= 1 => Sound)
<1>1. Init => Inv
  BY InitSound, ConstantsAssumption DEF Init
<1>2. Inv /\ [Next]_vars => Inv'
  <2> SUFFICES ASSUME Inv, [Next]_vars PROVE Inv'
    OBVIOUS
  <2>1. CASE Next
    <3>1. /\ failures' \in 0 .. MaxFailures
          /\ failures' <= 1 => failures <= 1 /\ failures' \in 0 .. 1
      BY <2>1, FailuresGrow, ConstantsAssumption DEF Thrown
    <3>2. QED
      BY <2>1, <3>1, NextSound
  <2>2. CASE UNCHANGED vars
    <3>1. UNCHANGED <<lock_, active_state_, synchronous_, child_objects_, child, failures, locals>>
      BY <2>2 DEF vars
    <3>2. ASSUME failures <= 1 PROVE Sound'
      <4>1. Sound
        BY <3>2
      <4>2. child' \in [Children -> States] /\ failures' \in 0 .. 1
        BY <3>1, <4>1 DEF Sound, Shapes
      <4>3. QED
        BY <3>1, <4>1, <4>2, SoundChildren
    <3>3. QED
      BY <3>1, <3>2
  <2>3. QED
    BY <2>1, <2>2
<1>3. QED
  BY <1>1, <1>2, PTL DEF Spec

LEMMA SoundIsStopped == Sound => StoppedMeansStopped
<1>1. ASSUME Sound, \A u \in Users : op[u] /= "activate" PROVE \A u \in Users : pc[u] /= "start"
  BY <1>1 DEF Sound, Stationed, Fits
<1>2. QED
  BY <1>1 DEF Sound, Quiet, StoppedMeansStopped

\* A composite that is not active, and that nobody is about to activate, has only
\* children that are not either, and one that is deactivating none that works
\* on, until a second child throws, however many may.
THEOREM NothingLeftRunning ==
    ASSUME OneWaiter PROVE Spec => [](failures <= 1 => StoppedMeansStopped)
<1>1. failures \in 0 .. MaxFailures /\ (failures <= 1 => Sound) => (failures <= 1 => StoppedMeansStopped)
  BY SoundIsStopped
<1>2. QED
  BY <1>1, SoundInvariance, PTL

\* Where one child may throw, as in the run, it is so forever.
THEOREM OneFailureStops ==
    ASSUME OneWaiter, MaxFailures <= 1 PROVE Spec => []StoppedMeansStopped
<1>1. failures \in 0 .. MaxFailures /\ (failures <= 1 => Sound) => StoppedMeansStopped
  BY SoundIsStopped, ConstantsAssumption
<1>2. QED
  BY <1>1, SoundInvariance, PTL

-----------------------------------------------------------------------------
(* With any number of failures and of waiters.  What StoppedMeansStopped says is
   lost then, but not that whoever waits waits for something that comes.     *)

Typed ==
    /\ lock_ \in Users \cup {NoUser}
    /\ active_state_ \in {"active", "deactivating", "not_active"}
    /\ synchronous_ \in BOOLEAN
    /\ child_objects_ \in Seq(Children)
    /\ child \in [Children -> States]
    /\ pc \in [Users -> Places]
    /\ op \in [Users -> Operations]
    /\ todo \in [Users -> Seq(Children)]
    /\ list \in [Users -> Seq(Children)]
    /\ errors \in [Users -> BOOLEAN]

\* What is true of the children of a user who is at a place of an operation, with
\* the children it has still to handle and those it will wait for.
Duty(place, name, t, l, e) ==
    /\ place \in {"idle", "sleep"} => l = <<>>
    /\ place = "start" =>
           active_state_ = "not_active" /\ ToSet(t) \subseteq Owned /\ ToSet(l) \subseteq Owned
    /\ place \in {"stop", "sync"} =>
           /\ active_state_ = "active"
           /\ ToSet(t) \subseteq Owned /\ ToSet(l) \subseteq Owned
           /\ name /= "activate" => Owned \subseteq ToSet(l)
           /\ e \/ \A c \in ToSet(l) : child[c] /= "active" \/ c \in ToSet(t)
    /\ place = "sync" => t /= <<>> /\ child[Head(t)] /= "active"
    /\ place = "join" /\ name /= "wait" =>
           active_state_ = "deactivating" /\ \A c \in ToSet(t) : c \in Owned /\ child[c] /= "active"
    /\ place = "adopt" => t /= <<>> /\ child[Head(t)] /= "active"

Task(u) == Duty(pc[u], op[u], todo[u], list[u], errors[u])

\* A stop is broadcast before it is done.
Sleepers ==
    active_state_ /= "active" \/ (\E v \in Users : pc[v] \in {"stop", "sync"}) =>
        \A u \in Users : pc[u] = "sleep" => u \in woken

\* An activation that is taken back stops only what it had started.
ToldToStop ==
    active_state_ = "deactivating" /\ (\A u \in Users : pc[u] = "join" => op[u] /= "activate") =>
        \A c \in Owned : child[c] /= "active"

Awaiting == Typed /\ Stationed /\ (\A u \in Users : Task(u)) /\ Sleepers /\ ToldToStop

-----------------------------------------------------------------------------

LEMMA Moved ==
    ASSUME Typed, NEW u \in Users, NEW place \in Places, NEW name \in Operations,
           NEW t \in Seq(Children), NEW l \in Seq(Children), NEW e \in BOOLEAN,
           Moves(u, place, name, t, l, e)
    PROVE  /\ pc' \in [Users -> Places] /\ op' \in [Users -> Operations]
           /\ todo' \in [Users -> Seq(Children)] /\ list' \in [Users -> Seq(Children)]
           /\ errors' \in [Users -> BOOLEAN]
           /\ pc'[u] = place /\ op'[u] = name /\ todo'[u] = t /\ list'[u] = l /\ errors'[u] = e
           /\ \A v \in Users : v /= u => Same(v)
<1>1. pc' \in [Users -> Places] /\ pc'[u] = place /\ \A v \in Users : v /= u => pc'[v] = pc[v]
  BY DEF Typed, Moves
<1>2. op' \in [Users -> Operations] /\ op'[u] = name /\ \A v \in Users : v /= u => op'[v] = op[v]
  BY DEF Typed, Moves
<1>3. /\ todo' \in [Users -> Seq(Children)] /\ todo'[u] = t
      /\ \A v \in Users : v /= u => todo'[v] = todo[v]
  BY DEF Typed, Moves
<1>4. /\ list' \in [Users -> Seq(Children)] /\ list'[u] = l
      /\ \A v \in Users : v /= u => list'[v] = list[v]
  BY DEF Typed, Moves
<1>5. /\ errors' \in [Users -> BOOLEAN] /\ errors'[u] = e
      /\ \A v \in Users : v /= u => errors'[v] = errors[v]
  BY DEF Typed, Moves
<1>6. QED
  BY <1>1, <1>2, <1>3, <1>4, <1>5 DEF Same

LEMMA OneChanges ==
    ASSUME Typed, NEW c \in Children, NEW state \in States, Becomes(c, state)
    PROVE  /\ child' \in [Children -> States] /\ child'[c] = state
           /\ \A d \in Children : d /= c => child'[d] = child[d]
  BY DEF Typed, Becomes

LEMMA OwnedTyped == ASSUME Typed PROVE Owned \subseteq Children
<1>1. \A s \in Seq(Children) : ToSet(s) \subseteq Children
  BY DEF ToSet
<1>2. QED
  BY <1>1 DEF Typed, Owned

LEMMA HasLock ==
    ASSUME Awaiting, NEW u \in Users,
           pc[u] \in {"start", "stop", "sync", "adopt"} \/ (pc[u] = "join" /\ op[u] /= "wait")
    PROVE  lock_ = u
  BY DEF Awaiting, Stationed, Fits, UnderLock

LEMMA NobodyInside ==
    ASSUME Awaiting, lock_ = NoUser, NEW v \in Users
    PROVE  pc[v] \in {"idle", "sleep"} \/ (pc[v] = "join" /\ op[v] = "wait")
<1>1. ~UnderLock(pc[v], op[v]) /\ Fits(v, pc[v], op[v])
  BY ConstantsAssumption DEF Awaiting, Stationed
<1>2. pc[v] \in Places
  BY DEF Awaiting, Typed
<1>3. QED
  BY <1>1, <1>2 DEF UnderLock, Fits, Places

\* Children that are handled stay so while none is started.
LEMMA DutyStays ==
    ASSUME Typed, NEW place, NEW name, NEW t \in Seq(Children), NEW l \in Seq(Children), NEW e,
           Duty(place, name, t, l, e), UNCHANGED <<active_state_, child_objects_>>,
           \A c \in Children : child'[c] = "active" =>
               child[c] = "active" \/ (c \notin Owned /\ place /= "adopt")
    PROVE  Duty(place, name, t, l, e)'
<1>1. Owned' = Owned /\ active_state_' = active_state_ /\ ToSet(t) \subseteq Children
      /\ ToSet(l) \subseteq Children
  BY DEF Owned, ToSet
<1>2. t /= <<>> => Head(t) \in Children /\ Head(t) \in ToSet(t)
  BY HeadAndTail
<1>3. place \in {"stop", "sync"} =>
        e \/ \A c \in ToSet(l) : child'[c] /= "active" \/ c \in ToSet(t)
  BY <1>1 DEF Duty
<1>4. place = "sync" => t /= <<>> /\ child'[Head(t)] /= "active"
  BY <1>2 DEF Duty
<1>5. place = "join" /\ name /= "wait" => \A c \in ToSet(t) : c \in Owned /\ child'[c] /= "active"
  BY <1>1 DEF Duty
<1>6. place = "adopt" => t /= <<>> /\ child'[Head(t)] /= "active"
  BY <1>2 DEF Duty
<1>7. QED
  BY <1>1, <1>3, <1>4, <1>5, <1>6 DEF Duty

\* Nobody falls asleep, or was asleep, when a stop has been broadcast.
KeptAwake(u, place) ==
    \/ place = "sleep" /\ lock_ = NoUser /\ active_state_' = "active"
    \/ place /= "sleep" /\ Broadcast
    \/ /\ place /= "sleep" /\ woken \ {u} \subseteq woken'
       /\ active_state_' /= "active" => active_state_ /= "active" \/ pc[u] \in {"stop", "sync"}
       /\ place \in {"stop", "sync"} => pc[u] \in {"stop", "sync"}

\* No child is started in, or added to, a composite whose children were stopped.
StillTold(u, place, name) ==
    \/ active_state_' /= "deactivating"
    \/ place = "join" /\ name = "activate"
    \/ \A c \in Owned' : child'[c] /= "active"
    \/ /\ active_state_ = "deactivating" /\ (pc[u] = "join" => op[u] /= "activate")
       /\ \A c \in Owned' : child'[c] = "active" => c \in Owned /\ child[c] = "active"

\* Who has or takes the lock finds all others without it, and who waits without
\* it starts no child.
LEMMA Proceeds ==
    ASSUME Awaiting, NEW u \in Users, NEW place \in Places, NEW name \in Operations,
           NEW t \in Seq(Children), NEW l \in Seq(Children), NEW e \in BOOLEAN,
           Moves(u, place, name, t, l, e),
           active_state_' \in {"active", "deactivating", "not_active"},
           synchronous_' = synchronous_, child_objects_' \in Seq(Children),
           child' \in [Children -> States],
           \/ lock_ \in {u, NoUser} /\ lock_' \in {u, NoUser}
           \/ /\ op[u] = "wait" /\ pc[u] = "join"
              /\ UNCHANGED <<lock_, active_state_, child_objects_>>
              /\ \A c \in Children : child'[c] = "active" => child[c] = "active",
           Fits(u, place, name), lock_' = u <=> UnderLock(place, name),
           Duty(place, name, t, l, e)', KeptAwake(u, place), StillTold(u, place, name)
    PROVE  Awaiting'
<1>1. /\ Typed /\ Stationed /\ (\A v \in Users : Task(v)) /\ Sleepers /\ ToldToStop
      /\ NoUser \notin Users
  BY ConstantsAssumption DEF Awaiting
<1>2. /\ pc' \in [Users -> Places] /\ op' \in [Users -> Operations]
      /\ todo' \in [Users -> Seq(Children)] /\ list' \in [Users -> Seq(Children)]
      /\ errors' \in [Users -> BOOLEAN]
      /\ pc'[u] = place /\ op'[u] = name /\ todo'[u] = t /\ list'[u] = l /\ errors'[u] = e
      /\ \A v \in Users : v /= u => Same(v)
  BY <1>1, Moved
<1>3. Typed'
  <2>1. lock_' \in Users \cup {NoUser}
    BY <1>1 DEF Typed
  <2>2. QED
    BY <1>1, <1>2, <2>1 DEF Typed
<1>4. Stationed'
  <2>1. ASSUME NEW v \in Users, v /= u
        PROVE  Fits(v, pc'[v], op'[v]) /\ (lock_' = v <=> UnderLock(pc'[v], op'[v]))
    <3>1. Same(v) /\ Fits(v, pc[v], op[v]) /\ (lock_ = v <=> UnderLock(pc[v], op[v]))
      BY <1>1, <1>2, <2>1 DEF Stationed
    <3>2. lock_' = v <=> lock_ = v
      BY <1>1, <2>1
    <3>3. QED
      BY <3>1, <3>2 DEF Same
  <2>2. QED
    BY <1>2, <2>1 DEF Stationed, Fits
<1>5. \A v \in Users : Task(v)'
  <2>1. Task(u)'
    BY <1>2 DEF Task
  <2>2. ASSUME NEW v \in Users, v /= u PROVE Task(v)'
    <3>1. PICK p \in Places, n \in Operations, tt \in Seq(Children), ll \in Seq(Children), b \in BOOLEAN :
            p = pc[v] /\ n = op[v] /\ tt = todo[v] /\ ll = list[v] /\ b = errors[v]
      BY <1>1 DEF Typed
    <3>2. p = pc'[v] /\ n = op'[v] /\ tt = todo'[v] /\ ll = list'[v] /\ b = errors'[v]
      BY <1>2, <2>2, <3>1 DEF Same
    <3>3. Duty(p, n, tt, ll, b)
      BY <1>1, <3>1 DEF Task
    <3>4. CASE lock_ \in {u, NoUser} /\ lock_' \in {u, NoUser}
      <4>1. lock_ /= v
        BY <1>1, <2>2, <3>4
      <4>2. p \in {"idle", "sleep"} \/ (p = "join" /\ n = "wait")
        BY <1>1, <3>1, <4>1 DEF Stationed, UnderLock, Fits, Places
      <4>3. Duty(p, n, tt, ll, b)'
        BY <3>3, <4>2 DEF Duty
      <4>4. QED
        BY <3>2, <4>3 DEF Task
    <3>5. CASE /\ UNCHANGED <<lock_, active_state_, child_objects_>>
               /\ \A c \in Children : child'[c] = "active" => child[c] = "active"
      <4>1. Duty(p, n, tt, ll, b)'
        BY <1>1, <3>3, <3>5, DutyStays
      <4>2. QED
        BY <3>2, <4>1 DEF Task
    <3>6. QED
      BY <3>4, <3>5
  <2>3. QED
    BY <2>1, <2>2
<1>6. Sleepers'
  <2>1. CASE place = "sleep" /\ lock_ = NoUser /\ active_state_' = "active"
    <3>1. \A v \in Users : pc[v] \notin {"stop", "sync"}
      BY <2>1, NobodyInside
    <3>2. \A v \in Users : pc'[v] \notin {"stop", "sync"}
      BY <1>2, <2>1, <3>1 DEF Same
    <3>3. QED
      BY <2>1, <3>2 DEF Sleepers
  <2>2. CASE place /= "sleep" /\ Broadcast
    BY <1>2, <2>2 DEF Sleepers, Broadcast, Same
  <2>3. CASE /\ place /= "sleep" /\ woken \ {u} \subseteq woken'
             /\ active_state_' /= "active" => active_state_ /= "active" \/ pc[u] \in {"stop", "sync"}
             /\ place \in {"stop", "sync"} => pc[u] \in {"stop", "sync"}
    BY <1>1, <1>2, <2>3 DEF Sleepers, Same
  <2>4. QED
    BY <2>1, <2>2, <2>3 DEF KeptAwake
<1>7. ToldToStop'
  <2>1. CASE place = "join" /\ name = "activate"
    BY <1>2, <2>1 DEF ToldToStop
  <2>2. CASE /\ active_state_ = "deactivating" /\ (pc[u] = "join" => op[u] /= "activate")
             /\ \A c \in Owned' : child'[c] = "active" => c \in Owned /\ child[c] = "active"
    BY <1>1, <1>2, <2>2 DEF ToldToStop, Same
  <2>3. QED
    BY <2>1, <2>2 DEF StillTold, ToldToStop
<1>8. QED
  BY <1>3, <1>4, <1>5, <1>6, <1>7 DEF Awaiting

\* Who ends an operation has nothing left to account for.
LEMMA AwaitingReturn ==
    ASSUME Awaiting, NEW u \in Users, Returns(u), lock_ \in {u, NoUser}, lock_' = NoUser,
           active_state_' \in {"active", "deactivating", "not_active"},
           synchronous_' = synchronous_, child_objects_' \in Seq(Children),
           child' \in [Children -> States], woken' = woken,
           active_state_' /= "active" => active_state_ /= "active" \/ pc[u] \in {"stop", "sync"},
           StillTold(u, "idle", "none")
    PROVE  Awaiting'
<1>1. "idle" \in Places /\ "none" \in Operations /\ FALSE \in BOOLEAN /\ <<>> \in Seq(Children)
  BY DEF Places, Operations
<1>2. Moves(u, "idle", "none", <<>>, <<>>, FALSE)
  BY ReturnMoves
<1>3. Fits(u, "idle", "none") /\ (lock_' = u <=> UnderLock("idle", "none"))
  BY ConstantsAssumption DEF Fits, UnderLock
<1>4. Duty("idle", "none", <<>>, <<>>, FALSE)'
  BY DEF Duty
<1>5. KeptAwake(u, "idle")
  BY DEF KeptAwake
<1>6. lock_' \in {u, NoUser}
  OBVIOUS
<1>7. QED
  BY <1>1, <1>2, <1>3, <1>4, <1>5, <1>6, Proceeds

LEMMA AwaitingActivate ==
    ASSUME Awaiting, NEW u \in Users, activate_object(u) PROVE Awaiting'
<1>1. Typed /\ Duty(pc[u], op[u], todo[u], list[u], errors[u])
  BY DEF Awaiting, Task
<1>2. PICK l \in Seq(Children), e \in BOOLEAN : l = list[u] /\ e = errors[u]
  BY <1>1 DEF Typed
<1>3. /\ pc[u] = "idle" /\ lock_ = NoUser /\ lock_' = u /\ active_state_ = "not_active"
      /\ Moves(u, "start", "activate", child_objects_, l, e)
      /\ UNCHANGED <<active_state_, synchronous_, child_objects_, child, woken>>
  BY <1>1, <1>2 DEF activate_object, Enter, Does, At, Todo, Moves, Typed
<1>4. PICK t \in Seq(Children) : t = child_objects_ /\ ToSet(t) = Owned
  BY <1>1 DEF Typed, Owned
<1>5. "start" \in Places /\ "activate" \in Operations
  BY DEF Places, Operations
<1>6. Fits(u, "start", "activate") /\ (lock_' = u <=> UnderLock("start", "activate"))
  BY <1>3 DEF Fits, UnderLock
<1>7. Duty("start", "activate", t, l, e)'
  <2>1. l = <<>>
    BY <1>1, <1>2, <1>3 DEF Duty
  <2>2. Owned' = Owned /\ active_state_' = "not_active"
    BY <1>3 DEF Owned
  <2>3. QED
    BY <1>4, <2>1, <2>2, NothingIn DEF Duty
<1>8. KeptAwake(u, "start") /\ StillTold(u, "start", "activate")
  BY <1>3 DEF KeptAwake, StillTold
<1>9. /\ active_state_' \in {"active", "deactivating", "not_active"} /\ synchronous_' = synchronous_
      /\ child_objects_' \in Seq(Children) /\ child' \in [Children -> States]
      /\ lock_ \in {u, NoUser} /\ lock_' \in {u, NoUser}
  BY <1>1, <1>3 DEF Typed
<1>10. QED
  BY <1>2, <1>3, <1>4, <1>5, <1>6, <1>7, <1>8, <1>9, Proceeds

LEMMA AwaitingStartChild ==
    ASSUME Awaiting, NEW u \in Users, StartChild(u) PROVE Awaiting'
<1>1. /\ Typed /\ Duty(pc[u], op[u], todo[u], list[u], errors[u]) /\ Owned \subseteq Children
      /\ Fits(u, pc[u], op[u])
  BY OwnedTyped DEF Awaiting, Task, Stationed
<1>2. PICK q \in Seq(Children), k \in Seq(Children), e \in BOOLEAN :
        q = todo[u] /\ k = list[u] /\ e = errors[u]
  BY <1>1 DEF Typed
<1>3. /\ pc[u] = "start" /\ op[u] = "activate" /\ q /= <<>> /\ lock_ = u
      /\ UNCHANGED <<lock_, active_state_, synchronous_, child_objects_, woken, pc, op, errors>>
  BY <1>1, <1>2, HasLock DEF StartChild, Fits
<1>4. PICK c \in Children, t \in Seq(Children) :
        c = Head(q) /\ t = Tail(q) /\ ToSet(q) = {c} \cup ToSet(t)
  <2>1. Head(q) \in Children /\ Tail(q) \in Seq(Children) /\ ToSet(q) = {Head(q)} \cup ToSet(Tail(q))
    BY <1>3, HeadAndTail
  <2>2. QED
    BY <2>1
<1>5. PICK l \in Seq(Children) : l = <<c>> \o k /\ ToSet(l) = ToSet(k) \cup {c}
  BY InCons
<1>6. Becomes(c, "active") /\ Moves(u, "start", "activate", t, l, e)
  <2>1. /\ pc' = [pc EXCEPT ![u] = "start"] /\ op' = [op EXCEPT ![u] = "activate"]
        /\ errors' = [errors EXCEPT ![u] = e]
    BY <1>1, <1>2, <1>3 DEF Typed
  <2>2. QED
    BY <1>2, <1>4, <1>5, <2>1 DEF StartChild, Todo, Moves
<1>7. child' \in [Children -> States]
  <2>1. "active" \in States
    BY DEF States
  <2>2. QED
    BY <1>1, <1>6, <2>1, OneChanges
<1>8. active_state_ = "not_active" /\ ToSet(t) \subseteq Owned /\ ToSet(l) \subseteq Owned
  BY <1>1, <1>2, <1>3, <1>4, <1>5 DEF Duty
<1>9. Duty("start", "activate", t, l, e)'
  BY <1>3, <1>8 DEF Duty, Owned
<1>10. "start" \in Places /\ "activate" \in Operations
  BY DEF Places, Operations
<1>11. Fits(u, "start", "activate") /\ (lock_' = u <=> UnderLock("start", "activate"))
  BY <1>3 DEF Fits, UnderLock
<1>12. KeptAwake(u, "start") /\ StillTold(u, "start", "activate")
  BY <1>3, <1>8 DEF KeptAwake, StillTold
<1>13. /\ active_state_' \in {"active", "deactivating", "not_active"} /\ synchronous_' = synchronous_
       /\ child_objects_' \in Seq(Children) /\ lock_ \in {u, NoUser} /\ lock_' \in {u, NoUser}
  BY <1>1, <1>3 DEF Typed
<1>14. QED
  BY <1>6, <1>7, <1>9, <1>10, <1>11, <1>12, <1>13, Proceeds

\* deactivate_object_i() begins, in whichever operation.
LEMMA AwaitingBeginStop ==
    ASSUME Awaiting, NEW u \in Users, NEW name \in Operations, NEW l \in Seq(Children),
           Moves(u, "stop", name, l, l, errors[u]), Broadcast, lock_ \in {u, NoUser}, lock_' = u,
           active_state_' = "active", Fits(u, "stop", name), ToSet(l) \subseteq Owned,
           name /= "activate" => Owned \subseteq ToSet(l),
           child' = child, UNCHANGED <<synchronous_, child_objects_>>
    PROVE  Awaiting'
<1>1. Typed
  BY DEF Awaiting
<1>2. PICK e \in BOOLEAN : e = errors[u]
  BY <1>1 DEF Typed
<1>3. Duty("stop", name, l, l, e)'
  BY DEF Duty, Owned
<1>4. "stop" \in Places /\ (lock_' = u <=> UnderLock("stop", name))
  BY DEF Places, Fits, UnderLock
<1>5. KeptAwake(u, "stop") /\ StillTold(u, "stop", name)
  BY DEF KeptAwake, StillTold
<1>6. /\ active_state_' \in {"active", "deactivating", "not_active"} /\ lock_' \in {u, NoUser}
      /\ child_objects_' \in Seq(Children) /\ child' \in [Children -> States]
  BY <1>1 DEF Typed
<1>7. QED
  BY <1>2, <1>3, <1>4, <1>5, <1>6, Proceeds

LEMMA AwaitingStartFails ==
    ASSUME Awaiting, NEW u \in Users, StartFails(u) PROVE Awaiting'
<1>1. Typed /\ Duty(pc[u], op[u], todo[u], list[u], errors[u]) /\ Fits(u, pc[u], op[u])
  BY DEF Awaiting, Task, Stationed
<1>2. PICK l \in Seq(Children), e \in BOOLEAN, name \in Operations :
        l = list[u] /\ e = errors[u] /\ name = "activate"
  BY <1>1 DEF Typed, Operations
<1>3. /\ pc[u] = "start" /\ op[u] = "activate" /\ lock_ = u /\ lock_' = u
      /\ active_state_' = "active" /\ BeginStop(u, l)
      /\ UNCHANGED <<synchronous_, child_objects_, op>>
  BY <1>1, <1>2, HasLock DEF StartFails, Fits, BeginStop
<1>4. child' = child
  BY DEF StartFails, Throws
<1>5. Moves(u, "stop", name, l, l, errors[u])
  <2>1. op' = [op EXCEPT ![u] = name] /\ errors' = [errors EXCEPT ![u] = errors[u]]
    BY <1>1, <1>2, <1>3 DEF Typed, BeginStop
  <2>2. QED
    BY <1>3, <2>1 DEF BeginStop, Moves, At, Todo
<1>6. ToSet(l) \subseteq Owned
  BY <1>1, <1>2, <1>3 DEF Duty
<1>7. Fits(u, "stop", name) /\ Broadcast /\ name = "activate" /\ lock_ \in {u, NoUser}
  BY <1>2, <1>3 DEF Fits, BeginStop
<1>8. QED
  BY <1>3, <1>4, <1>5, <1>6, <1>7, AwaitingBeginStop

\* The children are told to stop, by deactivate_object or clear_children.
LEMMA AwaitingStopAll ==
    ASSUME Awaiting, NEW u \in Users, NEW name \in {"deactivate", "clear"},
           lock_ = NoUser, active_state_ = "active", Does(u, name),
           name = "clear" => u \in Waiters, BeginStop(u, LastFirst(child_objects_)),
           UNCHANGED <<active_state_, synchronous_, child_objects_, child>>
    PROVE  Awaiting'
<1>1. Typed
  BY DEF Awaiting
<1>2. PICK r \in Seq(Children) : r = LastFirst(child_objects_) /\ ToSet(r) = Owned
  BY <1>1, InReverse DEF Typed, LastFirst, Owned
<1>3. PICK n \in Operations : n = name
  BY DEF Operations
<1>4. Broadcast /\ lock_' = u /\ Moves(u, "stop", n, r, r, errors[u])
  <2>1. errors' = [errors EXCEPT ![u] = errors[u]]
    BY <1>1 DEF Typed, BeginStop
  <2>2. QED
    BY <1>2, <1>3, <2>1 DEF BeginStop, Moves, At, Todo, Does
<1>5. Fits(u, "stop", n) /\ active_state_' = "active" /\ lock_ \in {u, NoUser}
  BY <1>3 DEF Fits
<1>6. QED
  BY <1>2, <1>4, <1>5, AwaitingBeginStop

LEMMA AwaitingDeactivate ==
    ASSUME Awaiting, NEW u \in Users, deactivate_object(u) PROVE Awaiting'
<1>1. PICK name \in {"deactivate", "clear"} : name = "deactivate"
  OBVIOUS
<1>2. /\ lock_ = NoUser /\ active_state_ = "active" /\ Does(u, name)
      /\ BeginStop(u, LastFirst(child_objects_)) /\ ~(name = "clear")
      /\ UNCHANGED <<active_state_, synchronous_, child_objects_, child>>
  BY <1>1 DEF deactivate_object, Enter
<1>3. QED
  BY <1>2, AwaitingStopAll

LEMMA AwaitingStarted ==
    ASSUME Awaiting, NEW u \in Users, Started(u) PROVE Awaiting'
<1>1. Typed
  BY DEF Awaiting
<1>2. /\ Returns(u) /\ lock_ = u /\ lock_' = NoUser /\ active_state_' = "active"
      /\ UNCHANGED <<synchronous_, child_objects_, child, woken>>
  BY HasLock DEF Started, Leave
<1>3. /\ child_objects_' \in Seq(Children) /\ child' \in [Children -> States]
      /\ active_state_' \in {"active", "deactivating", "not_active"}
      /\ lock_ \in {u, NoUser} /\ StillTold(u, "idle", "none")
  BY <1>1, <1>2 DEF Typed, StillTold
<1>4. QED
  BY <1>2, <1>3, AwaitingReturn

\* What the loop over the children needs when it goes on.
LEMMA AwaitingStopping ==
    ASSUME Awaiting, NEW u \in Users, pc[u] \in {"stop", "sync"},
           NEW place \in {"stop", "sync"}, NEW t \in Seq(Children), NEW e \in BOOLEAN,
           Moves(u, place, op[u], t, list[u], e),
           UNCHANGED <<lock_, active_state_, synchronous_, child_objects_, woken>>,
           child' \in [Children -> States], ToSet(t) \subseteq Owned,
           e \/ \A d \in ToSet(list[u]) : child'[d] /= "active" \/ d \in ToSet(t),
           place = "sync" => t /= <<>> /\ child'[Head(t)] /= "active"
    PROVE  Awaiting'
<1>1. Typed /\ Duty(pc[u], op[u], todo[u], list[u], errors[u]) /\ Fits(u, pc[u], op[u]) /\ lock_ = u
  BY HasLock DEF Awaiting, Task, Stationed
<1>2. PICK l \in Seq(Children), name \in Operations : l = list[u] /\ name = op[u]
  BY <1>1 DEF Typed
<1>3. /\ active_state_ = "active" /\ ToSet(l) \subseteq Owned
      /\ name /= "activate" => Owned \subseteq ToSet(l)
  BY <1>1, <1>2 DEF Duty
<1>4. Duty(place, name, t, l, e)'
  <2>1. Owned' = Owned /\ active_state_' = "active"
    BY <1>3 DEF Owned
  <2>2. QED
    BY <1>2, <1>3, <2>1 DEF Duty
<1>5. Moves(u, place, name, t, l, e) /\ place \in Places
  BY <1>2 DEF Places
<1>6. Fits(u, place, name) /\ (lock_' = u <=> UnderLock(place, name))
  BY <1>1, <1>2 DEF Fits, UnderLock
<1>7. KeptAwake(u, place) /\ StillTold(u, place, name)
  BY <1>3 DEF KeptAwake, StillTold
<1>8. /\ active_state_' \in {"active", "deactivating", "not_active"} /\ synchronous_' = synchronous_
      /\ child_objects_' \in Seq(Children) /\ lock_ \in {u, NoUser} /\ lock_' \in {u, NoUser}
  BY <1>1 DEF Typed
<1>9. QED
  BY <1>2, <1>4, <1>5, <1>6, <1>7, <1>8, Proceeds

\* A user that handles a child has it at the head of its list.
LEMMA AtHead ==
    ASSUME Typed, NEW u \in Users, todo[u] /= <<>>
    PROVE  \E q \in Seq(Children), c \in Children, t \in Seq(Children) :
               q = todo[u] /\ c = Head(todo[u]) /\ t = Tail(todo[u]) /\ ToSet(q) = {c} \cup ToSet(t)
<1>1. PICK q \in Seq(Children) : q = todo[u]
  BY DEF Typed
<1>2. Head(q) \in Children /\ Tail(q) \in Seq(Children) /\ ToSet(q) = {Head(q)} \cup ToSet(Tail(q))
  BY <1>1, HeadAndTail
<1>3. QED
  BY <1>1, <1>2

LEMMA AwaitingStopChild ==
    ASSUME Awaiting, NEW u \in Users, StopChild(u) PROVE Awaiting'
<1>1. Typed /\ Duty(pc[u], op[u], todo[u], list[u], errors[u]) /\ Owned \subseteq Children
  BY OwnedTyped DEF Awaiting, Task
<1>2. /\ pc[u] = "stop" /\ todo[u] /= <<>>
      /\ UNCHANGED <<lock_, active_state_, synchronous_, child_objects_, woken, op, list>>
  BY DEF StopChild
<1>3. PICK q \in Seq(Children), c \in Children, t \in Seq(Children) :
        q = todo[u] /\ c = Head(todo[u]) /\ t = Tail(todo[u]) /\ ToSet(q) = {c} \cup ToSet(t)
  BY <1>1, <1>2, AtHead
<1>4. PICK e \in BOOLEAN : e = errors[u]
  BY <1>1 DEF Typed
<1>5. /\ ToSet(q) \subseteq Owned /\ ToSet(list[u]) \subseteq Owned
      /\ e \/ \A d \in ToSet(list[u]) : child[d] /= "active" \/ d \in ToSet(q)
  BY <1>1, <1>2, <1>3, <1>4 DEF Duty
<1>6. op' = [op EXCEPT ![u] = op[u]] /\ list' = [list EXCEPT ![u] = list[u]]
  BY <1>1, <1>2 DEF Typed
<1>7. PICK stop \in {"stop", "sync"}, sync \in {"stop", "sync"} : stop = "stop" /\ sync = "sync"
  OBVIOUS
<1>8. CASE /\ Becomes(c, IF child[c] = "active" THEN "stopping" ELSE child[c])
           /\ IF synchronous_ THEN At(u, "sync") /\ UNCHANGED todo ELSE Todo(u, t) /\ UNCHANGED pc
           /\ UNCHANGED <<failures, errors>>
  <2>1. PICK s \in States : s /= "active" /\ Becomes(c, s)
    <3>1. child[c] \in States
      BY <1>1, <1>3 DEF Typed
    <3>2. QED
      BY <1>8, <3>1 DEF States
  <2>2. /\ child' \in [Children -> States] /\ child'[c] = s
        /\ \A d \in Children : d /= c => child'[d] = child[d]
    BY <1>1, <2>1, OneChanges
  <2>3. errors' = [errors EXCEPT ![u] = e]
    BY <1>1, <1>4, <1>8 DEF Typed
  <2>4. e \/ \A d \in ToSet(list[u]) : child'[d] /= "active" \/ d \in ToSet(t)
    BY <1>1, <1>3, <1>5, <2>1, <2>2
  <2>5. CASE synchronous_
    <3>1. Moves(u, sync, op[u], q, list[u], e)
      <4>1. pc' = [pc EXCEPT ![u] = sync] /\ todo' = [todo EXCEPT ![u] = q]
        BY <1>1, <1>3, <1>7, <1>8, <2>5 DEF At, Typed
      <4>2. QED
        BY <1>6, <2>3, <4>1 DEF Moves
    <3>2. e \/ \A d \in ToSet(list[u]) : child'[d] /= "active" \/ d \in ToSet(q)
      BY <1>3, <2>4
    <3>3. q /= <<>> /\ child'[Head(q)] /= "active"
      BY <1>2, <1>3, <2>1, <2>2
    <3>4. QED
      BY <1>2, <1>5, <2>2, <3>1, <3>2, <3>3, AwaitingStopping
  <2>6. CASE ~synchronous_
    <3>1. Moves(u, stop, op[u], t, list[u], e)
      <4>1. pc' = [pc EXCEPT ![u] = stop] /\ todo' = [todo EXCEPT ![u] = t]
        BY <1>1, <1>2, <1>7, <1>8, <2>6 DEF Todo, Typed
      <4>2. QED
        BY <1>6, <2>3, <4>1 DEF Moves
    <3>2. ToSet(t) \subseteq Owned /\ stop /= "sync"
      BY <1>3, <1>5, <1>7
    <3>3. QED
      BY <1>2, <2>2, <2>4, <3>1, <3>2, AwaitingStopping
  <2>7. QED
    BY <2>5, <2>6
<1>9. CASE Throws /\ Error(u) /\ Todo(u, t) /\ UNCHANGED pc
  <2>1. PICK b \in BOOLEAN : b = TRUE
    OBVIOUS
  <2>2. Moves(u, stop, op[u], t, list[u], b)
    <3>1. pc' = [pc EXCEPT ![u] = stop] /\ todo' = [todo EXCEPT ![u] = t]
          /\ errors' = [errors EXCEPT ![u] = b]
      BY <1>1, <1>2, <1>7, <1>9, <2>1 DEF Todo, Error, Typed
    <3>2. QED
      BY <1>6, <3>1 DEF Moves
  <2>3. child' \in [Children -> States] /\ ToSet(t) \subseteq Owned /\ stop /= "sync"
    BY <1>1, <1>3, <1>5, <1>7, <1>9 DEF Throws, Typed
  <2>4. QED
    BY <1>2, <2>1, <2>2, <2>3, AwaitingStopping
<1>10. QED
  BY <1>3, <1>8, <1>9 DEF StopChild

\* The child that a user waits for ends its life, or its wait_object throws.
LEMMA WaitedOrNot ==
    ASSUME Typed, NEW c \in Children, Waited(c) \/ child' = child
    PROVE  /\ child' \in [Children -> States]
           /\ \A d \in Children : child'[d] = "active" => child[d] = "active"
           /\ Waited(c) => child'[c] = "not_active"
<1>1. "not_active" \in States
  BY DEF States
<1>2. QED
  BY <1>1, OneChanges DEF Waited, Typed

LEMMA AwaitingWaitAtOnce ==
    ASSUME Awaiting, NEW u \in Users, WaitAtOnce(u) PROVE Awaiting'
<1>1. Typed /\ Duty(pc[u], op[u], todo[u], list[u], errors[u]) /\ Owned \subseteq Children
  BY OwnedTyped DEF Awaiting, Task
<1>2. /\ pc[u] = "sync"
      /\ UNCHANGED <<lock_, active_state_, synchronous_, child_objects_, woken, op, list>>
  BY DEF WaitAtOnce
<1>3. todo[u] /= <<>>
  BY <1>1, <1>2 DEF Duty
<1>4. PICK q \in Seq(Children), c \in Children, t \in Seq(Children) :
        q = todo[u] /\ c = Head(todo[u]) /\ t = Tail(todo[u]) /\ ToSet(q) = {c} \cup ToSet(t)
  BY <1>1, <1>3, AtHead
<1>5. PICK b \in BOOLEAN : b = errors[u]
  BY <1>1 DEF Typed
<1>6. /\ ToSet(q) \subseteq Owned /\ ToSet(list[u]) \subseteq Owned /\ child[c] /= "active"
      /\ b \/ \A d \in ToSet(list[u]) : child[d] /= "active" \/ d \in ToSet(q)
  BY <1>1, <1>2, <1>4, <1>5 DEF Duty
<1>7. PICK stop \in {"stop", "sync"} : stop = "stop"
  OBVIOUS
<1>8. PICK e \in BOOLEAN : errors' = [errors EXCEPT ![u] = e] /\ (b => e) /\ (e \/ Waited(c))
  <2>1. CASE Waited(c) /\ UNCHANGED <<failures, errors>>
    BY <1>1, <1>5, <2>1 DEF Typed
  <2>2. CASE Error(u)
    BY <2>2 DEF Error
  <2>3. QED
    BY <1>4, <2>1, <2>2 DEF WaitAtOnce
<1>9. /\ child' \in [Children -> States]
      /\ \A d \in Children : child'[d] = "active" => child[d] = "active"
  BY <1>1, <1>4, WaitedOrNot DEF WaitAtOnce, Throws
<1>10. Moves(u, stop, op[u], t, list[u], e)
  <2>1. /\ op' = [op EXCEPT ![u] = op[u]] /\ list' = [list EXCEPT ![u] = list[u]]
        /\ pc' = [pc EXCEPT ![u] = stop] /\ todo' = [todo EXCEPT ![u] = t]
    BY <1>1, <1>2, <1>4, <1>7 DEF Typed, WaitAtOnce, At, Todo
  <2>2. QED
    BY <1>8, <2>1 DEF Moves
<1>11. e \/ \A d \in ToSet(list[u]) : child'[d] /= "active" \/ d \in ToSet(t)
  BY <1>1, <1>4, <1>6, <1>8, <1>9
<1>12. ToSet(t) \subseteq Owned /\ stop /= "sync"
  BY <1>4, <1>6, <1>7
<1>13. QED
  BY <1>2, <1>9, <1>10, <1>11, <1>12, AwaitingStopping

LEMMA AwaitingStopped ==
    ASSUME Awaiting, NEW u \in Users, Stopped(u) PROVE Awaiting'
<1>1. Typed /\ Duty(pc[u], op[u], todo[u], list[u], errors[u]) /\ Fits(u, pc[u], op[u])
  BY DEF Awaiting, Task, Stationed
<1>2. /\ pc[u] = "stop" /\ todo[u] = <<>> /\ lock_ = u
      /\ UNCHANGED <<synchronous_, child_objects_, child, woken>>
  BY HasLock DEF Stopped
<1>3. PICK l \in Seq(Children), name \in Operations, e \in BOOLEAN :
        l = list[u] /\ name = op[u] /\ e = errors[u]
  BY <1>1 DEF Typed
<1>4. /\ active_state_ = "active" /\ ToSet(l) \subseteq Owned
      /\ name /= "activate" => Owned \subseteq ToSet(l)
      /\ e \/ \A c \in ToSet(l) : child[c] /= "active"
  BY <1>1, <1>2, <1>3, NothingIn DEF Duty
<1>5. /\ active_state_' \in {"active", "deactivating", "not_active"}
      /\ ~e => active_state_' = "deactivating"
      /\ e => active_state_' /= "deactivating"
  BY <1>3 DEF Stopped
<1>6. Owned' = Owned /\ child' \in [Children -> States] /\ child_objects_' \in Seq(Children)
  BY <1>1, <1>2 DEF Owned, Typed
<1>7. CASE e \/ name = "deactivate"
  <2>1. Returns(u) /\ lock_' = NoUser
    BY <1>3, <1>7 DEF Stopped, Leave
  <2>2. StillTold(u, "idle", "none")
    <3>1. active_state_' /= "deactivating" \/ (name = "deactivate" /\ ~e)
      BY <1>5, <1>7
    <3>2. name = "deactivate" /\ ~e => \A c \in Owned' : child'[c] /= "active"
      BY <1>2, <1>4, <1>6
    <3>3. QED
      BY <3>1, <3>2 DEF StillTold
  <2>3. lock_ \in {u, NoUser} /\ pc[u] \in {"stop", "sync"}
    BY <1>2
  <2>4. QED
    BY <1>2, <1>5, <1>6, <2>1, <2>2, <2>3, AwaitingReturn
<1>8. CASE ~e /\ name /= "deactivate"
  <2>1. At(u, "join") /\ Todo(u, l) /\ UNCHANGED <<lock_, list, errors, op>>
    BY <1>3, <1>8 DEF Stopped
  <2>2. Moves(u, "join", name, l, l, e)
    <3>1. /\ op' = [op EXCEPT ![u] = name] /\ list' = [list EXCEPT ![u] = l]
          /\ errors' = [errors EXCEPT ![u] = e]
      BY <1>1, <1>3, <2>1 DEF Typed
    <3>2. QED
      BY <2>1, <3>1 DEF Moves, At, Todo
  <2>3. name \in {"activate", "clear"} /\ Fits(u, "join", name) /\ "join" \in Places
    BY <1>1, <1>2, <1>3, <1>8 DEF Fits, Places
  <2>4. lock_' = u /\ UnderLock("join", name) /\ lock_ \in {u, NoUser} /\ lock_' \in {u, NoUser}
    BY <1>2, <2>1, <2>3 DEF UnderLock
  <2>5. Duty("join", name, l, l, e)'
    BY <1>2, <1>4, <1>5, <1>6, <1>8 DEF Duty
  <2>6. KeptAwake(u, "join")
    BY <1>2 DEF KeptAwake
  <2>7. StillTold(u, "join", name)
    <3>1. CASE name = "activate"
      BY <3>1 DEF StillTold
    <3>2. CASE name /= "activate"
      <4>1. \A c \in Owned' : child'[c] /= "active"
        BY <1>2, <1>4, <1>6, <1>8, <3>2
      <4>2. QED
        BY <4>1 DEF StillTold
    <3>3. QED
      BY <3>1, <3>2
  <2>8. QED
    BY <1>2, <1>5, <1>6, <2>2, <2>3, <2>4, <2>5, <2>6, <2>7, Proceeds
<1>9. QED
  BY <1>7, <1>8

\* With the lock or, in wait_object, without it.
LEMMA AwaitingJoinChild ==
    ASSUME Awaiting, NEW u \in Users, JoinChild(u) PROVE Awaiting'
<1>1. /\ Typed /\ Duty(pc[u], op[u], todo[u], list[u], errors[u]) /\ Fits(u, pc[u], op[u])
      /\ Owned \subseteq Children /\ (lock_ = u <=> UnderLock(pc[u], op[u]))
  BY OwnedTyped DEF Awaiting, Task, Stationed
<1>2. /\ pc[u] = "join" /\ todo[u] /= <<>>
      /\ UNCHANGED <<lock_, active_state_, synchronous_, child_objects_, woken, pc, op, list>>
  BY DEF JoinChild
<1>3. PICK q \in Seq(Children), c \in Children, r \in Seq(Children) :
        q = todo[u] /\ c = Head(todo[u]) /\ r = Tail(todo[u]) /\ ToSet(q) = {c} \cup ToSet(r)
  BY <1>1, <1>2, AtHead
<1>4. PICK l \in Seq(Children), name \in Operations, b \in BOOLEAN :
        l = list[u] /\ name = op[u] /\ b = errors[u]
  BY <1>1 DEF Typed
<1>5. PICK t \in Seq(Children), e \in BOOLEAN :
        /\ todo' = [todo EXCEPT ![u] = t] /\ errors' = [errors EXCEPT ![u] = e]
        /\ ToSet(t) \subseteq ToSet(q)
  <2>1. CASE Waited(c) /\ Todo(u, r) /\ UNCHANGED <<failures, errors>>
    <3>1. todo' = [todo EXCEPT ![u] = r] /\ errors' = [errors EXCEPT ![u] = b]
      BY <1>1, <1>4, <2>1 DEF Typed, Todo
    <3>2. QED
      BY <1>3, <3>1
  <2>2. CASE Error(u) /\ Todo(u, IF b THEN r ELSE q)
    <3>1. errors' = [errors EXCEPT ![u] = TRUE] /\ (todo' = [todo EXCEPT ![u] = r] \/ todo' = [todo EXCEPT ![u] = q])
      BY <2>2 DEF Todo, Error
    <3>2. QED
      BY <1>3, <3>1
  <2>3. QED
    BY <1>3, <1>4, <2>1, <2>2 DEF JoinChild
<1>6. /\ child' \in [Children -> States]
      /\ \A d \in Children : child'[d] = "active" => child[d] = "active"
  BY <1>1, <1>3, WaitedOrNot DEF JoinChild, Throws
<1>7. Moves(u, "join", name, t, l, e) /\ "join" \in Places
  BY <1>1, <1>2, <1>4, <1>5 DEF Typed, Moves, Places
<1>8. Owned' = Owned
  BY <1>2 DEF Owned
<1>9. name /= "wait" => active_state_ = "deactivating"
  BY <1>1, <1>2, <1>4 DEF Duty
<1>10. Duty("join", name, t, l, e)'
  <2>1. name /= "wait" => \A d \in ToSet(t) : d \in Owned /\ child[d] /= "active"
    <3>1. name /= "wait" => \A d \in ToSet(q) : d \in Owned /\ child[d] /= "active"
      BY <1>1, <1>2, <1>3, <1>4 DEF Duty
    <3>2. QED
      BY <1>5, <3>1
  <2>2. name /= "wait" => \A d \in ToSet(t) : d \in Owned' /\ child'[d] /= "active"
    BY <1>1, <1>6, <1>8, <2>1
  <2>3. QED
    BY <1>2, <1>9, <2>2 DEF Duty
<1>11. KeptAwake(u, "join") /\ StillTold(u, "join", name)
  <2>1. KeptAwake(u, "join")
    BY <1>2 DEF KeptAwake
  <2>2. \A d \in Owned' : child'[d] = "active" => d \in Owned /\ child[d] = "active"
    BY <1>1, <1>6, <1>8
  <2>3. QED
    BY <1>2, <1>4, <2>1, <2>2 DEF StillTold
<1>12. Fits(u, "join", name) /\ (lock_' = u <=> UnderLock("join", name))
  BY <1>1, <1>2, <1>4 DEF Fits, UnderLock
<1>13. \/ lock_ \in {u, NoUser} /\ lock_' \in {u, NoUser}
       \/ /\ op[u] = "wait" /\ pc[u] = "join"
          /\ UNCHANGED <<lock_, active_state_, child_objects_>>
          /\ \A d \in Children : child'[d] = "active" => child[d] = "active"
  BY <1>1, <1>2, <1>6 DEF UnderLock
<1>14. /\ active_state_' \in {"active", "deactivating", "not_active"} /\ synchronous_' = synchronous_
       /\ child_objects_' \in Seq(Children)
  BY <1>1, <1>2 DEF Typed
<1>15. QED
  BY <1>6, <1>7, <1>10, <1>11, <1>12, <1>13, <1>14, Proceeds

LEMMA AwaitingJoinedUnderLock ==
    ASSUME Awaiting, NEW u \in Users, JoinedUnderLock(u) PROVE Awaiting'
<1>1. Typed /\ Duty(pc[u], op[u], todo[u], list[u], errors[u])
  BY DEF Awaiting, Task
<1>2. /\ pc[u] = "join" /\ op[u] /= "wait" /\ lock_ = u /\ active_state_ = "deactivating"
      /\ Returns(u) /\ lock_' = NoUser /\ UNCHANGED <<synchronous_, child, woken>>
  BY <1>1, HasLock DEF JoinedUnderLock, Leave, Duty
<1>3. \/ op[u] = "clear" /\ UNCHANGED <<active_state_, child_objects_>>
      \/ active_state_' = "not_active" /\ child_objects_' \in {<<>>, child_objects_}
  BY DEF JoinedUnderLock
<1>4. StillTold(u, "idle", "none")
  BY <1>2, <1>3 DEF StillTold, Owned
<1>5. /\ child_objects_' \in Seq(Children) /\ child' \in [Children -> States]
      /\ active_state_' \in {"active", "deactivating", "not_active"} /\ lock_ \in {u, NoUser}
  <2>1. <<>> \in Seq(Children)
    OBVIOUS
  <2>2. QED
    BY <1>1, <1>2, <1>3, <2>1 DEF Typed
<1>6. QED
  BY <1>2, <1>4, <1>5, AwaitingReturn

LEMMA AwaitingLook ==
    ASSUME Awaiting, NEW u \in Waiters, pc[u] \in {"idle", "sleep"}, Look(u) PROVE Awaiting'
<1>1. Typed /\ Duty(pc[u], op[u], todo[u], list[u], errors[u]) /\ u \in Users
  BY ConstantsAssumption DEF Awaiting, Task
<1>2. PICK l \in Seq(Children), e \in BOOLEAN : l = list[u] /\ e = errors[u]
  BY <1>1 DEF Typed
<1>3. /\ lock_ = NoUser /\ woken' = woken \ {u} /\ l = <<>>
      /\ UNCHANGED <<lock_, active_state_, synchronous_, child_objects_, child>>
  BY <1>1, <1>2 DEF Look, Duty
<1>4. PICK place \in Places, name \in Operations, t \in Seq(Children) :
        /\ Moves(u, place, name, t, l, e)
        /\ \/ place = "sleep" /\ name = "wait" /\ active_state_ = "active"
           \/ place = "join" /\ name = "wait"
           \/ place = "idle" /\ name = "none"
  <2>1. LastFirst(child_objects_) \in Seq(Children) /\ <<>> \in Seq(Children)
    <3>1. child_objects_ \in Seq(Children)
      BY <1>1 DEF Typed
    <3>2. QED
      BY <3>1, InReverse DEF LastFirst
  <2>2. PICK r \in Seq(Children) : r = LastFirst(child_objects_)
    BY <2>1
  <2>3. list' = [list EXCEPT ![u] = l] /\ errors' = [errors EXCEPT ![u] = e]
    BY <1>1, <1>2 DEF Look, Typed
  <2>4. CASE active_state_ = "active"
    <3>1. Moves(u, "sleep", "wait", <<>>, l, e)
      BY <2>3, <2>4 DEF Look, At, Todo, Does, Moves
    <3>2. QED
      BY <2>1, <2>4, <3>1 DEF Places, Operations
  <2>5. CASE active_state_ = "deactivating"
    <3>1. Moves(u, "join", "wait", r, l, e)
      BY <2>2, <2>3, <2>5 DEF Look, At, Todo, Does, Moves
    <3>2. QED
      BY <3>1 DEF Places, Operations
  <2>6. CASE active_state_ = "not_active"
    <3>1. Moves(u, "idle", "none", <<>>, l, e)
      BY <2>3, <2>6 DEF Look, At, Todo, Does, Moves
    <3>2. QED
      BY <2>1, <3>1 DEF Places, Operations
  <2>7. QED
    BY <1>1, <2>4, <2>5, <2>6 DEF Typed
<1>5. Duty(place, name, t, l, e)'
  BY <1>3, <1>4 DEF Duty
<1>6. Fits(u, place, name) /\ (lock_' = u <=> UnderLock(place, name))
  BY <1>3, <1>4, ConstantsAssumption DEF Fits, UnderLock
<1>7. KeptAwake(u, place)
  BY <1>3, <1>4 DEF KeptAwake
<1>8. StillTold(u, place, name)
  <2>1. Owned' = Owned /\ pc[u] /= "join"
    BY <1>3 DEF Owned
  <2>2. QED
    BY <1>3, <2>1 DEF StillTold
<1>9. /\ active_state_' \in {"active", "deactivating", "not_active"} /\ synchronous_' = synchronous_
      /\ child_objects_' \in Seq(Children) /\ child' \in [Children -> States]
      /\ lock_ \in {u, NoUser} /\ lock_' \in {u, NoUser}
  BY <1>1, <1>3 DEF Typed
<1>10. QED
  BY <1>1, <1>4, <1>5, <1>6, <1>7, <1>8, <1>9, Proceeds

LEMMA AwaitingEndWait ==
    ASSUME Awaiting, NEW u \in Users, EndWait(u) PROVE Awaiting'
<1>1. Typed /\ NoUser \notin Users
  BY ConstantsAssumption DEF Awaiting
<1>2. /\ pc[u] = "join" /\ op[u] = "wait" /\ Returns(u)
      /\ UNCHANGED <<lock_, synchronous_, child_objects_, child, woken>>
  BY DEF EndWait
<1>3. StillTold(u, "idle", "none")
  BY <1>1, <1>2 DEF StillTold, Owned, EndWait, Typed
<1>4. active_state_' /= "active" => active_state_ /= "active"
  BY DEF EndWait
<1>5. /\ active_state_' \in {"active", "deactivating", "not_active"}
      /\ child_objects_' \in Seq(Children) /\ child' \in [Children -> States]
  BY <1>1, <1>2 DEF Typed, EndWait
<1>6. CASE lock_ = NoUser
  BY <1>2, <1>3, <1>4, <1>5, <1>6, AwaitingReturn
<1>7. CASE UNCHANGED active_state_
  <2>1. "idle" \in Places /\ "none" \in Operations /\ FALSE \in BOOLEAN /\ <<>> \in Seq(Children)
    BY DEF Places, Operations
  <2>2. Moves(u, "idle", "none", <<>>, <<>>, FALSE)
    BY <1>2, ReturnMoves
  <2>3. Fits(u, "idle", "none") /\ (lock_' = u <=> UnderLock("idle", "none"))
    BY <1>2 DEF Fits, UnderLock, Awaiting, Stationed
  <2>4. Duty("idle", "none", <<>>, <<>>, FALSE)'
    BY DEF Duty
  <2>5. KeptAwake(u, "idle")
    BY <1>2, <1>4 DEF KeptAwake
  <2>6. QED
    BY <1>2, <1>3, <1>5, <1>7, <2>1, <2>2, <2>3, <2>4, <2>5, Proceeds
<1>8. QED
  BY <1>6, <1>7 DEF EndWait

\* The user stays outside, or the child it adds is no cause to wait.
LEMMA AwaitingAddToActive ==
    ASSUME Awaiting, NEW u \in Users, NEW c \in Children, AddToActive(u, c) PROVE Awaiting'
<1>1. Typed /\ Stationed /\ (\A v \in Users : Task(v)) /\ Sleepers
  BY DEF Awaiting
<1>2. /\ lock_ = NoUser /\ active_state_ = "active"
      /\ UNCHANGED <<lock_, active_state_, synchronous_, woken, pc, op, todo, list, errors>>
  BY DEF AddToActive, Enter, locals
<1>3. child' \in [Children -> States] /\ child_objects_' \in Seq(Children)
  <2>1. "active" \in States /\ Append(child_objects_, c) \in Seq(Children)
    BY <1>1, InAppend DEF States, Typed
  <2>2. Becomes(c, "active") \/ child' = child
    BY DEF AddToActive, Throws
  <2>3. child_objects_' = Append(child_objects_, c) \/ child_objects_' = child_objects_
    BY DEF AddToActive, Push
  <2>4. QED
    BY <1>1, <2>1, <2>2, <2>3, OneChanges DEF Typed
<1>4. Typed' /\ Stationed'
  BY <1>1, <1>2, <1>3 DEF Typed, Stationed
<1>5. ASSUME NEW v \in Users PROVE Task(v)'
  <2>1. pc[v] \in {"idle", "sleep"} \/ (pc[v] = "join" /\ op[v] = "wait")
    BY <1>2, NobodyInside
  <2>2. Duty(pc[v], op[v], todo[v], list[v], errors[v])
    BY <1>1 DEF Task
  <2>3. QED
    BY <1>2, <2>1, <2>2 DEF Task, Duty
<1>6. Sleepers' /\ ToldToStop'
  BY <1>1, <1>2 DEF Sleepers, ToldToStop
<1>7. QED
  BY <1>4, <1>5, <1>6 DEF Awaiting

LEMMA AwaitingAddToInactive ==
    ASSUME Awaiting, NEW u \in Users, NEW c \in Children, AddToInactive(u, c) PROVE Awaiting'
<1>1. /\ Typed /\ Stationed /\ (\A v \in Users : Task(v)) /\ Sleepers /\ ToldToStop
      /\ Owned \subseteq Children /\ NoUser \notin Users
  BY OwnedTyped, ConstantsAssumption DEF Awaiting
<1>2. /\ pc[u] = "idle" /\ lock_ = NoUser /\ active_state_ /= "active" /\ c \notin Owned
      /\ UNCHANGED <<active_state_, synchronous_, woken, list, errors>>
  BY DEF AddToInactive, Enter
<1>3. CASE child[c] = "not_active" /\ Push(c) /\ UNCHANGED <<lock_, child, failures, pc, op, todo>>
  <2>1. child_objects_' \in Seq(Children) /\ Owned' = Owned \cup {c}
    BY <1>1, <1>3, InAppend DEF Typed, Push, Owned
  <2>2. Typed' /\ Stationed'
    BY <1>1, <1>2, <1>3, <2>1 DEF Typed, Stationed
  <2>3. ASSUME NEW v \in Users PROVE Task(v)'
    <3>1. pc[v] \in {"idle", "sleep"} \/ (pc[v] = "join" /\ op[v] = "wait")
      BY <1>2, NobodyInside
    <3>2. Duty(pc[v], op[v], todo[v], list[v], errors[v])
      BY <1>1 DEF Task
    <3>3. QED
      BY <1>2, <1>3, <3>1, <3>2 DEF Task, Duty
  <2>4. Sleepers' /\ ToldToStop'
    BY <1>1, <1>2, <1>3, <2>1 DEF Sleepers, ToldToStop
  <2>5. QED
    BY <2>2, <2>3, <2>4 DEF Awaiting
<1>4. CASE /\ child[c] = "active" /\ Becomes(c, "stopping")
           /\ lock_' = u /\ At(u, "adopt") /\ Does(u, "add") /\ Todo(u, <<c>>)
           /\ UNCHANGED <<child_objects_, failures>>
  <2>1. PICK l \in Seq(Children), e \in BOOLEAN, t \in Seq(Children) :
          l = list[u] /\ e = errors[u] /\ t = <<c>>
    <3>1. <<c>> \in Seq(Children)
      OBVIOUS
    <3>2. QED
      BY <1>1, <3>1 DEF Typed
  <2>2. Moves(u, "adopt", "add", t, l, e) /\ "adopt" \in Places /\ "add" \in Operations
    BY <1>1, <1>2, <1>4, <2>1 DEF Typed, Moves, At, Does, Todo, Places, Operations
  <2>3. /\ child' \in [Children -> States] /\ child'[c] = "stopping"
        /\ \A d \in Children : d /= c => child'[d] = child[d]
    <3>1. "stopping" \in States
      BY DEF States
    <3>2. QED
      BY <1>1, <1>4, <3>1, OneChanges
  <2>4. Duty("adopt", "add", t, l, e)'
    <3>1. t /= <<>> /\ Head(t) = c
      BY <2>1
    <3>2. QED
      BY <2>3, <3>1 DEF Duty
  <2>5. Fits(u, "adopt", "add") /\ (lock_' = u <=> UnderLock("adopt", "add"))
    BY <1>4 DEF Fits, UnderLock
  <2>6. KeptAwake(u, "adopt")
    BY <1>2 DEF KeptAwake
  <2>7. StillTold(u, "adopt", "add")
    <3>1. Owned' = Owned
      BY <1>4 DEF Owned
    <3>2. \A d \in Owned' : child'[d] = "active" => d \in Owned /\ child[d] = "active"
      BY <1>1, <2>3, <3>1
    <3>3. QED
      BY <1>2, <3>2 DEF StillTold
  <2>8. /\ active_state_' \in {"active", "deactivating", "not_active"} /\ synchronous_' = synchronous_
        /\ child_objects_' \in Seq(Children) /\ lock_ \in {u, NoUser} /\ lock_' \in {u, NoUser}
    BY <1>1, <1>2, <1>4 DEF Typed
  <2>9. QED
    BY <2>1, <2>2, <2>3, <2>4, <2>5, <2>6, <2>7, <2>8, Proceeds
<1>5. QED
  BY <1>3, <1>4 DEF AddToInactive

LEMMA AwaitingAdopt ==
    ASSUME Awaiting, NEW u \in Users, Adopt(u) PROVE Awaiting'
<1>1. /\ Typed /\ Duty(pc[u], op[u], todo[u], list[u], errors[u]) /\ Owned \subseteq Children
  BY OwnedTyped DEF Awaiting, Task
<1>2. /\ pc[u] = "adopt" /\ lock_ = u /\ Returns(u) /\ lock_' = NoUser
      /\ UNCHANGED <<active_state_, synchronous_, woken>>
  BY HasLock DEF Adopt, Leave
<1>3. PICK q \in Seq(Children), c \in Children, t \in Seq(Children) :
        q = todo[u] /\ c = Head(todo[u]) /\ t = Tail(todo[u]) /\ ToSet(q) = {c} \cup ToSet(t)
  BY <1>1, <1>2, AtHead DEF Duty
<1>4. /\ child' \in [Children -> States]
      /\ \A d \in Children : child'[d] = "active" => child[d] = "active"
      /\ Waited(c) => child'[c] = "not_active"
  BY <1>1, <1>3, WaitedOrNot DEF Adopt, Throws
<1>5. \/ Waited(c) /\ child_objects_' \in Seq(Children) /\ Owned' = Owned \cup {c}
      \/ child_objects_' = child_objects_ /\ Owned' = Owned
  <2>1. CASE Waited(c) /\ Push(c)
    <3>1. PICK s \in Seq(Children) : s = child_objects_
      BY <1>1 DEF Typed
    <3>2. Append(s, c) \in Seq(Children) /\ ToSet(Append(s, c)) = ToSet(s) \cup {c}
      BY InAppend
    <3>3. QED
      BY <2>1, <3>1, <3>2 DEF Push, Owned
  <2>2. CASE UNCHANGED child_objects_
    BY <2>2 DEF Owned
  <2>3. QED
    BY <1>3, <2>1, <2>2 DEF Adopt
<1>6. StillTold(u, "idle", "none")
  <2>1. \A d \in Owned' : child'[d] = "active" => d \in Owned /\ child[d] = "active"
    BY <1>1, <1>4, <1>5
  <2>2. QED
    BY <1>2, <2>1 DEF StillTold
<1>7. /\ active_state_' \in {"active", "deactivating", "not_active"} /\ child_objects_' \in Seq(Children)
      /\ lock_ \in {u, NoUser}
  BY <1>1, <1>2, <1>5 DEF Typed
<1>8. QED
  BY <1>2, <1>4, <1>6, <1>7, AwaitingReturn

LEMMA AwaitingClear ==
    ASSUME Awaiting, NEW u \in Waiters, clear_children(u) PROVE Awaiting'
<1>1. /\ Typed /\ Stationed /\ (\A v \in Users : Task(v)) /\ Sleepers /\ ToldToStop /\ u \in Users
      /\ NoUser \notin Users
  BY ConstantsAssumption DEF Awaiting
<1>2. /\ pc[u] = "idle" /\ lock_ = NoUser
      /\ UNCHANGED <<active_state_, synchronous_, child, failures>>
  BY DEF clear_children, Enter
<1>3. CASE active_state_ = "active"
  <2>1. PICK name \in {"deactivate", "clear"} : name = "clear"
    OBVIOUS
  <2>2. Does(u, name) /\ BeginStop(u, LastFirst(child_objects_)) /\ UNCHANGED child_objects_
    BY <1>3, <2>1 DEF clear_children
  <2>3. QED
    BY <1>1, <1>2, <1>3, <2>2, AwaitingStopAll
<1>4. CASE active_state_ = "deactivating"
  <2>1. /\ Does(u, "clear") /\ lock_' = u /\ At(u, "join") /\ Todo(u, LastFirst(child_objects_))
        /\ UNCHANGED <<child_objects_, woken, list, errors>>
    BY <1>4 DEF clear_children
  <2>2. PICK t \in Seq(Children) : t = LastFirst(child_objects_) /\ ToSet(t) = Owned
    BY <1>1, InReverse DEF Typed, LastFirst, Owned
  <2>3. PICK l \in Seq(Children), e \in BOOLEAN : l = list[u] /\ e = errors[u]
    BY <1>1 DEF Typed
  <2>4. Moves(u, "join", "clear", t, l, e) /\ "join" \in Places /\ "clear" \in Operations
    BY <1>1, <2>1, <2>2, <2>3 DEF Typed, Moves, At, Does, Todo, Places, Operations
  <2>5. \A d \in Owned : child[d] /= "active"
    <3>1. \A v \in Users : pc[v] = "join" => op[v] /= "activate"
      <4>1. \A v \in Users : pc[v] \in {"idle", "sleep"} \/ (pc[v] = "join" /\ op[v] = "wait")
        BY <1>2, NobodyInside
      <4>2. QED
        BY <4>1
    <3>2. QED
      BY <1>1, <1>4, <3>1 DEF ToldToStop
  <2>6. Duty("join", "clear", t, l, e)'
    BY <1>2, <1>4, <2>1, <2>2, <2>5 DEF Duty, Owned
  <2>7. Fits(u, "join", "clear") /\ (lock_' = u <=> UnderLock("join", "clear"))
    BY <2>1 DEF Fits, UnderLock
  <2>8. KeptAwake(u, "join") /\ StillTold(u, "join", "clear")
    BY <1>2, <1>4, <2>1, <2>5 DEF KeptAwake, StillTold, Owned
  <2>9. /\ active_state_' \in {"active", "deactivating", "not_active"} /\ synchronous_' = synchronous_
        /\ child_objects_' \in Seq(Children) /\ child' \in [Children -> States]
        /\ lock_ \in {u, NoUser} /\ lock_' \in {u, NoUser}
    BY <1>1, <1>2, <2>1 DEF Typed
  <2>10. QED
    BY <1>1, <2>4, <2>6, <2>7, <2>8, <2>9, Proceeds
<1>5. CASE active_state_ = "not_active"
  <2>1. child_objects_' = <<>> /\ UNCHANGED <<lock_, woken, pc, op, todo, list, errors>>
    BY <1>5 DEF clear_children, locals
  <2>2. Typed' /\ Stationed'
    BY <1>1, <1>2, <2>1 DEF Typed, Stationed
  <2>3. ASSUME NEW v \in Users PROVE Task(v)'
    <3>1. pc[v] \in {"idle", "sleep"} \/ (pc[v] = "join" /\ op[v] = "wait")
      BY <1>2, NobodyInside
    <3>2. Duty(pc[v], op[v], todo[v], list[v], errors[v])
      BY <1>1 DEF Task
    <3>3. QED
      BY <1>2, <2>1, <3>1, <3>2 DEF Task, Duty
  <2>4. Sleepers' /\ ToldToStop'
    BY <1>1, <1>2, <1>5, <2>1 DEF Sleepers, ToldToStop
  <2>5. QED
    BY <2>2, <2>3, <2>4 DEF Awaiting
<1>6. QED
  BY <1>1, <1>3, <1>4, <1>5 DEF Typed

\* Neither the end of a child nor its other user disturbs the composite.
LEMMA AwaitingOfChild ==
    ASSUME Awaiting, NEW c \in Children, EndChild(c) \/ StartOutside(c) PROVE Awaiting'
<1>1. /\ Typed /\ Stationed /\ (\A v \in Users : Task(v)) /\ Sleepers /\ ToldToStop
      /\ Owned \subseteq Children
  BY OwnedTyped DEF Awaiting
<1>2. UNCHANGED <<lock_, active_state_, synchronous_, child_objects_, woken, pc, op, todo, list, errors>>
  BY DEF EndChild, StartOutside, locals
<1>3. PICK s \in States : Becomes(c, s) /\ (s = "active" => StartOutside(c))
  BY DEF States, EndChild, StartOutside
<1>4. /\ child' \in [Children -> States] /\ child'[c] = s
      /\ \A d \in Children : d /= c => child'[d] = child[d]
  BY <1>1, <1>3, OneChanges
<1>5. /\ s = "active" => c \notin Owned /\ \A v \in Users : pc[v] /= "adopt"
      /\ Owned' = Owned
  BY <1>2, <1>3 DEF StartOutside, Owned
<1>6. Typed' /\ Stationed'
  BY <1>1, <1>2, <1>4 DEF Typed, Stationed
<1>7. ASSUME NEW v \in Users PROVE Task(v)'
  <2>1. PICK p \in Places, n \in Operations, t \in Seq(Children), l \in Seq(Children), b \in BOOLEAN :
          p = pc[v] /\ n = op[v] /\ t = todo[v] /\ l = list[v] /\ b = errors[v]
    BY <1>1 DEF Typed
  <2>2. Duty(p, n, t, l, b)
    BY <1>1, <2>1 DEF Task
  <2>3. \A d \in Children : child'[d] = "active" =>
          child[d] = "active" \/ (d \notin Owned /\ p /= "adopt")
    BY <1>4, <1>5, <2>1
  <2>4. Duty(p, n, t, l, b)'
    BY <1>1, <1>2, <2>2, <2>3, DutyStays
  <2>5. QED
    BY <1>2, <2>1, <2>4 DEF Task
<1>8. Sleepers' /\ ToldToStop'
  BY <1>1, <1>2, <1>4, <1>5 DEF Sleepers, ToldToStop
<1>9. QED
  BY <1>6, <1>7, <1>8 DEF Awaiting

LEMMA InitAwaiting == Init => Awaiting
<1>1. <<>> \in Seq(Children) /\ ToSet(<<>>) = {}
  BY NothingIn
<1>2. SUFFICES ASSUME Init PROVE Awaiting
  OBVIOUS
<1>3. Owned = {}
  BY <1>1, <1>2 DEF Init, Owned
<1>4. Typed
  BY <1>1, <1>2 DEF Init, Typed, Places, Operations, States
<1>5. Stationed
  BY <1>2, ConstantsAssumption DEF Init, Stationed, Fits, UnderLock
<1>6. \A u \in Users : Task(u)
  BY <1>2 DEF Init, Task, Duty
<1>7. Sleepers /\ ToldToStop
  BY <1>2 DEF Init, Sleepers, ToldToStop
<1>8. QED
  BY <1>4, <1>5, <1>6, <1>7 DEF Awaiting

LEMMA NextAwaiting == Awaiting /\ [Next]_vars => Awaiting'
<1>1. SUFFICES ASSUME Awaiting, [Next]_vars PROVE Awaiting'
  OBVIOUS
<1>2. ASSUME NEW u \in Users, Step(u) PROVE Awaiting'
  <2>1. CASE WakeUp(u)
    <3>1. u \in Waiters
      BY <1>1, <2>1 DEF WakeUp, Awaiting, Stationed, Fits
    <3>2. QED
      BY <1>1, <2>1, <3>1, AwaitingLook DEF WakeUp
  <2>2. QED
    BY <1>1, <1>2, <2>1, AwaitingStartChild, AwaitingStartFails, AwaitingStarted, AwaitingStopChild,
       AwaitingWaitAtOnce, AwaitingStopped, AwaitingJoinChild, AwaitingJoinedUnderLock,
       AwaitingEndWait, AwaitingAdopt DEF Step
<1>3. ASSUME NEW u \in Users, Call(u) PROVE Awaiting'
  BY <1>1, <1>3, AwaitingActivate, AwaitingDeactivate, AwaitingLook, AwaitingClear,
     AwaitingAddToActive, AwaitingAddToInactive DEF Call, wait_object
<1>4. ASSUME NEW u \in Users, SpuriousWakeup(u) PROVE Awaiting'
  <2>1. u \in Waiters
    BY <1>1, <1>4 DEF SpuriousWakeup, Awaiting, Stationed, Fits
  <2>2. QED
    BY <1>1, <1>4, <2>1, AwaitingLook DEF SpuriousWakeup
<1>5. ASSUME NEW c \in Children, EndChild(c) \/ StartOutside(c) PROVE Awaiting'
  BY <1>1, <1>5, AwaitingOfChild
<1>6. CASE UNCHANGED vars
  BY <1>1, <1>6 DEF vars, locals, Awaiting, Typed, Stationed, Task, Duty, Sleepers, ToldToStop, Owned
<1>7. QED
  BY <1>1, <1>2, <1>3, <1>4, <1>5, <1>6 DEF Next

\* Whatever the users do and however often a child throws, a user is where it is
\* with lock_ in its hands, or asleep, or waiting for a copy of the children, and
\* no child that works is among those it waits for under lock_.
THEOREM WaitInvariance == Spec => []Awaiting
<1>1. Init => Awaiting
  BY InitAwaiting
<1>2. Awaiting /\ [Next]_vars => Awaiting'
  BY NextAwaiting
<1>3. QED
  BY <1>1, <1>2, PTL DEF Spec

\* No wakeup of wait_object is lost, with any number of waiters, and of children
\* that throw: who sleeps on when the composite is no longer active was woken.
THEOREM NobodyOversleeps == Spec => []NobodySleepsOn
<1>1. Awaiting => NobodySleepsOn
  BY DEF Awaiting, Sleepers, NobodySleepsOn
<1>2. QED
  BY <1>1, WaitInvariance, PTL

-----------------------------------------------------------------------------
(* One user who waits without the lock.                                      *)

\* While it waits the composite stays what it was, but for children that are added.
Copied(w) ==
    pc[w] = "join" /\ op[w] = "wait" =>
        /\ active_state_ = "deactivating"
        /\ \A v \in Users : op[v] /= "activate"
        /\ ToSet(todo[w]) \subseteq Owned

\* What a user that does not wait may do meanwhile.
LEMMA Meanwhile ==
    ASSUME Awaiting, OneWaiter, NEW w \in Waiters, pc[w] = "join", op[w] = "wait", Copied(w),
           NEW u \in Users, u /= w, Step(u) \/ Call(u) \/ SpuriousWakeup(u)
    PROVE  /\ active_state_' = active_state_ /\ Same(w)
           /\ \A v \in Users : op'[v] \in {op[v], "add", "none"}
           /\ Owned \subseteq Owned'
<1>1. /\ Typed /\ Duty(pc[u], op[u], todo[u], list[u], errors[u]) /\ Fits(u, pc[u], op[u])
      /\ w \in Users /\ Owned \subseteq Children
  BY OwnedTyped, ConstantsAssumption DEF Awaiting, Task, Stationed
<1>2. u \notin Waiters /\ active_state_ = "deactivating" /\ op[u] /= "activate"
  BY DEF OneWaiter, Copied, Awaiting
<1>3. pc[u] \in {"idle", "adopt"}
  BY <1>1, <1>2 DEF Fits, Duty, Typed, Places
<1>4. Adopt(u) \/ \E c \in Children : AddToInactive(u, c)
  BY <1>2, <1>3 DEF Step, Call, SpuriousWakeup, StartChild, StartFails, Started, StopChild,
     WaitAtOnce, Stopped, JoinChild, JoinedUnderLock, WakeUp, EndWait, activate_object,
     deactivate_object, AddToActive
<1>5. CASE Adopt(u)
  <2>1. PICK c : c = Head(todo[u])
    OBVIOUS
  <2>2. active_state_' = active_state_ /\ Returns(u) /\ (Push(c) \/ UNCHANGED child_objects_)
    BY <1>5, <2>1 DEF Adopt, Leave
  <2>3. c \in Children
    <3>1. todo[u] /= <<>>
      BY <1>1, <1>5 DEF Duty, Adopt
    <3>2. QED
      BY <1>1, <2>1, <3>1, AtHead
  <2>4. Same(w) /\ \A v \in Users : op'[v] \in {op[v], "none"}
    BY <1>1, <2>2 DEF Returns, At, Todo, Does, Same, Typed
  <2>5. Owned \subseteq Owned'
    <3>1. PICK s \in Seq(Children) : s = child_objects_
      BY <1>1 DEF Typed
    <3>2. ToSet(s) \subseteq ToSet(Append(s, c))
      BY <2>3, InAppend
    <3>3. QED
      BY <2>2, <3>1, <3>2 DEF Push, Owned
  <2>6. QED
    BY <2>2, <2>4, <2>5
<1>6. ASSUME NEW c \in Children, AddToInactive(u, c)
      PROVE  /\ active_state_' = active_state_ /\ Same(w)
             /\ \A v \in Users : op'[v] \in {op[v], "add"}
             /\ Owned \subseteq Owned'
  <2>1. UNCHANGED <<active_state_, list, errors>>
    BY <1>6 DEF AddToInactive
  <2>2. CASE Push(c) /\ UNCHANGED <<pc, op, todo>>
    <3>1. PICK s \in Seq(Children) : s = child_objects_
      BY <1>1 DEF Typed
    <3>2. ToSet(s) \subseteq ToSet(Append(s, c))
      BY InAppend
    <3>3. QED
      BY <2>1, <2>2, <3>1, <3>2 DEF Push, Owned, Same
  <2>3. CASE At(u, "adopt") /\ Does(u, "add") /\ Todo(u, <<c>>) /\ UNCHANGED child_objects_
    BY <1>1, <2>1, <2>3 DEF At, Does, Todo, Same, Typed, Owned
  <2>4. QED
    BY <1>6, <2>2, <2>3 DEF AddToInactive
<1>7. QED
  BY <1>4, <1>5, <1>6

\* Nobody moves another user.
LEMMA LeavesAlone ==
    ASSUME Typed, NEW u \in Users, NEW w \in Users, u /= w, Step(u) \/ Call(u) \/ SpuriousWakeup(u)
    PROVE  pc'[w] = pc[w] /\ op'[w] = op[w]
<1>1. CASE StartChild(u) \/ StartFails(u) \/ Started(u)
  BY <1>1 DEF Typed, StartChild, StartFails, Started, BeginStop, Leave, Returns, At, Does
<1>2. CASE StopChild(u) \/ WaitAtOnce(u)
  BY <1>2 DEF Typed, StopChild, WaitAtOnce, At, Does
<1>3. CASE Stopped(u)
  BY <1>3 DEF Typed, Stopped, Leave, Returns, At, Does
<1>4. CASE JoinChild(u) \/ JoinedUnderLock(u) \/ Adopt(u)
  BY <1>4 DEF Typed, JoinChild, JoinedUnderLock, Adopt, Leave, Returns, At, Does
<1>5. CASE WakeUp(u) \/ SpuriousWakeup(u) \/ wait_object(u)
  BY <1>5 DEF Typed, WakeUp, SpuriousWakeup, wait_object, Look, At, Does
<1>6. CASE EndWait(u)
  BY <1>6 DEF Typed, EndWait, Returns, At, Does
<1>7. CASE activate_object(u) \/ deactivate_object(u)
  BY <1>7 DEF Typed, activate_object, deactivate_object, BeginStop, At, Does
<1>8. CASE clear_children(u)
  BY <1>8 DEF Typed, clear_children, BeginStop, At, Does, locals
<1>9. ASSUME NEW c \in Children, AddToActive(u, c) \/ AddToInactive(u, c)
      PROVE  pc'[w] = pc[w] /\ op'[w] = op[w]
  BY <1>9 DEF Typed, AddToActive, AddToInactive, At, Does, locals
<1>10. QED
  BY <1>1, <1>2, <1>3, <1>4, <1>5, <1>6, <1>7, <1>8, <1>9 DEF Step, Call

LEMMA NextCopied ==
    ASSUME Awaiting, OneWaiter, NEW w \in Waiters, Copied(w), [Next]_vars PROVE Copied(w)'
<1>1. /\ Typed /\ Stationed /\ w \in Users /\ Owned \subseteq Children /\ NoUser \notin Users
      /\ Duty(pc[w], op[w], todo[w], list[w], errors[w]) /\ Fits(w, pc[w], op[w])
  BY OwnedTyped, ConstantsAssumption DEF Awaiting, Task, Stationed
<1>2. SUFFICES ASSUME pc'[w] = "join", op'[w] = "wait"
               PROVE  /\ active_state_' = "deactivating"
                      /\ \A v \in Users : op'[v] /= "activate"
                      /\ ToSet(todo'[w]) \subseteq Owned'
  BY DEF Copied
<1>3. ASSUME NEW u \in Users, u /= w, Step(u) \/ Call(u) \/ SpuriousWakeup(u)
      PROVE  /\ active_state_' = "deactivating"
             /\ \A v \in Users : op'[v] /= "activate"
             /\ ToSet(todo'[w]) \subseteq Owned'
  <2>1. pc[w] = "join" /\ op[w] = "wait"
    BY <1>1, <1>2, <1>3, LeavesAlone
  <2>2. QED
    BY <1>1, <1>3, <2>1, Meanwhile DEF Copied, Same
<1>4. ASSUME Look(w)
      PROVE  /\ active_state_' = "deactivating"
             /\ \A v \in Users : op'[v] /= "activate"
             /\ ToSet(todo'[w]) \subseteq Owned'
  <2>1. active_state_' = active_state_ /\ child_objects_' = child_objects_ /\ lock_ = NoUser
    BY <1>4 DEF Look
  <2>2. active_state_ = "deactivating"
    BY <1>1, <1>2, <1>4 DEF Look, At, Typed
  <2>3. PICK s \in Seq(Children) : s = LastFirst(child_objects_) /\ ToSet(s) = Owned
    BY <1>1, InReverse DEF Typed, LastFirst, Owned
  <2>4. todo'[w] = s
    BY <1>1, <1>4, <2>2, <2>3 DEF Look, Todo, Typed
  <2>5. \A v \in Users : op[v] /= "activate"
    BY <1>1, <2>1 DEF Stationed, UnderLock, Fits
  <2>6. \A v \in Users : op'[v] /= "activate"
    BY <1>1, <1>2, <1>4, <2>5 DEF Look, Does, Typed
  <2>7. QED
    BY <2>1, <2>2, <2>3, <2>4, <2>6 DEF Owned
<1>5. ASSUME JoinChild(w)
      PROVE  /\ active_state_' = "deactivating"
             /\ \A v \in Users : op'[v] /= "activate"
             /\ ToSet(todo'[w]) \subseteq Owned'
  <2>1. UNCHANGED <<active_state_, child_objects_, pc, op>> /\ todo[w] /= <<>>
    BY <1>5 DEF JoinChild
  <2>2. PICK q \in Seq(Children), c \in Children, t \in Seq(Children) :
          q = todo[w] /\ c = Head(todo[w]) /\ t = Tail(todo[w]) /\ ToSet(q) = {c} \cup ToSet(t)
    BY <1>1, <2>1, AtHead
  <2>3. todo'[w] = q \/ todo'[w] = t
    BY <1>1, <1>5, <2>2 DEF JoinChild, Todo, Typed
  <2>4. QED
    BY <1>2, <2>1, <2>2, <2>3 DEF Copied, Owned
<1>6. ASSUME Step(w) \/ Call(w) \/ SpuriousWakeup(w)
      PROVE  Look(w) \/ JoinChild(w)
  <2>1. CASE StartChild(w) \/ StartFails(w) \/ Started(w)
    BY <1>1, <1>2, <2>1 DEF Fits, Typed, StartChild, StartFails, Started, BeginStop, Leave, Returns, At, Does
  <2>2. CASE StopChild(w) \/ WaitAtOnce(w)
    BY <1>1, <1>2, <2>2 DEF Fits, Typed, StopChild, WaitAtOnce, At
  <2>3. CASE Stopped(w)
    BY <1>1, <1>2, <2>3 DEF Fits, Typed, Stopped, Leave, Returns, At, Does
  <2>4. CASE JoinedUnderLock(w) \/ Adopt(w)
    BY <1>1, <1>2, <2>4 DEF Typed, JoinedUnderLock, Adopt, Leave, Returns, At
  <2>5. CASE EndWait(w)
    BY <1>1, <1>2, <2>5 DEF Typed, EndWait, Returns, At
  <2>6. CASE activate_object(w) \/ deactivate_object(w)
    BY <1>1, <1>2, <2>6 DEF Typed, activate_object, deactivate_object, BeginStop, At
  <2>7. CASE clear_children(w)
    BY <1>1, <1>2, <2>7 DEF Typed, clear_children, BeginStop, At, Does, locals, Enter
  <2>8. ASSUME NEW c \in Children, AddToActive(w, c) \/ AddToInactive(w, c) PROVE FALSE
    BY <1>1, <1>2, <2>8 DEF Typed, AddToActive, AddToInactive, At, locals, Enter
  <2>9. QED
    BY <1>6, <2>1, <2>2, <2>3, <2>4, <2>5, <2>6, <2>7, <2>8
       DEF Step, Call, WakeUp, SpuriousWakeup, wait_object
<1>7. ASSUME NEW c \in Children, EndChild(c) \/ StartOutside(c)
      PROVE  UNCHANGED <<active_state_, child_objects_, pc, op, todo>>
  BY <1>7 DEF EndChild, StartOutside, locals
<1>8. CASE UNCHANGED <<active_state_, child_objects_, pc, op, todo>>
  BY <1>2, <1>8 DEF Copied, Owned
<1>9. QED
  BY <1>1, <1>3, <1>4, <1>5, <1>6, <1>7, <1>8 DEF Next, vars, locals

\* Whoever waits for a child, with lock_ or in wait_object without it, waits for
\* one that was told to stop or has ended, also when children throw at any time,
\* and no wakeup is lost: with one waiter, whatever the others do, nobody waits
\* for what does not come.
THEOREM WaitsEnd == ASSUME OneWaiter PROVE Spec => []NobodyWaitsInVain
<1>1. Init => \A w \in Waiters : Copied(w)
  BY ConstantsAssumption DEF Init, Copied
<1>2. Awaiting /\ (\A w \in Waiters : Copied(w)) /\ [Next]_vars => (\A w \in Waiters : Copied(w))'
  BY NextCopied
<1>3. Awaiting /\ (\A w \in Waiters : Copied(w)) => NobodyWaitsInVain
  <2>1. SUFFICES ASSUME Awaiting, \A w \in Waiters : Copied(w)
                 PROVE  NobodyWaitsInVain
    OBVIOUS
  <2>2. ASSUME NEW u \in Users, pc[u] \in {"sync", "join", "adopt"}, todo[u] /= <<>>
        PROVE  child[Head(todo[u])] /= "active"
    <3>1. Typed /\ Duty(pc[u], op[u], todo[u], list[u], errors[u]) /\ Fits(u, pc[u], op[u])
      BY <2>1 DEF Awaiting, Task, Stationed
    <3>2. PICK q \in Seq(Children), c \in Children, t \in Seq(Children) :
            q = todo[u] /\ c = Head(todo[u]) /\ t = Tail(todo[u]) /\ ToSet(q) = {c} \cup ToSet(t)
      BY <2>2, <3>1, AtHead
    <3>3. CASE pc[u] \in {"sync", "adopt"}
      BY <3>1, <3>3 DEF Duty
    <3>4. CASE pc[u] = "join" /\ op[u] /= "wait"
      BY <3>1, <3>2, <3>4 DEF Duty
    <3>5. CASE pc[u] = "join" /\ op[u] = "wait"
      <4>1. Copied(u)
        BY <2>1, <3>1, <3>5 DEF Fits
      <4>2. QED
        BY <2>1, <3>2, <3>5, <4>1 DEF Copied, Awaiting, ToldToStop
    <3>6. QED
      BY <2>2, <3>3, <3>4, <3>5
  <2>3. NobodySleepsOn
    BY <2>1 DEF Awaiting, Sleepers, NobodySleepsOn
  <2>4. QED
    BY <2>2, <2>3 DEF NobodyWaitsInVain, EndsAwaited
<1>4. QED
  BY <1>1, <1>2, <1>3, WaitInvariance, PTL DEF Spec
=============================================================================
