------------------------- MODULE BuildGraphs_proofs -------------------------
(***************************************************************************)
(* Proofs about the two graphs that a build is made of.                    *)
(*                                                                         *)
(* TaskGraph, for every metadata: one pass over the tasks finds what every *)
(* recipe needs, nothing that a task left depends on is pruned, the build  *)
(* keeps all that its metadata ask for, under the new numbers, and a graph *)
(* is refused exactly when it has a cycle.  So RunQueue runs the tasks in  *)
(* the order that the metadata ask for.                                    *)
(*                                                                         *)
(* SceneGraph, for every task graph without a cycle and whatever the order *)
(* of the walk: the walk ends, a setscene task gets the tasks above it,    *)
(* and the graph between setscene tasks has no cycle.  So RunQueue forks a *)
(* setscene task when an outcome is known for those that need its output.  *)
(***************************************************************************)
EXTENDS TaskGraph, RunQueue_proofs, FunctionTheorems

-----------------------------------------------------------------------------
(* What a recipe needs                                                     *)

anyOf(X) == CHOOSE x \in X : TRUE

Recipes(td) == {td.fnid[t] : t \in Tasks(td)}

\* What the tasks of a recipe depend on.
first(td) == [f \in Recipes(td) |->
                UNION {Direct(td, t) : t \in {u \in Tasks(td) : td.fnid[u] = f}}]

\* The pass of reccumdepends.
passOp(k, last, recipes, fnid, m, n) ==
    [f \in recipes |-> IF k \in last[f] THEN last[f] \cup last[fnid[k]] ELSE last[f]]

\* After k steps a recipe that depends on one of the first k tasks depends on
\* what the task's recipe depends on, and on nothing that it does not need.
passInv(k, last, td) ==
    /\ last = [f \in Recipes(td) |-> last[f]]
    /\ \A f \in Recipes(td) :
        /\ first(td)[f] \subseteq last[f]
        /\ last[f] \subseteq Needed(td, f)
        /\ \A j \in Tasks(td) : j <= k /\ j \in last[f]
                => first(td)[td.fnid[j]] \subseteq last[f]

P == INSTANCE Folding WITH op <- passOp, pick <- anyOf, Inv <- passInv

\* The number of tasks.
LEMMA TasksAre ==
    ASSUME NEW td, TaskData(td)
    PROVE  /\ IsFiniteSet(Tasks(td)) /\ Cardinality(Tasks(td)) \in Nat
           /\ Tasks(td) = 1..Cardinality(Tasks(td))
BY FS_CardinalityType DEF TaskData

\* What a task depends on are tasks.
LEMMA DirectTasks ==
    ASSUME NEW td, TaskData(td), NEW t \in Tasks(td)
    PROVE  Direct(td, t) \subseteq Tasks(td)
BY DEF Direct, TaskData, add_dependencies

\* A recipe is among those it reaches, and reaches what they reach.
LEMMA ReachedClosed ==
    ASSUME NEW td, TaskData(td), NEW f \in Recipes(td)
    PROVE  /\ f \in Reached(td, f)
           /\ \A k \in Needed(td, f) : /\ k \in Tasks(td)
                                       /\ Needed(td, td.fnid[k]) \subseteq Needed(td, f)
<1> DEFINE closed(R) == \A t \in Tasks(td) : td.fnid[t] \in R =>
                            \A d \in Direct(td, t) : td.fnid[d] \in R
<1>1. f \in Reached(td, f)
  BY DEF Reached, Recipes
<1>2. ASSUME NEW k \in Needed(td, f)
      PROVE  k \in Tasks(td) /\ Needed(td, td.fnid[k]) \subseteq Needed(td, f)
  <2>1. PICK u \in Tasks(td) : td.fnid[u] \in Reached(td, f) /\ k \in Direct(td, u)
    BY DEF Needed
  <2>2. k \in Tasks(td)
    BY <2>1, DirectTasks
  <2>3. Reached(td, td.fnid[k]) \subseteq Reached(td, f)
    <3> SUFFICES ASSUME NEW g \in Reached(td, td.fnid[k]),
                        NEW R \in SUBSET Recipes(td), f \in R, closed(R)
                 PROVE  g \in Recipes(td) /\ g \in R
      BY DEF Reached, Recipes
    <3>1. td.fnid[u] \in R
      BY <2>1 DEF Reached, Recipes
    <3>2. td.fnid[k] \in R
      BY <3>1, <2>1
    <3> QED BY <3>2 DEF Reached, Recipes
  <2> QED BY <2>2, <2>3 DEF Needed
<1> QED BY <1>1, <1>2

\* One pass over the tasks finds what each recipe needs, directly or not,
\* whatever the order of the tasks and the cycles between the recipes.
THEOREM OnePass ==
    ASSUME NEW td, TaskData(td)
    PROVE  \A f \in Recipes(td) : reccumdepends(td)[f] = Needed(td, f)
<1> DEFINE n == Cardinality(Tasks(td))
           cum == P!Steps(n, first(td), Recipes(td), td.fnid, 0, 0)
<1>1. reccumdepends(td) = cum
  BY Zenon DEF reccumdepends, P!Steps, passOp, first, Recipes
<1>2. n \in Nat /\ Tasks(td) = 1..n
  BY TasksAre
<1>3. passInv(0, first(td), td)
  <2>1. first(td) = [f \in Recipes(td) |-> first(td)[f]]
    BY DEF first
  <2>2. ASSUME NEW f \in Recipes(td) PROVE first(td)[f] \subseteq Needed(td, f)
    <3>1. f \in Reached(td, f)
      BY ReachedClosed
    <3> QED BY <3>1 DEF Needed, first
  <2>3. \A j \in Tasks(td) : ~(j <= 0)
    BY <1>2
  <2> QED BY <2>1, <2>2, <2>3 DEF passInv
<1>4. ASSUME NEW k \in 1..n, NEW last, passInv(k - 1, last, td)
      PROVE  passInv(k, passOp(k, last, Recipes(td), td.fnid, 0, 0), td)
  <2> DEFINE new == passOp(k, last, Recipes(td), td.fnid, 0, 0)
             up(f) == IF k \in last[f] THEN last[f] \cup last[td.fnid[k]] ELSE last[f]
  <2>1. new = [f \in Recipes(td) |-> new[f]] /\ \A f \in Recipes(td) : new[f] = up(f)
    BY DEF passOp
  <2>2. td.fnid[k] \in Recipes(td)
    BY <1>2 DEF Recipes
  <2> HIDE DEF new
  <2>3. ASSUME NEW f \in Recipes(td)
        PROVE  first(td)[f] \subseteq new[f] /\ new[f] \subseteq Needed(td, f)
    <3>1. k \in last[f] => Needed(td, td.fnid[k]) \subseteq Needed(td, f)
      BY <1>4, ReachedClosed DEF passInv
    <3> QED BY <3>1, <2>1, <2>2, <1>4 DEF passInv
  <2>4. ASSUME NEW f \in Recipes(td), NEW j \in Tasks(td), j <= k, j \in new[f]
        PROVE  first(td)[td.fnid[j]] \subseteq new[f]
    <3>1. CASE j = k
      BY <3>1, <2>1, <2>2, <2>4, <1>4 DEF passInv
    <3>2. CASE j # k
      <4>1. j <= k - 1
        BY <3>2, <2>4, <1>2
      <4>2. CASE j \in last[f]
        BY <4>1, <4>2, <2>1, <1>4 DEF passInv
      <4>3. CASE j \notin last[f]
        BY <4>1, <4>3, <2>1, <2>2, <2>4, <1>4 DEF passInv
      <4> QED BY <4>2, <4>3
    <3> QED BY <3>1, <3>2
  <2>5. passInv(k, new, td)
    BY <2>1, <2>3, <2>4 DEF passInv
  <2> QED BY <2>5 DEF new
<1>5. passInv(n, cum, td)
  <2> HIDE DEF n
  <2> QED BY <1>2, <1>3, <1>4, P!Stepped
<1> HIDE DEF cum, n
<1>6. ASSUME NEW f \in Recipes(td) PROVE Needed(td, f) \subseteq cum[f]
  <2> DEFINE R == {f} \cup {td.fnid[j] : j \in cum[f]}
  <2>1. cum[f] \subseteq Tasks(td)
    BY <1>5, ReachedClosed DEF passInv
  <2>2. R \in SUBSET Recipes(td)
    BY <2>1 DEF Recipes
  <2>3. \A g \in R : first(td)[g] \subseteq cum[f]
    BY <1>5, <1>2, <2>1 DEF passInv
  <2>4. \A t \in Tasks(td) : td.fnid[t] \in R => Direct(td, t) \subseteq cum[f]
    <3> TAKE t \in Tasks(td)
    <3> HAVE td.fnid[t] \in R
    <3>1. Direct(td, t) \subseteq first(td)[td.fnid[t]]
      BY <2>2 DEF first
    <3> QED BY <3>1, <2>3
  <2>5. \A t \in Tasks(td) : td.fnid[t] \in R =>
            \A d \in Direct(td, t) : td.fnid[d] \in R
    BY <2>4
  <2>6. Reached(td, f) \subseteq R
    <3> HIDE DEF R
    <3>1. f \in R
      BY DEF R
    <3> QED BY <3>1, <2>2, <2>5 DEF Reached, Recipes
  <2> QED BY <2>4, <2>6 DEF Needed
<1> QED
  BY <1>1, <1>5, <1>6 DEF passInv

\* A task's dependencies are all that its metadata ask it to come after.
LEMMA DependsIs ==
    ASSUME NEW td, TaskData(td)
    PROVE  /\ runq_depends(td) = [t \in Tasks(td) |-> After(td, t)]
           /\ \A t \in Tasks(td) : After(td, t) \subseteq Tasks(td)
<1> DEFINE cum == reccumdepends(td)
<1>1. ASSUME NEW t \in Tasks(td)
      PROVE  Direct(td, t) \cup Recursive(td, cum, t) = After(td, t)
  <2>1. cum[td.fnid[t]] = Needed(td, td.fnid[t])
    BY OnePass DEF Recipes
  <2> HIDE DEF cum
  <2> QED BY <2>1 DEF After, Recursive
<1>2. ASSUME NEW t \in Tasks(td) PROVE After(td, t) \subseteq Tasks(td)
  <2>1. Needed(td, td.fnid[t]) \subseteq Tasks(td)
    BY ReachedClosed DEF Recipes
  <2> QED BY <2>1, DirectTasks DEF After
<1> QED BY <1>1, <1>2 DEF runq_depends

-----------------------------------------------------------------------------
(* The tasks left, and their numbers                                       *)

\* Step B's marking, a level at a time.
growOp(k, last, depends, q, m, n) == last \cup UNION {depends[t] : t \in last}

Closed(depends, active) == \A t \in active : depends[t] \subseteq active

\* Nothing is missing, or each level has added a task.
growInv(k, active, depends) ==
    /\ active \subseteq DOMAIN depends
    /\ Closed(depends, active) \/ Cardinality(active) >= k

G == INSTANCE Folding WITH op <- growOp, pick <- anyOf, Inv <- growInv

\* Nothing that a task left depends on is pruned.
LEMMA ActiveClosed ==
    ASSUME NEW td, TaskData(td), NEW depends,
           depends \in [Tasks(td) -> SUBSET Tasks(td)]
    PROVE  /\ mark_active(td, depends) \subseteq Tasks(td)
           /\ Closed(depends, mark_active(td, depends))
<1> DEFINE n == Cardinality(Tasks(td))
           asked == {t \in td.targets : td.fnid[t] \notin td.failed}
           active == G!Steps(n, asked, depends, 0, 0, 0)
<1>1. mark_active(td, depends) = active
  BY Zenon DEF mark_active, G!Steps, growOp
<1>2. n \in Nat /\ Tasks(td) = 1..n /\ IsFiniteSet(Tasks(td))
  BY TasksAre
<1>3. growInv(0, asked, depends)
  <2>1. asked \subseteq Tasks(td)
    BY DEF TaskData
  <2>2. Cardinality(asked) \in Nat
    <3> HIDE DEF asked
    <3> QED BY <2>1, <1>2, FS_Subset, FS_CardinalityType
  <2> QED BY <2>1, <2>2 DEF growInv
<1>4. ASSUME NEW k \in 1..n, NEW last, growInv(k - 1, last, depends)
      PROVE  growInv(k, growOp(k, last, depends, 0, 0, 0), depends)
  <2> DEFINE new == growOp(k, last, depends, 0, 0, 0)
  <2>1. last \subseteq Tasks(td) /\ new \subseteq Tasks(td) /\ last \subseteq new
    BY <1>4 DEF growInv, growOp
  <2>2. IsFiniteSet(last) /\ IsFiniteSet(new)
    BY <2>1, <1>2, FS_Subset
  <2>3. Cardinality(last) \in Nat /\ Cardinality(new) \in Nat
    BY <2>2, FS_CardinalityType
  <2>4. CASE Closed(depends, last)
    <3>1. new = last
      BY <2>4 DEF growOp, Closed
    <3> QED BY <3>1, <2>4, <2>1 DEF growInv
  <2>5. CASE ~Closed(depends, last)
    <3>1. new # last
      BY <2>5 DEF growOp, Closed
    <3>2. Cardinality(last) <= Cardinality(new) /\ Cardinality(last) # Cardinality(new)
      BY <3>1, <2>1, <2>2, FS_Subset
    <3>3. Cardinality(last) >= k - 1
      BY <2>5, <1>4 DEF growInv
    <3>4. Cardinality(new) >= k
      BY <3>2, <3>3, <2>3
    <3> QED BY <3>4, <2>1 DEF growInv
  <2> QED BY <2>4, <2>5
<1>5. growInv(n, active, depends)
  <2> HIDE DEF n, asked
  <2> QED BY <1>2, <1>3, <1>4, G!Stepped
<1> HIDE DEF active
<1>6. active \subseteq Tasks(td)
  BY <1>5 DEF growInv
<1>7. CASE Cardinality(active) >= n
  <2>1. Cardinality(active) <= n /\ Cardinality(active) \in Nat
    BY <1>6, <1>2, FS_Subset, FS_CardinalityType
  <2>2. Cardinality(active) = n
    BY <2>1, <1>7, <1>2
  <2>3. active = Tasks(td)
    BY <2>2, <1>6, <1>2, FS_Subset
  <2> QED BY <2>3, <1>1 DEF Closed
<1> QED
  BY <1>1, <1>5, <1>6, <1>7 DEF growInv

\* The new numbers: each from 1 on is that of one task, in their order.
LEMMA Numbered ==
    ASSUME NEW n \in Nat, NEW active \in SUBSET (1..n)
    PROVE  /\ Cardinality(active) \in Nat
           /\ \A t \in active : maps(active, t) \in 1..Cardinality(active)
           /\ \A t, u \in active : t < u => maps(active, t) < maps(active, u)
           /\ \A i \in 1..Cardinality(active) : \E t \in active : maps(active, t) = i
<1> DEFINE size == Cardinality(active)
           f == [t \in active |-> maps(active, t)]
           low(t) == {u \in active : u <= t}
<1>1. IsFiniteSet(active) /\ size \in Nat
  <2>1. IsFiniteSet(1..n)
    BY FS_Interval
  <2> QED BY <2>1, FS_Subset, FS_CardinalityType
<1>0. \A t \in active : t \in Nat
  OBVIOUS
<1>2. ASSUME NEW t \in active
      PROVE  IsFiniteSet(low(t)) /\ maps(active, t) \in 1..size
  <2>1. low(t) \subseteq active /\ t \in low(t)
    OBVIOUS
  <2>2. IsFiniteSet(low(t)) /\ Cardinality(low(t)) <= size
        /\ Cardinality(low(t)) \in Nat /\ Cardinality(low(t)) # 0
    <3> HIDE DEF low
    <3> QED BY <2>1, <1>1, FS_Subset, FS_CardinalityType, FS_EmptySet
  <2>3. maps(active, t) = Cardinality(low(t))
    BY DEF maps
  <2> QED BY <2>2, <2>3, <1>1
<1>3. ASSUME NEW t \in active, NEW u \in active, t < u
      PROVE  maps(active, t) < maps(active, u)
  <2>0. t \in Nat /\ u \in Nat /\ \A v \in active : v \in Nat /\ (v <= t => v <= u)
    BY <1>0, <1>3
  <2>1. u \in low(u) /\ u \notin low(t)
    BY <2>0, <1>3
  <2>6. low(t) \subseteq low(u)
    BY <2>0
  <2>2. IsFiniteSet(low(t)) /\ IsFiniteSet(low(u))
    BY <1>2
  <2>3. maps(active, t) = Cardinality(low(t)) /\ maps(active, u) = Cardinality(low(u))
    BY DEF maps
  <2>4. Cardinality(low(t)) <= Cardinality(low(u)) /\ Cardinality(low(t)) # Cardinality(low(u))
    <3> HIDE DEF low
    <3> QED BY <2>1, <2>6, <2>2, FS_Subset
  <2>5. Cardinality(low(t)) \in Nat /\ Cardinality(low(u)) \in Nat
    <3> HIDE DEF low
    <3> QED BY <2>2, FS_CardinalityType
  <2> QED BY <2>3, <2>4, <2>5
<1>4. f \in Injection(active, 1..size)
  <2>1. f \in [active -> 1..size]
    BY <1>2
  <2>2. \A t, u \in active : f[t] = f[u] => t = u
    <3> TAKE t, u \in active
    <3>1. t < u \/ u < t \/ t = u
      OBVIOUS
    <3>2. f[t] \in Nat /\ f[u] \in Nat
      <4>1. maps(active, t) \in 1..size /\ maps(active, u) \in 1..size
        BY <1>2
      <4>2. f[t] = maps(active, t) /\ f[u] = maps(active, u)
        OBVIOUS
      <4> HIDE DEF f, size
      <4> QED BY <4>1, <4>2, <1>1
    <3>3. t < u => f[t] < f[u]
      BY <1>3
    <3>4. u < t => f[u] < f[t]
      BY <1>3
    <3> HIDE DEF f
    <3> QED BY <3>1, <3>2, <3>3, <3>4
  <2> HIDE DEF f
  <2> QED BY <2>1, <2>2 DEF Injection, IsInjective
<1>5. f \in Surjection(active, 1..size)
  <2>1. IsFiniteSet(1..size) /\ Cardinality(1..size) = size
    BY <1>1, FS_Interval
  <2> HIDE DEF f, size
  <2>2. Cardinality(active) = size
    BY DEF size
  <2> QED BY <2>1, <2>2, <1>4, FS_Injection
<1>6. \A i \in 1..size : \E t \in active : maps(active, t) = i
  BY <1>5 DEF Surjection
<1> QED BY <1>1, <1>2, <1>3, <1>6

-----------------------------------------------------------------------------
(* Sums                                                                    *)

\* A set of parts of a finite set has a smallest one.
LEMMA Smallest ==
    ASSUME NEW X, IsFiniteSet(X), NEW U \in SUBSET (SUBSET X), U # {}
    PROVE  \E x \in U : \A y \in U : y \subseteq x => y = x
BY P!Minimal DEF IsFiniteSet, P!IsFiniteSet

sumOp(x, r, f, q, m, n) == f[x] + r

sumInv(s, r, z) == TRUE

Sums == INSTANCE Folding WITH op <- sumOp, pick <- anyOf, Inv <- sumInv

\* The weights f of the members of X, added up.
total(f, X) == MapThenSumSet(LAMBDA x : f[x], X)

LEMMA TotalNext ==
    ASSUME NEW f, NEW X, IsFiniteSet(X)
    PROVE  total(f, X) = IF X = {} THEN 0
                         ELSE f[anyOf(X)] + total(f, X \ {anyOf(X)})
<1>1. \A Y : total(f, Y) = Sums!Iter(Y, 0, f, 0, 0, 0)
  BY Zenon DEF total, MapThenSumSet, MapThenFoldSet, Sums!Iter, sumOp, anyOf
<1>2. Sums!Picks(X)
  BY DEF Sums!Picks, anyOf
<1>3. Sums!Iter(X, 0, f, 0, 0, 0)
        = IF X = {} THEN 0
          ELSE sumOp(anyOf(X), Sums!Iter(X \ {anyOf(X)}, 0, f, 0, 0, 0), f, 0, 0, 0)
  BY <1>2, Sums!Unfolded DEF IsFiniteSet, Sums!IsFiniteSet
<1> QED BY <1>1, <1>3 DEF sumOp

LEMMA TotalNat ==
    ASSUME NEW f, NEW X, IsFiniteSet(X), \A x \in X : f[x] \in Nat
    PROVE  total(f, X) \in Nat
<1> DEFINE Bad == {s \in SUBSET X : total(f, s) \notin Nat}
<1> SUFFICES ASSUME Bad # {} PROVE FALSE
  OBVIOUS
<1>1. PICK s \in Bad : \A y \in Bad : y \subseteq s => y = s
  <2>1. Bad \in SUBSET (SUBSET X)
    OBVIOUS
  <2> HIDE DEF Bad
  <2> QED BY <2>1, Smallest
<1>2. total(f, s) = IF s = {} THEN 0 ELSE f[anyOf(s)] + total(f, s \ {anyOf(s)})
  BY TotalNext, FS_Subset
<1>3. s # {} => anyOf(s) \in s
  BY DEF anyOf
<1>4. s # {} => total(f, s \ {anyOf(s)}) \in Nat
  BY <1>1, <1>3
<1> QED BY <1>2, <1>3, <1>4

\* It makes no difference which member is added last.
LEMMA TotalAny ==
    ASSUME NEW f, NEW X, IsFiniteSet(X), \A x \in X : f[x] \in Nat, NEW x \in X
    PROVE  total(f, X) = f[x] + total(f, X \ {x})
<1> DEFINE Bad == {s \in SUBSET X : \E z \in s : total(f, s) # f[z] + total(f, s \ {z})}
<1> SUFFICES ASSUME Bad # {} PROVE FALSE
  OBVIOUS
<1>1. PICK s \in Bad : \A y \in Bad : y \subseteq s => y = s
  <2>1. Bad \in SUBSET (SUBSET X)
    OBVIOUS
  <2> HIDE DEF Bad
  <2> QED BY <2>1, Smallest
<1>2. PICK z \in s : total(f, s) # f[z] + total(f, s \ {z})
  OBVIOUS
<1> DEFINE y == anyOf(s)
           both == (s \ {y}) \ {z}
<1>3. y \in s
  BY DEF anyOf
<1>4. total(f, s) = f[y] + total(f, s \ {y})
  BY TotalNext, FS_Subset
<1>5. z # y
  BY <1>2, <1>4
<1>6. total(f, s \ {y}) = f[z] + total(f, both)
  <2>1. s \ {y} \notin Bad /\ s \ {y} \in SUBSET X /\ z \in s \ {y}
    BY <1>1, <1>3, <1>5
  <2> HIDE DEF y
  <2> QED BY <2>1
<1>7. total(f, s \ {z}) = f[y] + total(f, both)
  <2>1. both = (s \ {z}) \ {y}
    OBVIOUS
  <2>2. s \ {z} \notin Bad /\ s \ {z} \in SUBSET X /\ y \in s \ {z}
    BY <1>1, <1>3, <1>5
  <2> HIDE DEF y, both
  <2> QED BY <2>1, <2>2
<1>8. total(f, both) \in Nat /\ f[y] \in Nat /\ f[z] \in Nat
  <2>1. IsFiniteSet(both)
    BY FS_Subset
  <2>2. \A v \in both : f[v] \in Nat
    OBVIOUS
  <2> HIDE DEF both
  <2> QED BY <1>3, <2>1, <2>2, TotalNat
<1> HIDE DEF both, y
<1> QED BY <1>2, <1>4, <1>6, <1>7, <1>8

LEMMA TotalSame ==
    ASSUME NEW f, NEW g, NEW X, IsFiniteSet(X), \A x \in X : f[x] = g[x]
    PROVE  total(f, X) = total(g, X)
<1> DEFINE Bad == {s \in SUBSET X : total(f, s) # total(g, s)}
<1> SUFFICES ASSUME Bad # {} PROVE FALSE
  OBVIOUS
<1>1. PICK s \in Bad : \A y \in Bad : y \subseteq s => y = s
  <2>1. Bad \in SUBSET (SUBSET X)
    OBVIOUS
  <2> HIDE DEF Bad
  <2> QED BY <2>1, Smallest
<1>2. \A h : total(h, s) = IF s = {} THEN 0 ELSE h[anyOf(s)] + total(h, s \ {anyOf(s)})
  BY TotalNext, FS_Subset
<1>3. s # {} => anyOf(s) \in s
  BY DEF anyOf
<1>4. s # {} => total(f, s \ {anyOf(s)}) = total(g, s \ {anyOf(s)})
  BY <1>1, <1>3
<1>5. s # {} => f[anyOf(s)] = g[anyOf(s)]
  BY <1>3
<1>6. total(f, s) = total(g, s)
  BY <1>2, <1>4, <1>5
<1> QED BY <1>6

LEMMA TotalUnion ==
    ASSUME NEW f, NEW X, NEW Y, IsFiniteSet(X), IsFiniteSet(Y), X \cap Y = {},
           \A x \in X \cup Y : f[x] \in Nat
    PROVE  total(f, X \cup Y) = total(f, X) + total(f, Y)
<1> DEFINE Bad == {s \in SUBSET Y : total(f, X \cup s) # total(f, X) + total(f, s)}
<1> SUFFICES ASSUME Bad # {} PROVE FALSE
  OBVIOUS
<1>1. PICK s \in Bad : \A y \in Bad : y \subseteq s => y = s
  <2>1. Bad \in SUBSET (SUBSET Y)
    OBVIOUS
  <2> HIDE DEF Bad
  <2> QED BY <2>1, Smallest
<1>2. IsFiniteSet(s) /\ IsFiniteSet(X \cup s)
  BY FS_Subset, FS_Union
<1>3. total(f, X) \in Nat
  BY TotalNat
<1>4. s # {}
  <2>1. total(f, {}) = 0
    BY TotalNext, FS_EmptySet
  <2>2. X \cup {} = X
    OBVIOUS
  <2> QED BY <2>1, <2>2, <1>3
<1>5. PICK x \in s : TRUE
  BY <1>4
<1>6. total(f, s) = f[x] + total(f, s \ {x})
  BY <1>2, TotalAny
<1>7. total(f, X \cup s) = f[x] + total(f, (X \cup s) \ {x})
  <2>1. x \in X \cup s /\ \A v \in X \cup s : f[v] \in Nat
    BY <1>5
  <2> QED BY <1>2, <2>1, TotalAny
<1>8. (X \cup s) \ {x} = X \cup (s \ {x})
  OBVIOUS
<1>9. total(f, X \cup (s \ {x})) = total(f, X) + total(f, s \ {x})
  BY <1>1
<1>10. total(f, s \ {x}) \in Nat /\ f[x] \in Nat
  <2>1. IsFiniteSet(s \ {x}) /\ \A v \in s \ {x} : f[v] \in Nat
    BY <1>2, FS_Subset
  <2> QED BY <2>1, TotalNat
<1>11. total(f, X \cup s) = total(f, X) + total(f, s)
  <2>1. total(f, X \cup s) = f[x] + (total(f, X) + total(f, s \ {x}))
    BY <1>7, <1>8, <1>9
  <2> QED BY ONLY <1>3, <1>6, <1>10, <2>1
<1> QED BY <1>11
-----------------------------------------------------------------------------
(* Weights, and the graphs that are refused                                *)

above(depends, t) == {r \in DOMAIN depends : t \in depends[r]}

roundOp(k, last, depends, q, m, n) == Round(depends, last)

\* done are the tasks that all those above have passed their weight on to;
\* points are done, and have passed on nothing yet; what deps_left counts are
\* those above that have not.  Among those done there is no cycle.  What a task weighs is what has
\* been passed on to it.
roundInv(k, r, depends) ==
    /\ r.weight \in [DOMAIN depends -> Nat]
    /\ \A t \in DOMAIN depends :
        r.weight[t] = IF above(depends, t) = {} THEN 1
                      ELSE total(r.weight, above(depends, t) \cap (r.done \ r.points))
    /\ r.points \subseteq r.done /\ r.done \subseteq DOMAIN depends
    /\ \A t \in DOMAIN depends :
        /\ r.deps_left[t] = Cardinality(above(depends, t) \ (r.done \ r.points))
        /\ t \in r.done <=> above(depends, t) \subseteq r.done \ r.points
    /\ \A X \in SUBSET r.done : X # {} => \E t \in X : depends[t] \cap X = {}
    /\ r.points = {} \/ Cardinality(r.done) > k

W == INSTANCE Folding WITH op <- roundOp, pick <- anyOf, Inv <- roundInv

\* A round keeps roundInv.
LEMMA RoundKeeps ==
    ASSUME NEW n \in Nat, NEW depends \in [1..n -> SUBSET (1..n)],
           NEW k \in 1..n, NEW r, roundInv(k - 1, r, depends)
    PROVE  roundInv(k, Round(depends, r), depends)
<1> DEFINE new == Round(depends, r)
           passed(t) == {u \in r.points : t \in depends[u]}
<1>1. /\ new.deps_left = [t \in 1..n |-> r.deps_left[t] - Cardinality(passed(t))]
      /\ new.points = {t \in 1..n : passed(t) # {}
                            /\ r.deps_left[t] - Cardinality(passed(t)) = 0}
      /\ new.done = r.done \cup new.points
      /\ new.weight = [t \in 1..n |-> r.weight[t] + total(r.weight, passed(t))]
  BY DEF Round, total
<1> HIDE DEF new
<1>2. r.points \subseteq r.done /\ r.done \subseteq 1..n
  BY DEF roundInv
<1>3. \A t \in 1..n : above(depends, t) \subseteq 1..n
  BY DEF above
<1>4. new.points \cap r.done = {}
  <2> SUFFICES ASSUME NEW t \in new.points, t \in r.done PROVE FALSE
    OBVIOUS
  <2>1. t \in 1..n /\ passed(t) # {}
    BY <1>1
  <2>2. above(depends, t) \subseteq r.done \ r.points
    BY <2>1 DEF roundInv
  <2> QED BY <2>1, <2>2, <1>2 DEF above
<1>5. new.done \ new.points = r.done
  BY <1>1, <1>4
<1>6. ASSUME NEW t \in 1..n
      PROVE  /\ new.deps_left[t] = Cardinality(above(depends, t) \ r.done)
             /\ new.deps_left[t] = 0 <=> above(depends, t) \subseteq r.done
  <2> DEFINE left == above(depends, t) \ (r.done \ r.points)
  <2>1. IsFiniteSet(1..n)
    BY FS_Interval
  <2>2. IsFiniteSet(left)
    BY <2>1, <1>3, FS_Subset
  <2>3. /\ left \cap passed(t) = passed(t)
        /\ left \ passed(t) = above(depends, t) \ r.done
    BY <1>2 DEF above
  <2>4. /\ IsFiniteSet(above(depends, t) \ r.done)
        /\ Cardinality(above(depends, t) \ r.done) = Cardinality(left) - Cardinality(passed(t))
    <3> HIDE DEF left, passed
    <3> QED BY <2>2, <2>3, FS_Difference
  <2>5. r.deps_left[t] = Cardinality(left)
    BY DEF roundInv
  <2>6. new.deps_left[t] = r.deps_left[t] - Cardinality(passed(t))
    BY <1>1
  <2>7. Cardinality(above(depends, t) \ r.done) = 0 <=> above(depends, t) \ r.done = {}
    BY <2>4, FS_EmptySet
  <2> QED BY <2>4, <2>5, <2>6, <2>7
<1>7. ASSUME NEW t \in 1..n
      PROVE  t \in new.done <=> above(depends, t) \subseteq r.done
  <2>1. ASSUME t \in r.done PROVE above(depends, t) \subseteq r.done
    BY <2>1 DEF roundInv
  <2>2. ASSUME t \in new.points PROVE above(depends, t) \subseteq r.done
    BY <2>2, <1>1, <1>6
  <2>3. ASSUME above(depends, t) \subseteq r.done, t \notin r.done PROVE t \in new.points
    <3>1. ~(above(depends, t) \subseteq r.done \ r.points)
      BY <2>3 DEF roundInv
    <3>2. passed(t) # {}
      BY <3>1, <2>3 DEF above
    <3> QED BY <3>2, <2>3, <1>1, <1>6
  <2> QED BY <2>1, <2>2, <2>3, <1>1
<1>8. ASSUME NEW X \in SUBSET new.done, X # {}
      PROVE  \E t \in X : depends[t] \cap X = {}
  <2>1. CASE X \subseteq r.done
    BY <2>1, <1>8 DEF roundInv
  <2>2. CASE ~(X \subseteq r.done)
    <3>1. PICK t \in X : t \notin r.done
      BY <2>2
    <3>2. t \in 1..n
      BY <3>1, <1>1
    <3>3. \A d \in depends[t] : d \in 1..n /\ t \in above(depends, d)
      BY <3>2 DEF above
    <3>4. depends[t] \cap X = {}
      BY <3>1, <3>3, <1>7
    <3> QED BY <3>4
  <2> QED BY <2>1, <2>2
<1>9. new.points = {} \/ Cardinality(new.done) > k
  <2> SUFFICES ASSUME new.points # {} PROVE Cardinality(new.done) > k
    OBVIOUS
  <2>1. PICK t \in new.points : passed(t) # {}
    BY <1>1
  <2>2. Cardinality(r.done) > k - 1
    BY <2>1 DEF roundInv
  <2>3. new.done \in SUBSET (1..n) /\ r.done \in SUBSET new.done /\ r.done # new.done
    BY <1>1, <1>2, <1>4, <2>1
  <2>4. IsFiniteSet(1..n)
    BY FS_Interval
  <2>5. IsFiniteSet(new.done) /\ Cardinality(new.done) \in Nat
    BY <2>3, <2>4, FS_Subset, FS_CardinalityType
  <2>6. IsFiniteSet(r.done) /\ Cardinality(r.done) \in Nat
    BY <2>3, <2>5, FS_Subset, FS_CardinalityType
  <2>7. Cardinality(r.done) <= Cardinality(new.done) /\ Cardinality(r.done) # Cardinality(new.done)
    BY <2>3, <2>5, FS_Subset
  <2> QED BY <2>2, <2>5, <2>6, <2>7
<1>10. \A t \in 1..n : /\ new.deps_left[t] = Cardinality(above(depends, t) \ (new.done \ new.points))
                       /\ t \in new.done <=> above(depends, t) \subseteq new.done \ new.points
  BY <1>5, <1>6, <1>7
<1>11. new.points \subseteq new.done /\ new.done \subseteq 1..n
  BY <1>1, <1>2
<1>12. /\ r.weight \in [1..n -> Nat]
       /\ \A t \in 1..n : IsFiniteSet(passed(t)) /\ IsFiniteSet(above(depends, t))
  <2>1. \A t \in 1..n : passed(t) \subseteq 1..n
    BY <1>2
  <2>2. r.weight \in [1..n -> Nat]
    BY DEF roundInv
  <2>3. \A X \in SUBSET (1..n) : IsFiniteSet(X)
    <3>1. IsFiniteSet(1..n)
      BY FS_Interval
    <3> QED BY <3>1, FS_Subset
  <2> HIDE DEF passed
  <2> QED BY <2>1, <2>2, <2>3, <1>3
<1>13. \A t \in 1..n : total(r.weight, passed(t)) \in Nat
  BY <1>2, <1>12, TotalNat
<1>14. new.weight \in [1..n -> Nat]
  BY <1>1, <1>12, <1>13
<1>15. total(r.weight, {}) = 0
  BY TotalNext, FS_EmptySet
<1>16. ASSUME NEW u \in r.done PROVE new.weight[u] = r.weight[u]
  <2>1. u \in 1..n /\ above(depends, u) \subseteq r.done \ r.points
    BY <1>2 DEF roundInv
  <2>2. passed(u) = {}
    BY <2>1, <1>2 DEF above
  <2>3. new.weight[u] = r.weight[u] + total(r.weight, passed(u)) /\ r.weight[u] \in Nat
    BY <2>1, <1>1, <1>12
  <2> HIDE DEF passed
  <2> QED BY <2>2, <2>3, <1>15
<1>17. ASSUME NEW t \in 1..n
       PROVE  new.weight[t] = IF above(depends, t) = {} THEN 1
                              ELSE total(new.weight, above(depends, t) \cap r.done)
  <2> DEFINE before == above(depends, t) \cap (r.done \ r.points)
             both == above(depends, t) \cap r.done
  <2>1. new.weight[t] = r.weight[t] + total(r.weight, passed(t))
    BY <1>1
  <2>2. CASE above(depends, t) = {}
    <3>1. passed(t) = {}
      BY <2>2, <1>2 DEF above
    <3>2. r.weight[t] = 1
      BY <2>2 DEF roundInv
    <3> HIDE DEF passed
    <3> QED BY <2>1, <2>2, <3>1, <3>2, <1>15
  <2>3. CASE above(depends, t) # {}
    <3>1. r.weight[t] = total(r.weight, before)
      BY <2>3 DEF roundInv
    <3>2. before \cap passed(t) = {} /\ both = before \cup passed(t)
      BY <1>2 DEF above
    <3>3. IsFiniteSet(before) /\ IsFiniteSet(both) /\ IsFiniteSet(passed(t))
      BY <1>12, FS_Subset
    <3>4. both \subseteq 1..n /\ both \subseteq r.done
      BY <1>2
    <3>5. \A u \in both : r.weight[u] \in Nat /\ new.weight[u] = r.weight[u]
      BY <3>4, <1>12, <1>16
    <3> HIDE DEF before, both, passed
    <3>6. total(r.weight, both) = total(r.weight, before) + total(r.weight, passed(t))
      BY <3>2, <3>3, <3>5, TotalUnion
    <3>7. total(new.weight, both) = total(r.weight, both)
      BY <3>3, <3>5, TotalSame
    <3> QED BY <2>1, <2>3, <3>1, <3>6, <3>7 DEF both
  <2> QED BY <2>2, <2>3
<1>18. roundInv(k, new, depends)
  <2>1. \A t \in 1..n : new.weight[t]
            = IF above(depends, t) = {} THEN 1
              ELSE total(new.weight, above(depends, t) \cap (new.done \ new.points))
    BY <1>5, <1>17
  <2>2. DOMAIN depends = 1..n
    OBVIOUS
  <2> HIDE DEF passed
  <2> QED BY <2>1, <2>2, <1>8, <1>9, <1>10, <1>11, <1>14 DEF roundInv
<1> QED BY <1>18 DEF new

\* Of any tasks in a graph without a circle there is one, too, that none of them
\* depends on.
LEMMA Upwards ==
    ASSUME NEW n \in Nat, NEW depends \in [1..n -> SUBSET (1..n)], NoCycle(depends),
           NEW Y \in SUBSET (1..n), Y # {}
    PROVE  \E t \in Y : above(depends, t) \cap Y = {}
<1> DEFINE Bad == {Z \in SUBSET (1..n) : Z # {} /\ \A t \in Z : above(depends, t) \cap Z # {}}
<1> SUFFICES ASSUME Y \in Bad PROVE FALSE
  OBVIOUS
<1>1. PICK Z \in Bad : \A X \in Bad : X \subseteq Z => X = Z
  <2> DEFINE I == 1..n
  <2>1. Bad \in SUBSET (SUBSET I) /\ Bad # {}
    OBVIOUS
  <2>2. IsFiniteSet(I)
    BY FS_Interval
  <2> HIDE DEF Bad, I
  <2>3. \A U \in SUBSET (SUBSET I) :
            U # {} => \E x \in U : \A y \in U : y \subseteq x => y = x
    BY <2>2, Smallest
  <2> QED BY <2>1, <2>3, Zenon
<1>2. PICK t \in Z : depends[t] \cap Z = {}
  BY DEF NoCycle
<1>3. ASSUME NEW u \in Z PROVE \E r \in Z \ {t} : r \in above(depends, u)
  <2>1. PICK r \in Z : r \in above(depends, u)
    OBVIOUS
  <2>2. r # t
    BY <2>1, <1>2 DEF above
  <2> QED BY <2>1, <2>2
<1>4. Z \ {t} \in Bad
  BY <1>2, <1>3
<1> QED
  BY <1>1, <1>2, <1>4

\* After n rounds there are no points left.
LEMMA RoundsEnd ==
    ASSUME NEW n \in Nat, NEW depends \in [1..n -> SUBSET (1..n)]
    PROVE  \E end : /\ roundInv(n, end, depends)
                    /\ end.done \subseteq 1..n /\ end.points = {}
                    /\ calculate_task_weights(depends)
                         = IF end.done = 1..n /\ \A t \in 1..n : end.deps_left[t] = 0
                           THEN {end.weight} ELSE {}
<1> DEFINE Ts == DOMAIN depends
           topmost == {t \in Ts : above(depends, t) = {}}
           start == [weight |-> [t \in Ts |-> IF t \in topmost THEN 1 ELSE 0],
                     deps_left |-> [t \in Ts |-> Cardinality(above(depends, t))],
                     points |-> topmost, done |-> topmost]
           end == W!Steps(Cardinality(Ts), start, depends, 0, 0, 0)
<1>1. Ts = 1..n /\ Cardinality(Ts) = n /\ IsFiniteSet(1..n)
  BY FS_Interval
<1>2. calculate_task_weights(depends)
        = IF end.done = Ts /\ \A t \in Ts : end.deps_left[t] = 0
          THEN {end.weight} ELSE {}
  BY Zenon DEF calculate_task_weights, W!Steps, roundOp, above
<1>0. Cardinality(1..n) = n
  BY <1>1
<1>3. roundInv(0, start, depends)
  <2>1. /\ start.points = topmost /\ start.done = topmost
        /\ \A t \in 1..n : start.deps_left[t] = Cardinality(above(depends, t))
        /\ start.weight \in [1..n -> Nat]
        /\ \A t \in 1..n : start.weight[t] = IF above(depends, t) = {} THEN 1 ELSE 0
    OBVIOUS
  <2> HIDE DEF start
  <2>2. start.done \ start.points = {}
    BY <2>1
  <2>3. \A X \in SUBSET topmost : X # {} => \E t \in X : depends[t] \cap X = {}
    BY DEF above
  <2>4. topmost # {} => Cardinality(topmost) > 0
    <3>1. topmost \in SUBSET (1..n)
      OBVIOUS
    <3> HIDE DEF topmost
    <3>2. Cardinality(topmost) \in Nat /\ (Cardinality(topmost) = 0 <=> topmost = {})
      BY <3>1, <1>1, FS_Subset, FS_CardinalityType, FS_EmptySet
    <3> QED BY <3>2
  <2>5. \A t \in 1..n :
            /\ start.deps_left[t]
                 = Cardinality(above(depends, t) \ (start.done \ start.points))
            /\ t \in start.done <=> above(depends, t) \subseteq start.done \ start.points
    <3> TAKE t \in 1..n
    <3>1. above(depends, t) \ (start.done \ start.points) = above(depends, t)
      BY <2>2
    <3>2. t \in topmost <=> above(depends, t) \subseteq {}
      BY <1>1
    <3> HIDE DEF topmost
    <3> QED BY <2>1, <2>2, <3>1, <3>2
  <2> HIDE DEF topmost
  <2>6. topmost \subseteq 1..n
    BY DEF topmost
  <2>7. \A t \in 1..n : start.weight[t]
            = IF above(depends, t) = {} THEN 1
              ELSE total(start.weight, above(depends, t) \cap (start.done \ start.points))
    <3>1. total(start.weight, {}) = 0
      BY TotalNext, FS_EmptySet
    <3> QED BY <2>1, <2>2, <3>1
  <2> QED BY <1>1, <2>1, <2>3, <2>4, <2>5, <2>6, <2>7 DEF roundInv
<1>4. roundInv(n, end, depends)
  <2>1. \A k \in 1..n : \A r : roundInv(k - 1, r, depends)
                                  => roundInv(k, roundOp(k, r, depends, 0, 0, 0), depends)
    BY RoundKeeps DEF roundOp
  <2> HIDE DEF start
  <2>2. roundInv(n, W!Steps(n, start, depends, 0, 0, 0), depends)
    BY <1>3, <2>1, W!Stepped
  <2> QED BY <2>2, <1>1
<1> HIDE DEF end
<1>5. end.done \subseteq 1..n /\ end.points = {}
  <2>1. end.done \subseteq 1..n
    BY <1>1, <1>4 DEF roundInv
  <2>2. Cardinality(end.done) <= n /\ Cardinality(end.done) \in Nat
    BY <2>1, <1>1, FS_Subset, FS_CardinalityType
  <2> QED BY <2>1, <2>2, <1>4 DEF roundInv
<1> QED BY <1>1, <1>2, <1>4, <1>5

\* calculate_task_weights refuses a graph exactly when it has a circle.
THEOREM RefusesCircles ==
    ASSUME NEW n \in Nat, NEW depends \in [1..n -> SUBSET (1..n)]
    PROVE  calculate_task_weights(depends) = {} <=> ~NoCycle(depends)
<1> DEFINE Ts == DOMAIN depends
<1>1. Ts = 1..n
  OBVIOUS
<1>4. PICK end : /\ roundInv(n, end, depends)
                 /\ end.done \subseteq 1..n /\ end.points = {}
                 /\ calculate_task_weights(depends)
                      = IF end.done = 1..n /\ \A t \in 1..n : end.deps_left[t] = 0
                        THEN {end.weight} ELSE {}
  BY RoundsEnd
<1>2. calculate_task_weights(depends)
        = IF end.done = Ts /\ \A t \in Ts : end.deps_left[t] = 0
          THEN {end.weight} ELSE {}
  BY <1>4
<1>5. end.done \subseteq 1..n /\ end.points = {}
  BY <1>4
<1>6. \A t \in 1..n :
        /\ end.deps_left[t] = Cardinality(above(depends, t) \ end.done)
        /\ t \in end.done <=> above(depends, t) \subseteq end.done
  <2>1. end.done \ end.points = end.done
    BY <1>5
  <2> QED BY <2>1, <1>1, <1>4 DEF roundInv
<1>7. CASE end.done = 1..n
  <2>1. \A t \in 1..n : above(depends, t) \ end.done = {}
    BY <1>7 DEF above
  <2>2. \A t \in 1..n : end.deps_left[t] = 0
    BY <2>1, <1>6, FS_EmptySet
  <2>3. NoCycle(depends)
    BY <1>7, <1>1, <1>4 DEF roundInv, NoCycle
  <2> QED BY <2>2, <2>3, <1>2, <1>7
<1>8. CASE end.done # 1..n
  <2> DEFINE Y == (1..n) \ end.done
  <2>1. Y # {} /\ Y \in SUBSET (1..n)
    BY <1>5, <1>8
  <2>2. \A t \in Y : above(depends, t) \cap Y # {}
    BY <1>6 DEF above
  <2>3. ~NoCycle(depends)
    <3> HIDE DEF Y
    <3> QED BY <2>1, <2>2, Upwards
  <2> QED BY <2>3, <1>2, <1>8
<1> QED BY <1>7, <1>8

\* A graph without a cycle gets weights: 1 for a task that none depends on, and
\* for another the weights of all that depend on it directly, added up.
THEOREM Weighed ==
    ASSUME NEW n \in Nat, NEW depends \in [1..n -> SUBSET (1..n)]
    PROVE  WeightsRight(depends)
<1> DEFINE up(t) == {r \in DOMAIN depends : t \in depends[r]}
<1>1. DOMAIN depends = 1..n
  OBVIOUS
<1>2. (calculate_task_weights(depends) = {})
        <=> \E X \in SUBSET (1..n) : X # {} /\ \A t \in X : depends[t] \cap X # {}
  BY <1>1, RefusesCircles DEF NoCycle
<1>3. ASSUME NEW w \in calculate_task_weights(depends), NEW t \in 1..n
      PROVE  w[t] = IF up(t) = {} THEN 1 ELSE MapThenSumSet(LAMBDA r : w[r], up(t))
  <2>1. PICK end : /\ roundInv(n, end, depends)
                   /\ end.done \subseteq 1..n /\ end.points = {}
                   /\ calculate_task_weights(depends)
                        = IF end.done = 1..n /\ \A u \in 1..n : end.deps_left[u] = 0
                          THEN {end.weight} ELSE {}
    BY RoundsEnd
  <2>2. end.done = 1..n /\ w = end.weight
    BY <1>3, <2>1
  <2>3. above(depends, t) \cap (end.done \ end.points) = above(depends, t)
    BY <2>1, <2>2 DEF above
  <2>4. w[t] = IF above(depends, t) = {} THEN 1 ELSE total(w, above(depends, t))
    BY <1>1, <2>1, <2>2, <2>3 DEF roundInv
  <2>5. total(w, above(depends, t)) = MapThenSumSet(LAMBDA r : w[r], up(t))
    BY DEF total, above
  <2> QED BY <2>4, <2>5 DEF above
<1>4. \A w \in calculate_task_weights(depends), t \in DOMAIN depends :
         w[t] = IF up(t) = {} THEN 1 ELSE MapThenSumSet(LAMBDA r : w[r], up(t))
  BY <1>1, <1>3
<1>5. (calculate_task_weights(depends) = {})
        <=> \E X \in SUBSET (DOMAIN depends) : X # {} /\ \A t \in X : depends[t] \cap X # {}
  BY <1>1, <1>2
<1> QED BY <1>4, <1>5, Zenon DEF WeightsRight

-----------------------------------------------------------------------------
(* The build                                                               *)

\* A build that prepare makes comes from the tasks that its targets need, numbered
\* anew; each keeps all that its metadata ask it to come after, and there is no
\* cycle.
THEOREM PreparedRight ==
    ASSUME NEW td, TaskData(td), NEW made \in prepare(td)
    PROVE  /\ DOMAIN made.ids = 1..Len(made.ids) /\ Len(made.ids) \in Nat
           /\ made.depends \in [DOMAIN made.ids -> SUBSET DOMAIN made.ids]
           /\ Asked(td, made) = made.depends
           /\ NoCycle(made.depends)
<1> DEFINE depends == runq_depends(td)
           active == mark_active(td, depends)
           size == Cardinality(active)
           ids == [i \in 1..size |-> CHOOSE t \in active : maps(active, t) = i]
           left == [i \in DOMAIN ids |-> {maps(active, d) : d \in depends[ids[i]]}]
<1>1. /\ made.ids = ids /\ made.depends = left
      /\ calculate_task_weights(left) # {}
  <2> DEFINE build(weight) ==
                [ids |-> ids, depends |-> left, weight |-> weight,
                 fn |-> [i \in DOMAIN ids |-> td.fnid[ids[i]]],
                 taskname |-> [i \in DOMAIN ids |-> td.name[ids[i]]],
                 setscene |-> {i \in DOMAIN ids : /\ ids[i] \in DOMAIN td.variant
                                                  /\ td.variant[ids[i]] # 1}]
             weights == IF active = {} THEN {} ELSE calculate_task_weights(left)
  <2>1. made \in built(td, depends, active)
    <3> HIDE DEF depends
    <3> QED BY DEF prepare, depends
  <2>2. made \in {build(weight) : weight \in weights}
    <3> HIDE DEF depends, active
    <3> QED BY <2>1, Zenon DEF built
  <2> HIDE DEF active, left, ids
  <2> QED BY <2>2
<1>2. PICK n \in Nat : Tasks(td) = 1..n
  BY TasksAre
<1>3. /\ depends \in [Tasks(td) -> SUBSET Tasks(td)]
      /\ \A t \in Tasks(td) : depends[t] = After(td, t)
  <2>1. /\ depends = [t \in Tasks(td) |-> After(td, t)]
        /\ \A t \in Tasks(td) : After(td, t) \subseteq Tasks(td)
    BY DependsIs
  <2> HIDE DEF depends
  <2> QED BY <2>1
<1> HIDE DEF depends
<1>4. active \subseteq Tasks(td) /\ Closed(depends, active)
  BY <1>3, ActiveClosed
<1> HIDE DEF active
<1>5. /\ size \in Nat
      /\ \A t \in active : maps(active, t) \in 1..size
      /\ \A t, u \in active : t < u => maps(active, t) < maps(active, u)
      /\ \A i \in 1..size : \E t \in active : maps(active, t) = i
  BY <1>2, <1>4, Numbered
<1> HIDE DEF size
<1>6. \A i \in 1..size : ids[i] \in active /\ maps(active, ids[i]) = i
  BY <1>5
<1>7. \A t \in active : ids[maps(active, t)] = t
  <2> TAKE t \in active
  <2> DEFINE u == ids[maps(active, t)]
  <2>1. u \in active /\ maps(active, u) = maps(active, t)
    BY <1>5, <1>6
  <2> HIDE DEF u
  <2>2. ~(t < u) /\ ~(u < t)
    <3>1. maps(active, t) \in Nat
      BY <1>5
    <3> QED BY <2>1, <3>1, <1>5
  <2>3. t \in Nat /\ u \in Nat
    BY <2>1, <1>2, <1>4
  <2>4. u = t
    BY <2>2, <2>3
  <2> QED BY <2>4 DEF u
<1>8. ids \in Seq(active) /\ Len(ids) = size
  BY <1>5, <1>6
<1>9. DOMAIN ids = 1..size
  OBVIOUS
<1> HIDE DEF ids
<1>10. left = [i \in 1..size |-> left[i]]
       /\ \A i \in 1..size : left[i] = {maps(active, d) : d \in depends[ids[i]]}
  BY <1>9
<1>11. \A i \in 1..size : depends[ids[i]] \subseteq active /\ left[i] \subseteq 1..size
  BY <1>4, <1>5, <1>6, <1>10 DEF Closed
<1> HIDE DEF left
<1>12. left \in [1..size -> SUBSET (1..size)]
  BY <1>10, <1>11
<1>13. {made.ids[i] : i \in DOMAIN made.ids} = active
  <2>1. \A t \in active : maps(active, t) \in 1..size /\ ids[maps(active, t)] = t
    BY <1>5, <1>7
  <2> QED BY <2>1, <1>1, <1>6, <1>9
<1>14. Asked(td, made) = left
  <2>1. Asked(td, made) = [i \in 1..size |->
            {IF d \in active THEN maps(active, d) ELSE 0 : d \in After(td, ids[i])}]
    BY <1>1, <1>9, <1>13 DEF Asked
  <2>2. \A i \in 1..size :
            {IF d \in active THEN maps(active, d) ELSE 0 : d \in After(td, ids[i])} = left[i]
    <3> TAKE i \in 1..size
    <3>1. After(td, ids[i]) = depends[ids[i]]
      BY <1>3, <1>4, <1>6
    <3> QED BY <3>1, <1>10, <1>11
  <2> QED BY <2>1, <2>2, <1>10
<1>15. NoCycle(left)
  BY <1>1, <1>5, <1>12, RefusesCircles
<1> QED
  BY <1>1, <1>5, <1>8, <1>9, <1>12, <1>14, <1>15

\* Such a build is one that RunQueue assumes: its tasks depend on tasks of the
\* build, and there is no cycle.
THEOREM PreparedRuns ==
    ASSUME NEW td, TaskData(td), NEW made \in prepare(td),
           NEW b, b.total = Len(made.ids), b.depends = made.depends
    PROVE  /\ b.total \in Nat /\ b.depends \in [1..b.total -> SUBSET (1..b.total)]
           /\ Acyclic(b)
<1>1. /\ b.total \in Nat /\ b.depends \in [1..b.total -> SUBSET (1..b.total)]
      /\ NoCycle(b.depends)
  BY PreparedRight
<1>2. DOMAIN b.depends = 1..b.total
  BY <1>1
<1> QED
  BY <1>1, <1>2 DEF NoCycle, Acyclic

\* The build is one that prepare makes of some metadata; or nothing is said of
\* its metadata but its graph.
FromMetadata(b) ==
    \/ b.after = b.depends
    \/ \E td : /\ TaskData(td)
               /\ \E made \in prepare(td) :
                    b.depends = made.depends /\ b.after = Asked(td, made)

\* A task of a prepared build runs after all that its metadata ask it to come
\* after, whatever happens to the build.
THEOREM MetadataKept ==
    ASSUME \A b \in Builds : FromMetadata(b)
    PROVE  Spec => []MetadataOrder
<1>1. ASSUME NEW b \in Builds PROVE b.after = b.depends
  BY PreparedRight DEF FromMetadata
<1>2. IInv => MetadataOrder
  <2> SUFFICES ASSUME IInv, InTasks, NEW t \in build_pids
               PROVE  rqdata.after[t] \subseteq runq_complete
    BY DEF MetadataOrder
  <2>1. rqdata \in Builds
    BY DEF IInv, TypeOK
  <2>2. t \in T /\ t \in runq_buildable
    BY DEF IInv, WorkerInv, TasksInv, InTasks, TypeOK
  <2>3. rqdata.depends[t] \subseteq runq_complete
    BY <2>2 DEF IInv, TasksInv, InTasks
  <2> QED BY <1>1, <2>1, <2>3
<1> QED
  BY <1>2, Invariance, PTL

-----------------------------------------------------------------------------
(* What is below a task                                                    *)

\* What is below a task is what it depends on and what that leads to, and is part
\* of every set that has these.
LEMMA BelowIs ==
    ASSUME NEW n \in Nat, NEW depends \in [1..n -> SUBSET (1..n)], NEW stop,
           NEW t \in 1..n
    PROVE  LET B(u) == Below(depends, stop, u)
           IN /\ B(t) \subseteq 1..n
              /\ depends[t] \subseteq B(t)
              /\ \A u \in B(t) \ stop : depends[u] \subseteq B(t)
              /\ \A X \in SUBSET (1..n) :
                    /\ depends[t] \subseteq X
                    /\ \A u \in X \ stop : depends[u] \subseteq X
                    => B(t) \subseteq X
BY DEF Below

\* A path down has a first step,
LEMMA FirstStep ==
    ASSUME NEW n \in Nat, NEW depends \in [1..n -> SUBSET (1..n)], NEW stop,
           NEW t \in 1..n, NEW d \in Below(depends, stop, t)
    PROVE  \/ d \in depends[t]
           \/ \E u \in depends[t] \ stop : d \in Below(depends, stop, u)
<1> DEFINE B(u) == Below(depends, stop, u)
           X == depends[t] \cup UNION {B(u) : u \in depends[t] \ stop}
<1>1. \A u \in depends[t] : u \in 1..n
  OBVIOUS
<1>2. \A u \in 1..n : /\ B(u) \subseteq 1..n /\ depends[u] \subseteq B(u)
                      /\ \A v \in B(u) \ stop : depends[v] \subseteq B(u)
  BY BelowIs
<1> HIDE DEF B
<1>3. X \in SUBSET (1..n) /\ depends[t] \subseteq X
  BY <1>1, <1>2
<1>4. \A v \in X \ stop : depends[v] \subseteq X
  BY <1>1, <1>2
<1>5. B(t) \subseteq X
  <2> HIDE DEF X
  <2> QED BY <1>3, <1>4, BelowIs DEF B
<1> QED BY <1>5 DEF B

\* and a last.
LEMMA LastStep ==
    ASSUME NEW n \in Nat, NEW depends \in [1..n -> SUBSET (1..n)], NEW stop,
           NEW t \in 1..n, NEW d \in Below(depends, stop, t)
    PROVE  d \in depends[t] \/ \E u \in Below(depends, stop, t) : d \in depends[u]
<1> DEFINE B(u) == Below(depends, stop, u)
           X == {v \in B(t) : v \in depends[t] \/ \E u \in B(t) : v \in depends[u]}
<1>1. /\ B(t) \subseteq 1..n /\ depends[t] \subseteq B(t)
      /\ \A v \in B(t) \ stop : depends[v] \subseteq B(t)
  BY BelowIs
<1> HIDE DEF B
<1>2. X \in SUBSET (1..n) /\ depends[t] \subseteq X
  BY <1>1
<1>3. \A v \in X \ stop : depends[v] \subseteq X
  BY <1>1
<1>4. B(t) \subseteq X
  <2> HIDE DEF X
  <2> QED BY <1>2, <1>3, BelowIs DEF B
<1> QED BY <1>4 DEF B

\* To depend on is transitive.
LEMMA BelowAll ==
    ASSUME NEW n \in Nat, NEW depends \in [1..n -> SUBSET (1..n)], NEW t \in 1..n,
           NEW u \in Below(depends, {}, t)
    PROVE  Below(depends, {}, u) \subseteq Below(depends, {}, t)
<1>1. /\ Below(depends, {}, t) \subseteq 1..n
      /\ \A v \in Below(depends, {}, t) : depends[v] \subseteq Below(depends, {}, t)
  BY BelowIs
<1>2. u \in 1..n
  BY <1>1
<1> QED BY <1>1, <1>2, BelowIs

\* In a graph without a cycle no task depends on itself.
LEMMA NotBelowItself ==
    ASSUME NEW n \in Nat, NEW depends \in [1..n -> SUBSET (1..n)], NoCycle(depends),
           NEW t \in 1..n
    PROVE  t \notin Below(depends, {}, t)
<1> SUFFICES ASSUME t \in Below(depends, {}, t) PROVE FALSE
  OBVIOUS
<1> DEFINE Y == {u \in Below(depends, {}, t) : t \in Below(depends, {}, u)}
<1>1. /\ Below(depends, {}, t) \subseteq 1..n
      /\ \A u \in Below(depends, {}, t) : depends[u] \subseteq Below(depends, {}, t)
  BY BelowIs
<1>2. Y # {} /\ Y \in SUBSET DOMAIN depends
  BY <1>1
<1>3. \A u \in Y : depends[u] \cap Y # {}
  <2> TAKE u \in Y
  <2>1. t \in depends[u] \/ \E d \in depends[u] : t \in Below(depends, {}, d)
    BY <1>1, FirstStep
  <2> QED BY <2>1, <1>1
<1> HIDE DEF Y
<1> QED BY <1>2, <1>3 DEF NoCycle

-----------------------------------------------------------------------------
(* The graph between setscene tasks has no cycle                           *)

\* Tasks that wait for tasks above them do not wait for each other in a circle.
LEMMA AboveNoCycle ==
    ASSUME NEW n \in Nat, NEW depends \in [1..n -> SUBSET (1..n)], NoCycle(depends),
           NEW sq, DOMAIN sq \subseteq 1..n,
           \A t \in DOMAIN sq : \A s \in sq[t] : s \in 1..n /\ t \in Below(depends, {}, s)
    PROVE  NoCycle(sq)
<1> SUFFICES ASSUME NEW X \in SUBSET DOMAIN sq, X # {},
                    \A t \in X : sq[t] \cap X # {}
             PROVE  FALSE
  BY DEF NoCycle
<1> DEFINE B(u) == Below(depends, {}, u)
           Y == {u \in 1..n : /\ \E t \in X : u = t \/ t \in B(u)
                              /\ \E s \in X : u \in B(s)}
<1>0. X \subseteq 1..n
  OBVIOUS
<1>1. \A t \in X : \E s \in X : t \in B(s)
  OBVIOUS
<1>2. Y # {} /\ Y \in SUBSET (1..n)
  BY <1>0, <1>1
<1>3. ASSUME NEW u \in Y PROVE above(depends, u) \cap Y # {}
  <2>1. PICK t \in X : u = t \/ t \in B(u)
    OBVIOUS
  <2>2. PICK s \in X : u \in B(s)
    OBVIOUS
  <2>3. s \in 1..n
    BY <1>0
  <2>4. CASE u \in depends[s]
    <3>1. s \in above(depends, u)
      BY <2>3, <2>4 DEF above
    <3>2. s \in Y
      BY <2>3, <1>1
    <3> QED BY <3>1, <3>2
  <2>5. CASE u \notin depends[s]
    <3>1. PICK r \in B(s) : u \in depends[r]
      BY <2>2, <2>3, <2>5, LastStep
    <3>2. r \in 1..n
      BY <2>3, <3>1, BelowIs
    <3>3. u \in B(r)
      BY <3>1, <3>2, BelowIs
    <3>4. t \in B(r)
      BY <2>1, <3>2, <3>3, BelowAll
    <3>5. r \in Y
      BY <3>1, <3>2, <3>4
    <3>6. r \in above(depends, u)
      BY <3>1, <3>2 DEF above
    <3> QED BY <3>5, <3>6
  <2> QED BY <2>4, <2>5
<1> HIDE DEF Y
<1> QED BY <1>2, <1>3, Upwards

\* Naming adds no cycle: what is named waits for nothing.
LEMMA NamedNoCycle ==
    ASSUME NEW sq, NoCycle(sq), NEW idepends, NEW t
    PROVE  NoCycle(Named(sq, idepends, t))
<1> DEFINE new == Named(sq, idepends, t)
<1>1. CASE t \notin DOMAIN sq
  BY <1>1 DEF Named
<1>2. CASE t \in DOMAIN sq
  <2>1. /\ DOMAIN new = DOMAIN sq
        /\ \A u \in DOMAIN sq :
            new[u] = IF u \in idepends[t] THEN {}
                     ELSE IF u = t THEN sq[u] \cup idepends[t] ELSE sq[u]
    BY <1>2 DEF Named
  <2> HIDE DEF new
  <2> SUFFICES ASSUME NEW X \in SUBSET DOMAIN sq, X # {}
               PROVE  \E u \in X : new[u] \cap X = {}
    BY <2>1 DEF NoCycle, new
  <2>2. CASE X \cap idepends[t] = {}
    <3>1. PICK u \in X : sq[u] \cap X = {}
      BY DEF NoCycle
    <3>2. new[u] \subseteq sq[u] \cup idepends[t]
      BY <2>1, <2>2
    <3> QED BY <2>2, <3>1, <3>2
  <2>3. CASE X \cap idepends[t] # {}
    <3>1. PICK u \in X : u \in idepends[t]
      BY <2>3
    <3>2. new[u] = {}
      BY <2>1, <3>1
    <3> QED BY <3>2
  <2> QED BY <2>2, <2>3
<1> QED BY <1>1, <1>2

\* The steps of the explicit dependencies.
nameOp(k, sq, idepends, q, m, n) == Named(sq, idepends, k)

\* No cycle has come about; a task waits for what it did or names, and one that
\* nothing names for what it did and, when its turn has come, for what it names.
nameInv(k, sq, z) ==
    /\ NoCycle(z.sq) => NoCycle(sq)
    /\ sq = [t \in DOMAIN z.sq |-> sq[t]]
    /\ \A t \in DOMAIN z.sq :
        /\ sq[t] \subseteq z.sq[t] \cup z.idepends[t]
        /\ (\A u \in DOMAIN z.sq : t \notin z.idepends[u])
            => /\ z.sq[t] \subseteq sq[t]
               /\ t <= k => z.idepends[t] \subseteq sq[t]

Naming == INSTANCE Folding WITH op <- nameOp, pick <- anyOf, Inv <- nameInv

\* What the explicit dependencies do to a graph.
LEMMA ExplicitDoes ==
    ASSUME NEW n \in Nat, NEW depends \in [1..n -> SUBSET (1..n)],
           NEW sq, NEW idepends, DOMAIN sq \subseteq 1..n, sq = [t \in DOMAIN sq |-> sq[t]]
    PROVE  nameInv(n, Explicit(depends, sq, idepends), [sq |-> sq, idepends |-> idepends])
<1> DEFINE size == Cardinality(DOMAIN depends)
           z == [sq |-> sq, idepends |-> idepends]
           named == Naming!Steps(size, sq, idepends, 0, 0, 0)
<1>1. Explicit(depends, sq, idepends) = named
  BY Zenon DEF Explicit, Naming!Steps, nameOp
<1>2. size = n
  <2>1. DOMAIN depends = 1..n /\ Cardinality(1..n) = n
    BY FS_Interval
  <2> QED BY <2>1
<1>3. nameInv(0, sq, z)
  BY DEF nameInv
<1>4. ASSUME NEW k \in 1..n, NEW last, nameInv(k - 1, last, z)
      PROVE  nameInv(k, nameOp(k, last, idepends, 0, 0, 0), z)
  <2> DEFINE new == Named(last, idepends, k)
  <2>1. NoCycle(sq) => NoCycle(new)
    BY <1>4, NamedNoCycle DEF nameInv
  <2>2. last = [t \in DOMAIN sq |-> last[t]] /\ DOMAIN last = DOMAIN sq
    BY <1>4 DEF nameInv
  <2>3. /\ new = [t \in DOMAIN sq |-> new[t]]
        /\ \A u \in DOMAIN sq :
            new[u] = IF k \notin DOMAIN sq THEN last[u]
                     ELSE IF u \in idepends[k] THEN {}
                     ELSE IF u = k THEN last[u] \cup idepends[k] ELSE last[u]
    BY <2>2 DEF Named
  <2> HIDE DEF new
  <2>4. ASSUME NEW t \in DOMAIN sq PROVE new[t] \subseteq sq[t] \cup idepends[t]
    BY <1>4, <2>3 DEF nameInv
  <2>5. ASSUME NEW t \in DOMAIN sq, \A u \in DOMAIN sq : t \notin idepends[u]
        PROVE  /\ sq[t] \subseteq new[t]
               /\ t <= k => idepends[t] \subseteq new[t]
    <3>1. new[t] = IF t = k THEN last[t] \cup idepends[k] ELSE last[t]
      BY <2>3, <2>5
    <3>2. sq[t] \subseteq last[t] /\ (t <= k - 1 => idepends[t] \subseteq last[t])
      BY <1>4, <2>5 DEF nameInv
    <3>3. t \in 1..n /\ (t <= k => t <= k - 1 \/ t = k)
      OBVIOUS
    <3> QED BY <3>1, <3>2, <3>3
  <2>6. nameInv(k, new, z)
    BY <2>1, <2>3, <2>4, <2>5 DEF nameInv
  <2> QED BY <2>6 DEF nameOp, new
<1>5. nameInv(n, named, z)
  <2>1. nameInv(n, Naming!Steps(n, sq, idepends, 0, 0, 0), z)
    <3> HIDE DEF z
    <3> QED BY <1>3, <1>4, Naming!Stepped
  <2> QED BY <2>1, <1>2
<1> QED BY <1>1, <1>5
-----------------------------------------------------------------------------
(* The walk                                                                *)

\* A graph to walk, and where the paths end by which a task may be reached:
\* nowhere; or, when no setscene task depends directly on another, at the first
\* setscene task.
GoodGraph(z) ==
    /\ z.n \in Nat /\ z.depends \in [1..z.n -> SUBSET (1..z.n)] /\ NoCycle(z.depends)
    /\ z.setscene \subseteq 1..z.n
    /\ z.stop = {} \/ (z.stop = z.setscene /\ Apart(z.depends, z.setscene))

\* The setscene tasks above a task.
over(z, t) == {s \in z.setscene : t \in Below(z.depends, z.stop, s)}

\* The setscene tasks that no setscene task depends on directly.
Free(z) == {t \in z.setscene : \A s \in z.setscene : t \notin z.depends[s]}

Shape(z, w) ==
    /\ w = [revdeps |-> w.revdeps, new |-> w.new, points |-> w.points,
            left |-> w.left, next |-> w.next]
    /\ w.new = [t \in 1..z.n |-> w.new[t]]
    /\ w.left \subseteq DOMAIN w.points
    /\ DOMAIN w.points \subseteq (1..z.n) \ (z.stop \cup Free(z))
    /\ DOMAIN w.next \subseteq (1..z.n) \ z.setscene

\* A task has been reached only from setscene tasks above it.
Reaches(z, w) ==
    /\ \A t \in 1..z.n : w.new[t] \subseteq over(z, t)
    /\ \A p \in DOMAIN w.points : w.points[p] \subseteq over(z, p)
    /\ \A p \in DOMAIN w.next : w.next[p] \subseteq over(z, p)

\* What a task that is no setscene task has been reached from will be taken on.
Held(z, w) ==
    \A t \in (1..z.n) \ z.setscene : w.new[t] # {} => t \in w.left \cup DOMAIN w.next

\* A setscene task has been reached from those above it, or will be, by way of
\* some point.
Carried(z, w) ==
    \A t \in Free(z) : \A s \in Above(z.depends, z.setscene, t) :
        \/ s \in w.new[t]
        \/ \E p \in w.left : /\ t \in Below(z.depends, z.setscene, p)
                             /\ s \in w.points[p] \cup w.new[p]
        \/ \E p \in DOMAIN w.next : /\ t \in Below(z.depends, z.setscene, p)
                                    /\ s \in w.new[p]

\* A task and those above it.
Up(z, t) == {u \in 1..z.n : u = t \/ t \in Below(z.depends, {}, u)}

\* The walk has ended, or after k steps is at points that have been reached by
\* as many tasks as there have been passes.
Deep(k, z, w) ==
    \/ w.left = {} /\ DOMAIN w.next = {}
    \/ \E j \in 0..z.n :
        /\ k <= j * (z.n + 1) + z.n - Cardinality(w.left)
        /\ \A p \in w.left : Cardinality(Up(z, p)) >= j + 1
        /\ \A p \in DOMAIN w.next : Cardinality(Up(z, p)) >= j + 2

walksOp(k, walks, depends, setscene, m, n) ==
    UNION {process_endpoints(depends, setscene, w) : w \in walks}

walksInv(k, walks, z) ==
    /\ walks # {}
    /\ \A w \in walks : /\ Shape(z, w) /\ Reaches(z, w) /\ Held(z, w) /\ Carried(z, w)
                        /\ Deep(k, z, w)

Walking == INSTANCE Folding WITH op <- walksOp, pick <- anyOf, Inv <- walksInv

\* Below a task has more above it.
LEMMA UpGrows ==
    ASSUME NEW z, GoodGraph(z), NEW t \in 1..z.n
    PROVE  /\ Cardinality(Up(z, t)) \in 1..z.n
           /\ \A d \in z.depends[t] : Cardinality(Up(z, d)) >= Cardinality(Up(z, t)) + 1
<1> DEFINE I == 1..z.n
<1>1. \A u \in I : IsFiniteSet(Up(z, u)) /\ u \in Up(z, u) /\ Up(z, u) \subseteq I
                   /\ Cardinality(Up(z, u)) \in 1..z.n
  <2> TAKE u \in I
  <2>1. u \in Up(z, u) /\ Up(z, u) \subseteq I
    BY DEF Up
  <2>2. IsFiniteSet(I) /\ Cardinality(I) = z.n
    <3>1. z.n \in Nat
      BY DEF GoodGraph
    <3>2. \A n \in Nat : IsFiniteSet(1..n) /\ Cardinality(1..n) = n
      BY FS_Interval
    <3> QED BY <3>1, <3>2
  <2>3. IsFiniteSet(Up(z, u)) /\ Cardinality(Up(z, u)) <= z.n /\ Cardinality(Up(z, u)) \in Nat
    <3> HIDE DEF I
    <3> QED BY <2>1, <2>2, FS_Subset, FS_CardinalityType
  <2>4. Cardinality(Up(z, u)) # 0
    BY <2>1, <2>3, FS_EmptySet
  <2> QED BY <2>1, <2>3, <2>4 DEF GoodGraph
<1>2. ASSUME NEW d \in z.depends[t] PROVE Cardinality(Up(z, d)) >= Cardinality(Up(z, t)) + 1
  <2>0. d \in I
    BY DEF GoodGraph
  <2>1. d \in Below(z.depends, {}, t)
    BY BelowIs DEF GoodGraph
  <2>2. t \notin Below(z.depends, {}, t)
    BY NotBelowItself DEF GoodGraph
  <2>3. d \notin Up(z, t)
    <3>1. d # t
      BY <2>1, <2>2
    <3>2. t \in Below(z.depends, {}, d) => FALSE
      BY <2>0, <2>1, <2>2, BelowAll DEF GoodGraph
    <3> QED BY <3>1, <3>2 DEF Up
  <2>4. Up(z, t) \subseteq Up(z, d)
    <3> SUFFICES ASSUME NEW u \in 1..z.n, t \in Below(z.depends, {}, u)
                 PROVE  d \in Below(z.depends, {}, u)
      BY <2>1 DEF Up
    <3> QED BY <2>1, BelowAll DEF GoodGraph
  <2>5. Up(z, t) # Up(z, d)
    BY <1>1, <2>0, <2>3
  <2>6. Cardinality(Up(z, t)) <= Cardinality(Up(z, d)) /\ Cardinality(Up(z, t)) # Cardinality(Up(z, d))
    BY <1>1, <2>0, <2>4, <2>5, FS_Subset
  <2>7. Cardinality(Up(z, t)) \in Nat /\ Cardinality(Up(z, d)) \in Nat
    BY <1>1, <2>0
  <2> QED BY <2>6, <2>7
<1> QED BY <1>1, <1>2

\* A pass begins.
LEMMA PassKeeps ==
    ASSUME NEW z, GoodGraph(z), NEW k \in Nat \ {0}, NEW w, w.left = {}, DOMAIN w.next # {},
           Shape(z, w), Reaches(z, w), Held(z, w), Carried(z, w), Deep(k - 1, z, w)
    PROVE  LET new == Pass(w)
           IN /\ Shape(z, new) /\ Reaches(z, new) /\ Held(z, new) /\ Carried(z, new)
              /\ Deep(k, z, new)
<1> DEFINE new == Pass(w)
<1>1. /\ new = [revdeps |-> w.revdeps, new |-> w.new, points |-> w.next,
                left |-> DOMAIN w.next, next |-> new.next]
      /\ DOMAIN new.next = {}
  <2> DEFINE none == [t \in {} |-> {}]
  <2>1. DOMAIN none = {}
    OBVIOUS
  <2>2. new = [w EXCEPT !.points = w.next, !.left = DOMAIN w.next, !.next = none]
    BY Zenon DEF Pass
  <2> HIDE DEF none, new
  <2>3. w = [revdeps |-> w.revdeps, new |-> w.new, points |-> w.points,
             left |-> w.left, next |-> w.next]
    BY DEF Shape
  <2>4. new = [revdeps |-> w.revdeps, new |-> w.new, points |-> w.next,
               left |-> DOMAIN w.next, next |-> none]
    BY <2>2, <2>3
  <2> QED BY <2>1, <2>4
<1>2. /\ new.new = w.new /\ new.points = w.next /\ new.left = DOMAIN w.next
  BY <1>1
<1> HIDE DEF new
<1>3. Shape(z, new)
  <2>1. z.stop \cup Free(z) \subseteq z.setscene
    BY DEF GoodGraph, Free
  <2> QED BY <1>1, <1>2, <2>1 DEF Shape
<1>4. Reaches(z, new)
  BY <1>1, <1>2 DEF Reaches
<1>5. Held(z, new)
  BY <1>1, <1>2 DEF Held
<1>6. Carried(z, new)
  BY <1>1, <1>2 DEF Carried
<1>7. Deep(k, z, new)
  <2>1. PICK j \in 0..z.n :
            /\ k - 1 <= j * (z.n + 1) + z.n - Cardinality(w.left)
            /\ \A p \in DOMAIN w.next : Cardinality(Up(z, p)) >= j + 2
    BY DEF Deep
  <2>2. z.n \in Nat /\ Cardinality(w.left) = 0
    BY FS_EmptySet DEF GoodGraph
  <2>3. DOMAIN w.next \subseteq 1..z.n
    BY DEF Shape
  <2>4. Cardinality(DOMAIN w.next) <= z.n /\ Cardinality(DOMAIN w.next) \in Nat
    <3>1. IsFiniteSet(1..z.n) /\ Cardinality(1..z.n) = z.n
      <4>1. \A n \in Nat : IsFiniteSet(1..n) /\ Cardinality(1..n) = n
        BY FS_Interval
      <4> QED BY <4>1, <2>2
    <3> QED BY <2>3, <3>1, FS_Subset, FS_CardinalityType
  <2>5. PICK p \in DOMAIN w.next : TRUE
    OBVIOUS
  <2>6. Cardinality(Up(z, p)) \in 1..z.n /\ Cardinality(Up(z, p)) >= j + 2
    BY <2>1, <2>3, <2>5, UpGrows
  <2>7. j + 1 \in 0..z.n
    BY <2>2, <2>6
  <2>8. (j + 1) * (z.n + 1) = j * (z.n + 1) + (z.n + 1) /\ j * (z.n + 1) \in Nat
    BY <2>2
  <2>9. k <= (j + 1) * (z.n + 1) + z.n - Cardinality(new.left)
    BY <1>2, <2>1, <2>2, <2>4, <2>8
  <2>10. \A q \in new.left : Cardinality(Up(z, q)) >= (j + 1) + 1
    <3>1. \A q \in DOMAIN w.next : Cardinality(Up(z, q)) \in Nat
      BY <2>3, UpGrows
    <3> QED BY <1>2, <2>1, <3>1
  <2> QED BY <1>1, <2>7, <2>9, <2>10 DEF Deep
<1> QED BY <1>3, <1>4, <1>5, <1>6, <1>7 DEF new

\* A point is taken.
LEMMA PointKeeps ==
    ASSUME NEW z, GoodGraph(z), NEW k \in Nat \ {0}, NEW w, NEW p \in w.left,
           Shape(z, w), Reaches(z, w), Held(z, w), Carried(z, w), Deep(k - 1, z, w)
    PROVE  LET new == Point(z.depends, z.setscene, w, p)
           IN /\ Shape(z, new) /\ Reaches(z, new) /\ Held(z, new) /\ Carried(z, new)
              /\ Deep(k, z, new)
<1> DEFINE tasks == w.points[p] \cup w.new[p]
           deps == z.depends[p]
           new == Point(z.depends, z.setscene, w, p)
           has(t) == (IF t = p THEN {} ELSE w.new[t])
                        \cup IF t \in deps THEN tasks ELSE {}
<1>0. /\ DOMAIN z.depends = 1..z.n /\ p \in (1..z.n) \ z.stop
      /\ deps \subseteq 1..z.n /\ p \notin deps
  <2>1. DOMAIN z.depends = 1..z.n /\ p \in (1..z.n) \ z.stop
    BY DEF GoodGraph, Shape
  <2>2. deps \subseteq 1..z.n
    BY <2>1 DEF GoodGraph
  <2>3. \E t \in {p} : z.depends[t] \cap {p} = {}
    BY <2>1 DEF GoodGraph, NoCycle
  <2> QED BY <2>1, <2>2, <2>3
<1>1. PICK R \in SUBSET (deps \ z.setscene) :
        /\ \A d \in deps \ z.setscene : has(d) # {} => d \in R
        /\ DOMAIN new.next = DOMAIN w.next \cup R
        /\ \A t \in DOMAIN w.next \cup R :
                new.next[t] = IF t \in R THEN w.points[p] ELSE w.next[t]
        /\ new.new = [t \in 1..z.n |-> has(t)]
        /\ new.points = w.points /\ new.left = w.left \ {p}
        /\ new = [revdeps |-> new.revdeps, new |-> new.new, points |-> new.points,
                  left |-> new.left, next |-> new.next]
  <2> DEFINE still == [t \in DOMAIN z.depends |->
                            IF t \in z.depends[p] THEN w.revdeps[t] \ {p}
                                                  ELSE w.revdeps[t]]
             all == [t \in DOMAIN z.depends |-> has(t)]
             R == {d \in deps \ z.setscene : still[d] = {} \/ all[d] # {}}
             next == [t \in DOMAIN w.next \cup R |->
                        IF t \in R THEN w.points[p] ELSE w.next[t]]
  <2>1. new = [w EXCEPT !.revdeps = still, !.new = all, !.left = w.left \ {p},
                        !.next = next]
    BY DEF Point
  <2> HIDE DEF new
  <2>2. \A d \in deps : all[d] = has(d)
    BY <1>0
  <2> HIDE DEF still, has
  <2>3. R \in SUBSET (deps \ z.setscene)
        /\ \A d \in deps \ z.setscene : has(d) # {} => d \in R
    BY <2>2
  <2>4. DOMAIN next = DOMAIN w.next \cup R
        /\ \A t \in DOMAIN w.next \cup R :
                next[t] = IF t \in R THEN w.points[p] ELSE w.next[t]
    OBVIOUS
  <2>5. new = [revdeps |-> still, new |-> all, points |-> w.points,
               left |-> w.left \ {p}, next |-> next]
    <3> HIDE DEF all, next, R
    <3> QED BY <2>1 DEF Shape
  <2>6. all = [t \in 1..z.n |-> has(t)]
    BY <1>0
  <2> HIDE DEF R, next, all
  <2> QED BY <2>3, <2>4, <2>5, <2>6
<1>2. \A t \in 1..z.n : new.new[t] = has(t)
  BY <1>1
<1> HIDE DEF new
<1>3. Shape(z, new)
  <2>1. R \subseteq (1..z.n) \ z.setscene
    BY <1>0
  <2>2. new.new = [t \in 1..z.n |-> new.new[t]]
    BY <1>1
  <2> HIDE DEF has
  <2> QED BY <1>1, <2>1, <2>2 DEF Shape
<1>4. \A s \in tasks : s \in z.setscene /\ deps \subseteq Below(z.depends, z.stop, s)
                       /\ p \in Below(z.depends, z.stop, s)
  <2> TAKE s \in tasks
  <2>1. s \in over(z, p)
    BY <1>0 DEF Reaches, Shape
  <2>2. s \in 1..z.n /\ s \in z.setscene /\ p \in Below(z.depends, z.stop, s)
    BY <2>1 DEF over, GoodGraph
  <2>3. z.n \in Nat /\ z.depends \in [1..z.n -> SUBSET (1..z.n)] /\ s \in 1..z.n
    BY <2>2 DEF GoodGraph
  <2>4. \A u \in Below(z.depends, z.stop, s) \ z.stop :
            z.depends[u] \subseteq Below(z.depends, z.stop, s)
    BY <2>3, BelowIs
  <2> QED BY <1>0, <2>2, <2>4
<1>5. Reaches(z, new)
  <2>1. \A t \in 1..z.n : has(t) \subseteq over(z, t)
    <3> TAKE t \in 1..z.n
    <3>1. w.new[t] \subseteq over(z, t)
      BY DEF Reaches
    <3>2. t \in deps => tasks \subseteq over(z, t)
      <4> HIDE DEF tasks
      <4> QED BY <1>4 DEF over
    <3> QED BY <3>1, <3>2
  <2>2. \A d \in R : w.points[p] \subseteq over(z, d)
    BY <1>4 DEF over
  <2>3. \A d \in DOMAIN w.next : w.next[d] \subseteq over(z, d)
    BY DEF Reaches
  <2>4. \A d \in DOMAIN new.next : new.next[d] \subseteq over(z, d)
    BY <1>1, <2>2, <2>3
  <2>5. \A d \in DOMAIN new.points : new.points[d] \subseteq over(z, d)
    BY <1>1 DEF Reaches
  <2> HIDE DEF has
  <2> QED BY <1>2, <2>1, <2>4, <2>5 DEF Reaches
<1>6. Held(z, new)
  <2> SUFFICES ASSUME NEW t \in (1..z.n) \ z.setscene, has(t) # {}
               PROVE  t \in new.left \cup DOMAIN new.next
    BY <1>2 DEF Held
  <2>1. CASE t \in deps
    BY <1>1, <2>1
  <2>2. CASE t \notin deps
    <3>1. t # p /\ w.new[t] # {}
      BY <2>2
    <3>2. t \in w.left \cup DOMAIN w.next
      BY <3>1 DEF Held
    <3> QED BY <1>1, <3>1, <3>2
  <2> QED BY <2>1, <2>2
<1>7. Carried(z, new)
  <2> SUFFICES ASSUME NEW t \in Free(z), NEW s \in Above(z.depends, z.setscene, t)
               PROVE  \/ s \in has(t)
                      \/ \E q \in new.left : /\ t \in Below(z.depends, z.setscene, q)
                                             /\ s \in new.points[q] \cup new.new[q]
                      \/ \E q \in DOMAIN new.next : /\ t \in Below(z.depends, z.setscene, q)
                                                    /\ s \in new.new[q]
    <3>1. \A t \in Free(z) : new.new[t] = has(t)
      BY <1>2 DEF GoodGraph, Free
    <3> HIDE DEF has
    <3> QED BY <3>1 DEF Carried
  <2>1. t # p /\ t \in 1..z.n
    BY DEF GoodGraph, Free, Shape
  <2>2. CASE s \in w.new[t]
    BY <2>1, <2>2
  <2>3. ASSUME NEW q \in w.left \cup DOMAIN w.next, q # p, s \in w.new[q],
               t \in Below(z.depends, z.setscene, q)
        PROVE  \/ \E r \in new.left : /\ t \in Below(z.depends, z.setscene, r)
                                      /\ s \in new.points[r] \cup new.new[r]
               \/ \E r \in DOMAIN new.next : /\ t \in Below(z.depends, z.setscene, r)
                                             /\ s \in new.new[r]
    <3>1. q \in 1..z.n
      BY DEF Shape
    <3>2. s \in new.new[q]
      BY <1>2, <2>3, <3>1
    <3> QED BY <1>1, <2>3, <3>2
  <2>4. ASSUME NEW q \in w.left, q # p, s \in w.points[q],
               t \in Below(z.depends, z.setscene, q)
        PROVE  \E r \in new.left : /\ t \in Below(z.depends, z.setscene, r)
                                   /\ s \in new.points[r] \cup new.new[r]
    BY <1>1, <2>4
  <2>5. ASSUME s \in tasks, t \in Below(z.depends, z.setscene, p)
        PROVE  \/ s \in has(t)
               \/ \E r \in DOMAIN new.next : /\ t \in Below(z.depends, z.setscene, r)
                                             /\ s \in new.new[r]
    <3>1. \/ t \in deps
          \/ \E d \in deps \ z.setscene : t \in Below(z.depends, z.setscene, d)
      BY <1>0, <2>5, FirstStep DEF GoodGraph
    <3>2. CASE t \in deps
      BY <2>5, <3>2
    <3>3. ASSUME NEW d \in deps \ z.setscene, t \in Below(z.depends, z.setscene, d)
          PROVE  \E r \in DOMAIN new.next : /\ t \in Below(z.depends, z.setscene, r)
                                            /\ s \in new.new[r]
      <4>1. s \in has(d) /\ d \in 1..z.n
        BY <1>0, <2>5
      <4>2. s \in new.new[d]
        BY <1>2, <4>1
      <4>3. d \in R
        BY <1>1, <4>1
      <4> QED BY <1>1, <3>3, <4>2, <4>3
    <3> QED BY <3>1, <3>2, <3>3
  <2>6. \/ s \in w.new[t]
        \/ \E q \in w.left : /\ t \in Below(z.depends, z.setscene, q)
                             /\ s \in w.points[q] \cup w.new[q]
        \/ \E q \in DOMAIN w.next : /\ t \in Below(z.depends, z.setscene, q)
                                    /\ s \in w.new[q]
    BY DEF Carried
  <2> HIDE DEF has
  <2> QED BY <2>2, <2>3, <2>4, <2>5, <2>6
<1>8. Deep(k, z, new)
  <2>1. PICK j \in 0..z.n :
            /\ k - 1 <= j * (z.n + 1) + z.n - Cardinality(w.left)
            /\ \A q \in w.left : Cardinality(Up(z, q)) >= j + 1
            /\ \A q \in DOMAIN w.next : Cardinality(Up(z, q)) >= j + 2
    BY DEF Deep
  <2>2. z.n \in Nat
    BY DEF GoodGraph
  <2>3. IsFiniteSet(w.left) /\ Cardinality(w.left) \in Nat
    <3>1. IsFiniteSet(1..z.n)
      <4>1. \A n \in Nat : IsFiniteSet(1..n)
        BY FS_Interval
      <4> QED BY <4>1, <2>2
    <3>2. w.left \subseteq 1..z.n
      BY DEF Shape
    <3> QED BY <3>1, <3>2, FS_Subset, FS_CardinalityType
  <2>4. Cardinality(new.left) = Cardinality(w.left) - 1
    BY <1>1, <2>3, FS_RemoveElement
  <2>5. j * (z.n + 1) \in Nat
    BY <2>2
  <2>6. k <= j * (z.n + 1) + z.n - Cardinality(new.left)
    BY <2>1, <2>2, <2>3, <2>4, <2>5
  <2>7. \A d \in R : Cardinality(Up(z, d)) >= j + 2
    <3> TAKE d \in R
    <3>1. Cardinality(Up(z, p)) \in Nat /\ Cardinality(Up(z, p)) >= j + 1
      BY <1>0, <2>1, UpGrows
    <3>2. Cardinality(Up(z, d)) >= Cardinality(Up(z, p)) + 1 /\ Cardinality(Up(z, d)) \in Nat
      BY <1>0, UpGrows
    <3> QED BY <3>1, <3>2
  <2> QED BY <1>1, <2>1, <2>6, <2>7 DEF Deep
<1> QED BY <1>3, <1>5, <1>6, <1>7, <1>8 DEF new

\* Where the walk begins.
LEMMA StartGood ==
    ASSUME NEW z, GoodGraph(z)
    PROVE  LET w == Walk(z.depends, z.setscene)
           IN /\ Shape(z, w) /\ Reaches(z, w) /\ Held(z, w) /\ Carried(z, w)
              /\ Deep(0, z, w)
<1> DEFINE w == Walk(z.depends, z.setscene)
           nothing == [t \in {} |-> {}]
           users(t) == {s \in z.setscene : t \in z.depends[s]}
           ends == endpoints(z.depends, z.setscene)
<1>0. /\ z.n \in Nat /\ DOMAIN z.depends = 1..z.n /\ z.setscene \subseteq 1..z.n
      /\ \A t \in 1..z.n : z.depends[t] \subseteq 1..z.n
  BY DEF GoodGraph
<1>1. /\ DOMAIN ends \subseteq 1..z.n
      /\ \A t \in DOMAIN ends : ends[t] = users(t)
      /\ \A t \in DOMAIN ends : users(t) # {} \/ t \notin z.setscene
      /\ \A t \in 1..z.n : users(t) # {} => t \in DOMAIN ends
  BY <1>0 DEF endpoints
<1>2. /\ DOMAIN nothing = {}
      /\ w = [revdeps |-> w.revdeps, new |-> w.new, points |-> w.points,
              left |-> w.left, next |-> w.next]
      /\ w.new = [t \in 1..z.n |-> {}]
      /\ w.points = ends /\ w.left = DOMAIN ends /\ w.next = nothing
  BY <1>0 DEF Walk
<1> HIDE DEF w, nothing, ends
<1>3. \A t \in 1..z.n : w.new[t] = {}
  BY <1>2
<1>4. DOMAIN w.points \cap (z.stop \cup Free(z)) = {}
  <2> SUFFICES ASSUME NEW t \in DOMAIN ends, t \in z.stop \cup Free(z) PROVE FALSE
    BY <1>2
  <2>1. t \in z.setscene
    BY DEF GoodGraph, Free
  <2>2. PICK s \in z.setscene : t \in z.depends[s]
    BY <1>1, <2>1
  <2> QED BY <2>1, <2>2 DEF GoodGraph, Apart, Free
<1>5. Shape(z, w)
  <2>1. w.new = [t \in 1..z.n |-> w.new[t]]
    BY <1>2
  <2> QED BY <1>1, <1>2, <1>4, <2>1 DEF Shape
<1>6. Reaches(z, w)
  <2>1. ASSUME NEW p \in DOMAIN ends, NEW s \in users(p) PROVE s \in over(z, p)
    <3>1. p \in Below(z.depends, z.stop, s)
      BY <1>0, BelowIs DEF GoodGraph
    <3> QED BY <3>1 DEF over
  <2>2. \A p \in DOMAIN w.points : w.points[p] \subseteq over(z, p)
    BY <1>1, <1>2, <2>1
  <2> QED BY <1>2, <1>3, <2>2 DEF Reaches
<1>7. Held(z, w)
  BY <1>3 DEF Held
<1>8. Carried(z, w)
  <2> SUFFICES ASSUME NEW t \in Free(z), NEW s \in Above(z.depends, z.setscene, t)
               PROVE  \E p \in w.left : /\ t \in Below(z.depends, z.setscene, p)
                                        /\ s \in w.points[p] \cup w.new[p]
    BY DEF Carried
  <2>1. s \in z.setscene /\ s \in 1..z.n /\ t \in Below(z.depends, z.setscene, s)
    BY <1>0 DEF Above
  <2>2. t \notin z.depends[s]
    BY <2>1 DEF Free
  <2>3. PICK u \in z.depends[s] \ z.setscene : t \in Below(z.depends, z.setscene, u)
    BY <2>1, <2>2, FirstStep DEF GoodGraph
  <2>4. u \in 1..z.n /\ s \in users(u)
    BY <1>0, <2>1
  <2>5. u \in w.left /\ s \in w.points[u]
    BY <1>1, <1>2, <2>4
  <2> QED BY <2>3, <2>5
<1>9. Deep(0, z, w)
  <2>1. w.left \subseteq 1..z.n
    BY <1>1, <1>2
  <2>2. IsFiniteSet(1..z.n) /\ Cardinality(1..z.n) = z.n
    <3>1. \A n \in Nat : IsFiniteSet(1..n) /\ Cardinality(1..n) = n
      BY FS_Interval
    <3> QED BY <1>0, <3>1
  <2>3. Cardinality(w.left) <= z.n /\ Cardinality(w.left) \in Nat
    BY <2>1, <2>2, FS_Subset, FS_CardinalityType
  <2>4. \A p \in w.left : Cardinality(Up(z, p)) \in 1..z.n
    BY <2>1, UpGrows
  <2>5. 0 \in 0..z.n /\ 0 <= 0 * (z.n + 1) + z.n - Cardinality(w.left)
    BY <1>0, <2>3
  <2>6. \A p \in w.left : Cardinality(Up(z, p)) >= 0 + 1
    BY <1>0, <2>4
  <2>7. \A p \in DOMAIN w.next : Cardinality(Up(z, p)) >= 0 + 2
    BY <1>2
  <2> QED BY <2>5, <2>6, <2>7 DEF Deep
<1> QED BY <1>5, <1>6, <1>7, <1>8, <1>9 DEF w

\* Where it ends, whatever the order.
LEMMA WalksEnd ==
    ASSUME NEW z, GoodGraph(z)
    PROVE  /\ Walks(z.depends, z.setscene) # {}
           /\ \A w \in Walks(z.depends, z.setscene) :
                /\ Shape(z, w) /\ Reaches(z, w) /\ Held(z, w) /\ Carried(z, w)
                /\ w.left = {} /\ DOMAIN w.next = {}
<1> DEFINE size == Cardinality(DOMAIN z.depends)
           most == (z.n + 1) * (z.n + 1)
           start == {Walk(z.depends, z.setscene)}
           walks == Walking!Steps((size + 1) * (size + 1), start, z.depends, z.setscene, 0, 0)
           good(k, w) == /\ Shape(z, w) /\ Reaches(z, w) /\ Held(z, w) /\ Carried(z, w)
                         /\ Deep(k, z, w)
<1>1. Walks(z.depends, z.setscene) = walks
  BY Zenon DEF Walks, Walking!Steps, walksOp
<1>2. size = z.n /\ z.n \in Nat
  <2>1. DOMAIN z.depends = 1..z.n /\ z.n \in Nat
    BY DEF GoodGraph
  <2>2. \A n \in Nat : Cardinality(1..n) = n
    BY FS_Interval
  <2> QED BY <2>1, <2>2
<1>3. walksInv(0, start, z)
  BY StartGood DEF walksInv
<1>4. ASSUME NEW k \in 1..most, NEW last, walksInv(k - 1, last, z)
      PROVE  walksInv(k, walksOp(k, last, z.depends, z.setscene, 0, 0), z)
  <2>0. k \in Nat \ {0}
    OBVIOUS
  <2>1. ASSUME NEW w \in last
        PROVE  /\ process_endpoints(z.depends, z.setscene, w) # {}
               /\ \A new \in process_endpoints(z.depends, z.setscene, w) : good(k, new)
    <3>1. good(k - 1, w)
      BY <1>4, <2>1 DEF walksInv
    <3>2. CASE w.left # {}
      <4>1. \A p \in w.left : good(k, Point(z.depends, z.setscene, w, p))
        BY <2>0, <3>1, PointKeeps
      <4> HIDE DEF good
      <4> QED BY <3>2, <4>1 DEF process_endpoints
    <3>3. CASE w.left = {} /\ DOMAIN w.next # {}
      <4>1. good(k, Pass(w))
        BY <2>0, <3>1, <3>3, PassKeeps
      <4> HIDE DEF good
      <4> QED BY <3>3, <4>1 DEF process_endpoints
    <3>4. CASE w.left = {} /\ DOMAIN w.next = {}
      <4>1. good(k, w)
        BY <3>1, <3>4 DEF Deep
      <4> HIDE DEF good
      <4> QED BY <3>4, <4>1 DEF process_endpoints
    <3> QED BY <3>2, <3>3, <3>4
  <2>2. last # {}
    BY <1>4 DEF walksInv
  <2> DEFINE new == walksOp(k, last, z.depends, z.setscene, 0, 0)
  <2>3. new # {} /\ \A w \in new : good(k, w)
    <3> HIDE DEF good
    <3> QED BY <2>1, <2>2 DEF walksOp
  <2> HIDE DEF new
  <2>4. walksInv(k, new, z)
    BY <2>3 DEF walksInv
  <2> QED BY <2>4 DEF new
<1>5. walksInv(most, walks, z)
  <2>1. most \in Nat
    BY <1>2
  <2>2. walksInv(most, Walking!Steps(most, start, z.depends, z.setscene, 0, 0), z)
    <3> HIDE DEF most, start
    <3> QED BY <2>1, <1>3, <1>4, Walking!Stepped
  <2> HIDE DEF start
  <2> QED BY <1>2, <2>2
<1>6. ASSUME NEW w \in walks PROVE w.left = {} /\ DOMAIN w.next = {}
  <2> SUFFICES ASSUME NEW j \in 0..z.n,
                      most <= j * (z.n + 1) + z.n - Cardinality(w.left)
               PROVE  FALSE
    BY <1>5 DEF walksInv, Deep
  <2>1. w.left \subseteq 1..z.n
    BY <1>5 DEF walksInv, Shape
  <2>2. Cardinality(w.left) \in Nat
    <3>1. \A n \in Nat : IsFiniteSet(1..n)
      BY FS_Interval
    <3> QED BY <2>1, <1>2, <3>1, FS_Subset, FS_CardinalityType
  <2>3. j * (z.n + 1) <= z.n * (z.n + 1) /\ j * (z.n + 1) \in Nat
    BY <1>2
  <2>4. most = z.n * (z.n + 1) + z.n + 1 /\ z.n * (z.n + 1) \in Nat
    BY <1>2
  <2> HIDE DEF most
  <2> QED BY <1>2, <2>2, <2>3, <2>4
<1> HIDE DEF walks
<1> QED BY <1>1, <1>5, <1>6 DEF walksInv

\* For every graph without a cycle, and whatever the order of the walk: it ends,
\* nothing is left at a task that is no setscene task, and a setscene task gets
\* only tasks that depend on it.
THEOREM WalkSound ==
    ASSUME NEW n \in Nat, NEW depends \in [1..n -> SUBSET (1..n)], NoCycle(depends),
           NEW setscene \in SUBSET (1..n)
    PROVE  WellFormed(depends, setscene)
<1> DEFINE z == [n |-> n, depends |-> depends, setscene |-> setscene, stop |-> {}]
<1>1. GoodGraph(z)
  BY DEF GoodGraph
<1>2. /\ z.n = n /\ z.depends = depends /\ z.setscene = setscene /\ z.stop = {}
      /\ DOMAIN depends = 1..n
  OBVIOUS
<1> HIDE DEF z
<1>3. ASSUME NEW w \in Walks(depends, setscene)
      PROVE  /\ w.left = {} /\ DOMAIN w.next = {}
             /\ \A t \in 1..n :
                    /\ w.new[t] \subseteq {s \in setscene : t \in Below(depends, {}, s)}
                    /\ t \notin setscene => w.new[t] = {}
  BY <1>1, <1>2, WalksEnd DEF Reaches, Held, over
<1> QED BY <1>2, <1>3 DEF WellFormed

\* Every task above a setscene task is among those it gets, unless a setscene task
\* depends on it directly.
THEOREM WalkComplete ==
    ASSUME NEW n \in Nat, NEW depends \in [1..n -> SUBSET (1..n)], NoCycle(depends),
           NEW setscene \in SUBSET (1..n), NEW new \in Squashed(depends, setscene),
           NEW t \in setscene, \A s \in setscene : t \notin depends[s]
    PROVE  Above(depends, setscene, t) \subseteq new[t]
<1> DEFINE z == [n |-> n, depends |-> depends, setscene |-> setscene, stop |-> {}]
<1>1. GoodGraph(z)
  BY DEF GoodGraph
<1>2. z.n = n /\ z.depends = depends /\ z.setscene = setscene
  OBVIOUS
<1> HIDE DEF z
<1>3. PICK w \in Walks(depends, setscene) : new = w.new
  BY DEF Squashed
<1>4. Carried(z, w) /\ w.left = {} /\ DOMAIN w.next = {}
  BY <1>1, <1>2, WalksEnd
<1>5. t \in Free(z)
  BY <1>2 DEF Free
<1> QED BY <1>2, <1>3, <1>4, <1>5 DEF Carried

\* When no setscene task depends directly on another, each gets exactly the tasks
\* above it: the order of the walk makes no difference.
THEOREM WalkRight ==
    ASSUME NEW n \in Nat, NEW depends \in [1..n -> SUBSET (1..n)], NoCycle(depends),
           NEW setscene \in SUBSET (1..n), Apart(depends, setscene)
    PROVE  Derived(depends, setscene)
<1> DEFINE z == [n |-> n, depends |-> depends, setscene |-> setscene, stop |-> setscene]
           right == [t \in DOMAIN depends |->
                        IF t \in setscene THEN Above(depends, setscene, t) ELSE {}]
<1>1. GoodGraph(z)
  BY DEF GoodGraph
<1>2. /\ z.n = n /\ z.depends = depends /\ z.setscene = setscene /\ z.stop = setscene
      /\ DOMAIN depends = 1..n
  OBVIOUS
<1> HIDE DEF z
<1>3. ASSUME NEW w \in Walks(depends, setscene) PROVE w.new = right
  <2>1. w.new = [t \in 1..n |-> w.new[t]]
    BY <1>1, <1>2, WalksEnd DEF Shape
  <2>2. \A t \in (1..n) \ setscene : w.new[t] = {}
    BY <1>1, <1>2, WalksEnd DEF Held
  <2>3. ASSUME NEW t \in setscene PROVE w.new[t] = Above(depends, setscene, t)
    <3>1. w.new[t] \subseteq Above(depends, setscene, t)
      BY <1>1, <1>2, WalksEnd DEF Reaches, over, Above
    <3>2. w.new \in Squashed(depends, setscene)
      BY DEF Squashed
    <3>3. \A s \in setscene : t \notin depends[s]
      BY DEF Apart
    <3>4. Above(depends, setscene, t) \subseteq w.new[t]
      BY <3>2, <3>3, WalkComplete
    <3> QED BY <3>1, <3>4
  <2>4. \A t \in 1..n : w.new[t] = IF t \in setscene THEN Above(depends, setscene, t)
                                                     ELSE {}
    BY <2>2, <2>3
  <2> QED BY <1>2, <2>1, <2>4
<1>4. Walks(depends, setscene) # {}
  BY <1>1, <1>2, WalksEnd
<1> HIDE DEF right
<1>5. Squashed(depends, setscene) = {right}
  BY <1>3, <1>4 DEF Squashed
<1> QED BY <1>5 DEF Derived, right

\* The graph that the constructor derives is one that RunQueue assumes: between
\* setscene tasks, and without a cycle, whatever the metadata name.
THEOREM SceneRuns ==
    ASSUME NEW b, b.total \in Nat, b.depends \in [1..b.total -> SUBSET (1..b.total)],
           Acyclic(b), b.setscene \subseteq 1..b.total, Constructed(b)
    PROVE  b.sq_revdeps \in [b.setscene -> SUBSET b.setscene] /\ AcyclicScene(b)
<1>1. NoCycle(b.depends)
  BY DEF NoCycle, Acyclic
<1>2. PICK new \in Squashed(b.depends, b.setscene) :
          b.sq_revdeps = Explicit(b.depends, [t \in b.setscene |-> new[t]], b.idepends)
  BY DEF Constructed, sq_revdeps
<1> DEFINE sq == [t \in b.setscene |-> new[t]]
<1>3. \A t \in b.setscene : new[t] \subseteq {s \in b.setscene : t \in Below(b.depends, {}, s)}
  <2>1. WellFormed(b.depends, b.setscene)
    BY <1>1, WalkSound
  <2>2. \A t \in b.setscene : t \in DOMAIN b.depends
    OBVIOUS
  <2> QED BY <2>1, <2>2 DEF WellFormed, Squashed
<1>4. DOMAIN sq = b.setscene /\ sq = [t \in DOMAIN sq |-> sq[t]]
      /\ \A t \in b.setscene : sq[t] = new[t]
  OBVIOUS
<1> HIDE DEF sq
<1>5. NoCycle(sq)
  BY <1>1, <1>3, <1>4, AboveNoCycle
<1> DEFINE z == [sq |-> sq, idepends |-> b.idepends]
<1>6. nameInv(b.total, b.sq_revdeps, z)
  BY <1>2, <1>4, ExplicitDoes DEF sq
<1>7. /\ NoCycle(b.sq_revdeps) /\ b.sq_revdeps = [t \in b.setscene |-> b.sq_revdeps[t]]
      /\ \A t \in b.setscene : b.sq_revdeps[t] \subseteq sq[t] \cup b.idepends[t]
  BY <1>4, <1>5, <1>6 DEF nameInv
<1>8. \A t \in b.setscene : b.sq_revdeps[t] \subseteq b.setscene
  BY <1>3, <1>4, <1>7 DEF Constructed
<1>9. DOMAIN b.sq_revdeps = b.setscene
  BY <1>7
<1> QED BY <1>7, <1>8, <1>9 DEF NoCycle, AcyclicScene

\* A setscene task is forked when an outcome is known for those that need its
\* output and for those it names.
THEOREM SceneKept ==
    ASSUME \A b \in Builds : Constructed(b)
    PROVE  Spec => []SceneWaits
<1>1. ASSUME NEW b \in Builds, NEW t \in b.setscene,
             \A u \in b.setscene : t \notin b.depends[u] \cup b.idepends[u]
      PROVE  Above(b.depends, b.setscene, t) \cup b.idepends[t] \subseteq b.sq_revdeps[t]
  <2>1. /\ b.total \in Nat /\ b.depends \in [1..b.total -> SUBSET (1..b.total)]
        /\ NoCycle(b.depends) /\ b.setscene \in SUBSET (1..b.total)
    BY BuildsAssumption DEF BuildType, Acyclic, NoCycle
  <2>2. PICK new \in Squashed(b.depends, b.setscene) :
            b.sq_revdeps = Explicit(b.depends, [u \in b.setscene |-> new[u]], b.idepends)
    BY DEF Constructed, sq_revdeps
  <2>3. Above(b.depends, b.setscene, t) \subseteq new[t]
    BY <1>1, <2>1, WalkComplete
  <2> DEFINE sq == [u \in b.setscene |-> new[u]]
             z == [sq |-> sq, idepends |-> b.idepends]
  <2>4. DOMAIN sq = b.setscene /\ sq = [u \in DOMAIN sq |-> sq[u]] /\ sq[t] = new[t]
    OBVIOUS
  <2>5. nameInv(b.total, Explicit(b.depends, sq, b.idepends), z)
    <3> HIDE DEF sq
    <3> QED BY <2>1, <2>4, ExplicitDoes
  <2> HIDE DEF sq
  <2>6. t <= b.total
    BY <2>1
  <2>7. sq[t] \cup b.idepends[t] \subseteq b.sq_revdeps[t]
    BY <1>1, <2>2, <2>4, <2>5, <2>6 DEF nameInv, sq
  <2> QED BY <2>3, <2>4, <2>7
<1>2. IInv => SceneWaits
  <2> SUFFICES ASSUME IInv, rqexe = "scene", NEW t \in build_pids,
                      \A u \in S : t \notin rqdata.depends[u] \cup rqdata.idepends[u]
               PROVE  Above(rqdata.depends, S, t) \cup rqdata.idepends[t] \subseteq Processed
    BY DEF SceneWaits
  <2>1. rqdata \in Builds
    BY DEF IInv, TypeOK
  <2>2. t \in S /\ rqdata.sq_revdeps[t] \subseteq Processed
    BY DEF IInv, SceneInv
  <2> QED BY <1>1, <2>1, <2>2 DEF S
<1> QED
  BY <1>2, Invariance, PTL
=============================================================================
