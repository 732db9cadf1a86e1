------------------------------ MODULE Folding ------------------------------
(***************************************************************************)
(* What a fold over a finite set establishes, by induction.  The folds of  *)
(* the community modules (FoldSet, FoldLeft) are calls of MapThenFoldSet,  *)
(* a function that is recursive over the subsets of a set.  A module that  *)
(* instantiates this one says what a step does, which member is taken, and *)
(* what holds of the result for the part of the set that has been folded;  *)
(* theorem Folded (FoldedLeft for a sequence) then gives it for the whole. *)
(***************************************************************************)
EXTENDS Integers, FiniteSets, FiniteSetTheorems, WellFoundedInduction, TLAPS

CONSTANTS
    op(_,_,_,_,_,_),    \* of a member, the result so far, and what op goes by
    pick(_),            \* the member of a set that is taken last
    Inv(_,_,_)          \* of the part folded, the result, and what it goes by

Iter(S, base, p, q, m, n) ==
    LET iter[s \in SUBSET S] ==
          IF s = {} THEN base
          ELSE LET x == pick(s) IN op(x, iter[s \ {x}], p, q, m, n)
    IN iter[S]

\* A set of parts of a finite set has a smallest one.
LEMMA Minimal ==
    ASSUME NEW S, IsFiniteSet(S), NEW T \in SUBSET (SUBSET S), T # {}
    PROVE  \E x \in T : \A y \in T : y \subseteq x => y = x
<1> DEFINE R == StrictSubsetOrdering(S)
           F == FiniteSubsetsOf(S)
<1>1. F = SUBSET S
  BY FS_FiniteSubsetsOfFinite
<1>2. IsWellFoundedOn(R, F)
  BY FS_StrictSubsetOrderingWellFounded
<1>3. T \subseteq F
  BY <1>1
<1>4. \E x \in T : \A y \in T : ~ (<<y, x>> \in R)
  <2> HIDE DEF R, F
  <2> QED BY <1>2, <1>3, WFMin
<1>5. PICK x \in T : \A y \in T : ~ (<<y, x>> \in R)
  BY <1>4
<1>6. ASSUME NEW y \in T, y \subseteq x, y # x PROVE FALSE
  <2>1. <<y, x>> \in R
    BY <1>6 DEF StrictSubsetOrdering
  <2> QED BY <2>1, <1>5
<1> QED BY <1>6

Rec(S, base, p, q, m, n, g) ==
    g = [s \in SUBSET S |->
          IF s = {} THEN base ELSE op(pick(s), g[s \ {pick(s)}], p, q, m, n)]

Picks(S) == \A s \in SUBSET S : s # {} => pick(s) \in s

\* Two functions that satisfy the recursion agree wherever both are defined.
LEMMA Same ==
    ASSUME NEW S, IsFiniteSet(S), NEW base, NEW p, NEW q, NEW m, NEW n, Picks(S)
    PROVE  \A s, t, u \in SUBSET S : \A g, h :
             (/\ Rec(s, base, p, q, m, n, g) /\ Rec(t, base, p, q, m, n, h)
              /\ u \subseteq s /\ u \subseteq t)
                => g[u] = h[u]
<1> TAKE s, t, u \in SUBSET S
<1> TAKE g, h
<1> HAVE /\ Rec(s, base, p, q, m, n, g) /\ Rec(t, base, p, q, m, n, h)
         /\ u \subseteq s /\ u \subseteq t
<1> DEFINE Bad == {w \in SUBSET S : w \subseteq s /\ w \subseteq t /\ g[w] # h[w]}
<1> SUFFICES ASSUME Bad # {} PROVE FALSE
  OBVIOUS
<1>1. PICK w \in Bad : \A y \in Bad : y \subseteq w => y = w
  <2>1. Bad \in SUBSET (SUBSET S)
    OBVIOUS
  <2> HIDE DEF Bad
  <2> QED
    BY <2>1, Minimal
<1>2. CASE w = {}
  BY <1>2 DEF Rec
<1>3. CASE w # {}
  <2> DEFINE x == pick(w)
  <2>1. x \in w
    BY <1>3 DEF Picks
  <2>2. g[w \ {x}] = h[w \ {x}]
    BY <1>1, <2>1
  <2>3. g[w] = op(x, g[w \ {x}], p, q, m, n) /\ h[w] = op(x, h[w \ {x}], p, q, m, n)
    BY <1>3 DEF Rec
  <2> QED
    BY <2>2, <2>3
<1> QED
  BY <1>2, <1>3

\* There is a function that satisfies the recursion.
LEMMA Exists ==
    ASSUME NEW S, IsFiniteSet(S), NEW base, NEW p, NEW q, NEW m, NEW n, Picks(S)
    PROVE  \E g : Rec(S, base, p, q, m, n, g)
<1> DEFINE Bad == {s \in SUBSET S : ~\E g : Rec(s, base, p, q, m, n, g)}
<1> SUFFICES ASSUME Bad # {} PROVE FALSE
  OBVIOUS
<1>1. PICK s \in Bad : \A y \in Bad : y \subseteq s => y = s
  <2>1. Bad \in SUBSET (SUBSET S)
    OBVIOUS
  <2> HIDE DEF Bad
  <2> QED
    BY <2>1, Minimal
<1> DEFINE G(u) == CHOOSE g : Rec(u, base, p, q, m, n, g)
           top == pick(s)
           H == [u \in SUBSET s |-> IF u = {} THEN base
                                    ELSE IF u = s THEN op(top, G(s \ {top})[s \ {top}], p, q, m, n)
                                    ELSE G(u)[u]]
<1>2. \A u \in SUBSET s : u # s => Rec(u, base, p, q, m, n, G(u))
  BY <1>1
<1>3. ASSUME NEW u \in SUBSET s, u # {}
      PROVE  H[u] = op(pick(u), H[u \ {pick(u)}], p, q, m, n)
  <2> DEFINE x == pick(u)
             w == u \ {x}
  <2>1. x \in u /\ w \in SUBSET s /\ w # s
    BY <1>3 DEF Picks
  <2>2. H[w] = G(w)[w]
    <3>1. CASE w = {}
      <4>1. Rec(w, base, p, q, m, n, G(w))
        BY <1>2, <2>1
      <4> HIDE DEF G, H
      <4>2. G(w)[w] = base
        BY <4>1, <3>1 DEF Rec
      <4> USE DEF H
      <4> QED BY <3>1, <4>2, <2>1
    <3> QED BY <2>1, <3>1
  <2>3. CASE u = s
    BY <2>2, <2>3, <1>3
  <2>4. CASE u # s
    <3>1. Rec(u, base, p, q, m, n, G(u)) /\ Rec(w, base, p, q, m, n, G(w))
      BY <1>2, <2>1, <2>4
    <3>2. G(u)[u] = op(x, G(u)[w], p, q, m, n)
      BY <3>1, <1>3 DEF Rec
    <3>3. G(u)[w] = G(w)[w]
      <4>1. u \in SUBSET S /\ w \in SUBSET S /\ w \subseteq u /\ u \subseteq u /\ w \subseteq w
        BY <1>1
      <4> DEFINE g == G(u)
                 h == G(w)
      <4>2. Rec(u, base, p, q, m, n, g) /\ Rec(w, base, p, q, m, n, h)
        BY <3>1
      <4> HIDE DEF G, w, H, top, x, Bad, g, h
      <4>3. g[w] = h[w]
        <5>1. \A a, b, e \in SUBSET S : \A f, i :
                 Rec(a, base, p, q, m, n, f) /\ Rec(b, base, p, q, m, n, i) /\ e \subseteq a /\ e \subseteq b
                    => f[e] = i[e]
          BY Same
        <5> QED BY <4>2, <4>1, <5>1
      <4> QED BY <4>3 DEF g, h
    <3> QED BY <3>2, <3>3, <2>2, <2>4, <1>3
  <2> QED BY <2>3, <2>4
<1>4. Rec(s, base, p, q, m, n, H)
  <2> HIDE DEF G
  <2>1. H[{}] = base
    OBVIOUS
  <2>2. H = [u \in SUBSET s |-> H[u]]
    OBVIOUS
  <2> HIDE DEF H
  <2> QED BY <1>3, <2>1, <2>2 DEF Rec
<1> QED
  BY <1>4

\* One member is taken, and the rest folded.
LEMMA Unfolded ==
    ASSUME NEW S, IsFiniteSet(S), NEW base, NEW p, NEW q, NEW m, NEW n, Picks(S)
    PROVE  Iter(S, base, p, q, m, n)
             = IF S = {} THEN base
               ELSE op(pick(S), Iter(S \ {pick(S)}, base, p, q, m, n), p, q, m, n)
<1> DEFINE G(u) == CHOOSE h : Rec(u, base, p, q, m, n, h)
<1>1. \A u \in SUBSET S : /\ Rec(u, base, p, q, m, n, G(u))
                          /\ Iter(u, base, p, q, m, n) = G(u)[u]
  <2> TAKE u \in SUBSET S
  <2>1. IsFiniteSet(u) /\ Picks(u)
    BY FS_Subset DEF Picks
  <2>2. Rec(u, base, p, q, m, n, G(u))
    BY <2>1, Exists
  <2>3. Iter(u, base, p, q, m, n) = G(u)[u]
    BY DEF Iter, Rec
  <2> QED BY <2>2, <2>3
<1> HIDE DEF G
<1>2. CASE S = {}
  BY <1>1, <1>2 DEF Rec
<1>3. CASE S # {}
  <2> DEFINE w == S \ {pick(S)}
  <2>1. w \in SUBSET S /\ S \in SUBSET S
    OBVIOUS
  <2>2. G(S)[S] = op(pick(S), G(S)[w], p, q, m, n)
    BY <1>1, <1>3 DEF Rec
  <2>3. G(S)[w] = G(w)[w]
    <3> DEFINE g == G(S)
               h == G(w)
    <3>1. Rec(S, base, p, q, m, n, g) /\ Rec(w, base, p, q, m, n, h)
      BY <1>1, <2>1
    <3> HIDE DEF w, g, h
    <3>2. \A s, t, u \in SUBSET S : \A a, b :
             (/\ Rec(s, base, p, q, m, n, a) /\ Rec(t, base, p, q, m, n, b)
              /\ u \subseteq s /\ u \subseteq t) => a[u] = b[u]
      BY Same
    <3>3. g[w] = h[w]
      BY <2>1, <3>1, <3>2
    <3> QED BY <3>3 DEF g, h
  <2> QED BY <1>1, <1>3, <2>1, <2>2, <2>3
<1> QED BY <1>2, <1>3

\* What holds before the fold, and is kept as each member is taken, holds after it.
LEMMA Folded ==
    ASSUME NEW S, IsFiniteSet(S), NEW base, NEW p, NEW q, NEW m, NEW n, NEW z,
           Picks(S), Inv({}, base, z),
           \A s \in SUBSET S : s # {} => \A r :
                Inv(s \ {pick(s)}, r, z) => Inv(s, op(pick(s), r, p, q, m, n), z)
    PROVE  Inv(S, Iter(S, base, p, q, m, n), z)
<1> DEFINE g == CHOOSE h : Rec(S, base, p, q, m, n, h)
<1>1. Rec(S, base, p, q, m, n, g)
  BY Exists
<1>2. Iter(S, base, p, q, m, n) = g[S]
  BY DEF Iter, Rec
<1> HIDE DEF g
<1> DEFINE Bad == {s \in SUBSET S : ~Inv(s, g[s], z)}
<1> SUFFICES ASSUME Bad # {} PROVE FALSE
  BY <1>2
<1>3. PICK s \in Bad : \A y \in Bad : y \subseteq s => y = s
  <2>1. Bad \in SUBSET (SUBSET S)
    OBVIOUS
  <2> HIDE DEF Bad
  <2> QED
    BY <2>1, Minimal
<1>4. s # {}
  BY <1>1 DEF Rec
<1>5. g[s] = op(pick(s), g[s \ {pick(s)}], p, q, m, n)
  BY <1>1, <1>4 DEF Rec
<1>6. pick(s) \in s
  BY <1>4 DEF Picks
<1>7. Inv(s \ {pick(s)}, g[s \ {pick(s)}], z)
  BY <1>3, <1>6
<1> QED
  BY <1>4, <1>5, <1>7

\* A set of numbers up to n has a greatest one.
LEMMA Largest ==
    ASSUME NEW n \in Nat, NEW S \in SUBSET (0..n), S # {}
    PROVE  \E c \in S : \A b \in S : b <= c
<1> DEFINE I == 0..n
           T == {c..n : c \in S}
<1>1. IsFiniteSet(I)
  BY FS_Interval
<1>0. T \in SUBSET (SUBSET I) /\ T # {}
  <2>1. \A c \in S : c..n \in SUBSET I
    OBVIOUS
  <2> HIDE DEF I
  <2> QED BY <2>1
<1>2. PICK x \in T : \A y \in T : y \subseteq x => y = x
  <2> HIDE DEF T, I
  <2> QED BY <1>0, <1>1, Minimal
<1>3. PICK c \in S : x = c..n
  OBVIOUS
<1>4. ASSUME NEW b \in S, b > c PROVE FALSE
  <2>1. b..n \subseteq x /\ c \in x /\ c \notin b..n
    BY <1>3, <1>4
  <2> QED BY <2>1, <1>2
<1> QED BY <1>4

\* As Folded, of a set of indices from 1 that are taken in their order.
LEMMA FoldedLeft ==
    ASSUME NEW len \in Nat, NEW base, NEW p, NEW q, NEW m, NEW n, NEW z,
           Picks(1..len), \A k \in 1..len : pick(1..k) = k, Inv({}, base, z),
           \A k \in 1..len : \A r :
                Inv(1..(k - 1), r, z) => Inv(1..k, op(k, r, p, q, m, n), z)
    PROVE  Inv(1..len, Iter(1..len, base, p, q, m, n), z)
<1> DEFINE S == 1..len
           g == CHOOSE h : Rec(S, base, p, q, m, n, h)
<1>0. IsFiniteSet(S)
  BY FS_Interval
<1>1. Rec(S, base, p, q, m, n, g)
  BY <1>0, Exists
<1>2. Iter(S, base, p, q, m, n) = g[S]
  BY DEF Iter, Rec
<1> HIDE DEF g
<1> DEFINE Bad == {1..k : k \in {j \in 0..len : ~Inv(1..j, g[1..j], z)}}
<1> SUFFICES ASSUME Bad # {} PROVE FALSE
  BY <1>2
<1>3. PICK s \in Bad : \A y \in Bad : y \subseteq s => y = s
  <2>1. Bad \in SUBSET (SUBSET S)
    OBVIOUS
  <2> HIDE DEF Bad, S
  <2> QED
    BY <2>1, <1>0, Minimal
<1>4. PICK k \in 0..len : s = 1..k /\ ~Inv(1..k, g[1..k], z)
  OBVIOUS
<1>5. k # 0
  <2>1. g[{}] = base
    BY <1>1 DEF Rec
  <2> QED BY <2>1, <1>4
<1>6. /\ (1..k) \ {k} = 1..(k - 1) /\ k - 1 \in 0..len /\ k \in 1..len
      /\ 1..(k - 1) \subseteq s /\ 1..(k - 1) # s
  BY <1>4, <1>5
<1>7. g[1..k] = op(k, g[1..(k - 1)], p, q, m, n)
  <2>1. 1..k \in SUBSET S /\ 1..k # {} /\ pick(1..k) = k
    <3>1. \A i \in 1..k : i \in S
      BY <1>6
    <3>2. k \in 1..k
      BY <1>6
    <3> QED BY <3>1, <3>2, <1>6
  <2> HIDE DEF S
  <2> QED BY <1>1, <1>6, <2>1 DEF Rec
<1>8. Inv(1..(k - 1), g[1..(k - 1)], z)
  BY <1>3, <1>6
<1> QED
  BY <1>4, <1>6, <1>7, <1>8

\* Steps that are numbered from 1, each of the result of the one before.
Steps(len, base, p, q, m, n) ==
    LET c[k \in 0..len] == IF k = 0 THEN base ELSE op(k, c[k-1], p, q, m, n)
    IN c[len]

Taken(len, base, p, q, m, n, c) ==
    c = [k \in 0..len |-> IF k = 0 THEN base ELSE op(k, c[k-1], p, q, m, n)]

\* A fold over indices that are taken in their order is such steps.
LEMMA InOrder ==
    ASSUME NEW len \in Nat, NEW base, NEW p, NEW q, NEW m, NEW n,
           Picks(1..len), \A k \in 1..len : pick(1..k) = k
    PROVE  \E c : Taken(len, base, p, q, m, n, c) /\ Iter(1..len, base, p, q, m, n) = c[len]
<1> DEFINE S == 1..len
           g == CHOOSE h : Rec(S, base, p, q, m, n, h)
           c == [k \in 0..len |-> g[1..k]]
<1>1. Rec(S, base, p, q, m, n, g)
  <2>1. IsFiniteSet(S)
    BY FS_Interval
  <2> QED BY <2>1, Exists
<1>2. Iter(S, base, p, q, m, n) = g[S]
  BY DEF Iter, Rec
<1> HIDE DEF g
<1>3. ASSUME NEW k \in 0..len
      PROVE  g[1..k] = IF k = 0 THEN base ELSE op(k, g[1..(k - 1)], p, q, m, n)
  <2>1. CASE k = 0
    <3>1. g[{}] = base
      BY <1>1 DEF Rec
    <3> QED BY <2>1, <3>1
  <2>2. CASE k # 0
    <3>1. (1..k) \ {k} = 1..(k - 1) /\ k \in 1..len
      BY <2>2
    <3>2. 1..k \in SUBSET S /\ 1..k # {} /\ pick(1..k) = k
      <4>1. \A i \in 1..k : i \in S
        BY <3>1
      <4>2. k \in 1..k
        BY <3>1
      <4> QED BY <4>1, <4>2, <3>1
    <3> HIDE DEF S
    <3> QED BY <1>1, <2>2, <3>1, <3>2 DEF Rec
  <2> QED BY <2>1, <2>2
<1>4. \A k \in 0..len : c[k] = IF k = 0 THEN base ELSE op(k, c[k-1], p, q, m, n)
  <2> TAKE k \in 0..len
  <2>1. k # 0 => k - 1 \in 0..len
    OBVIOUS
  <2> QED BY <1>3, <2>1
<1>5. c = [k \in 0..len |-> c[k]] /\ c[len] = g[S]
  OBVIOUS
<1> HIDE DEF c
<1>6. Taken(len, base, p, q, m, n, c)
  BY <1>4, <1>5 DEF Taken
<1> QED BY <1>2, <1>5, <1>6

\* A set of numbers up to n has a least one.
LEMMA Least ==
    ASSUME NEW n \in Nat, NEW S \in SUBSET (0..n), S # {}
    PROVE  \E c \in S : \A b \in S : c <= b
<1> DEFINE R == {n - k : k \in S}
<1>1. R \in SUBSET (0..n) /\ R # {}
  <2>1. \A k \in S : n - k \in 0..n
    OBVIOUS
  <2> QED BY <2>1
<1>2. PICK d \in R : \A b \in R : b <= d
  <2> HIDE DEF R
  <2> QED BY <1>1, Largest
<1>3. PICK c \in S : d = n - c
  OBVIOUS
<1>4. \A b \in S : c <= b
  <2> TAKE b \in S
  <2>1. n - b <= d
    BY <1>2
  <2> QED BY <2>1, <1>3
<1> QED BY <1>4

\* There are results of the steps.
LEMMA StepsExist ==
    ASSUME NEW len \in Nat, NEW base, NEW p, NEW q, NEW m, NEW n
    PROVE  \E c : Taken(len, base, p, q, m, n, c)
<1> DEFINE Bad == {k \in 0..len : ~\E c : Taken(k, base, p, q, m, n, c)}
<1> SUFFICES ASSUME Bad # {} PROVE FALSE
  OBVIOUS
<1>1. PICK k \in Bad : \A j \in Bad : k <= j
  <2>1. Bad \in SUBSET (0..len)
    OBVIOUS
  <2> HIDE DEF Bad
  <2> QED BY <2>1, Least
<1>2. CASE k = 0
  <2> DEFINE c == [j \in 0..0 |-> base]
  <2>1. c = [j \in 0..0 |-> IF j = 0 THEN base ELSE op(j, c[j-1], p, q, m, n)]
    OBVIOUS
  <2> HIDE DEF c
  <2>2. Taken(0, base, p, q, m, n, c)
    BY <2>1 DEF Taken
  <2> QED BY <2>2, <1>2
<1>3. CASE k # 0
  <2>1. k - 1 \in 0..len /\ k - 1 \notin Bad
    BY <1>1, <1>3
  <2>2. PICK c : Taken(k - 1, base, p, q, m, n, c)
    BY <2>1
  <2> DEFINE d == [j \in 0..k |-> IF j = k THEN op(k, c[k-1], p, q, m, n) ELSE c[j]]
  <2>3. \A j \in 0..k : d[j] = IF j = 0 THEN base ELSE op(j, d[j-1], p, q, m, n)
    <3> TAKE j \in 0..k
    <3>1. CASE j = k
      BY <3>1, <1>3
    <3>2. CASE j # k
      <4>1. c[j] = IF j = 0 THEN base ELSE op(j, c[j-1], p, q, m, n)
        BY <2>2, <3>2 DEF Taken
      <4>2. j # 0 => j - 1 \in 0..k /\ j - 1 # k
        BY <3>2
      <4> QED BY <4>1, <4>2, <3>2
    <3> QED BY <3>1, <3>2
  <2>4. d = [j \in 0..k |-> d[j]]
    OBVIOUS
  <2> HIDE DEF d
  <2>5. Taken(k, base, p, q, m, n, d)
    BY <2>3, <2>4 DEF Taken
  <2> QED BY <2>5
<1> QED
  BY <1>2, <1>3

\* What holds before the first step, and is kept by each, holds after the last;
\* Inv is of the number of steps.
LEMMA Stepped ==
    ASSUME NEW len \in Nat, NEW base, NEW p, NEW q, NEW m, NEW n, NEW z,
           Inv(0, base, z),
           \A k \in 1..len : \A r :
                Inv(k - 1, r, z) => Inv(k, op(k, r, p, q, m, n), z)
    PROVE  Inv(len, Steps(len, base, p, q, m, n), z)
<1> DEFINE c == CHOOSE d : Taken(len, base, p, q, m, n, d)
<1>1. Taken(len, base, p, q, m, n, c)
  BY StepsExist
<1>2. Steps(len, base, p, q, m, n) = c[len]
  BY DEF Steps, Taken
<1> HIDE DEF c
<1> DEFINE Bad == {k \in 0..len : ~Inv(k, c[k], z)}
<1> SUFFICES ASSUME Bad # {} PROVE FALSE
  BY <1>2
<1>3. PICK k \in Bad : \A j \in Bad : k <= j
  <2>1. Bad \in SUBSET (0..len)
    OBVIOUS
  <2> HIDE DEF Bad
  <2> QED BY <2>1, Least
<1>4. k # 0
  BY <1>1 DEF Taken
<1>5. c[k] = op(k, c[k-1], p, q, m, n)
  BY <1>1, <1>4 DEF Taken
<1>6. Inv(k - 1, c[k-1], z)
  BY <1>3, <1>4
<1> QED
  BY <1>4, <1>5, <1>6
=============================================================================
