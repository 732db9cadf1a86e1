------------------------ MODULE DataSmartOps_proofs ------------------------
(***************************************************************************)
(* What the operations of DataSmart do to a metadata store, proved: what   *)
(* the store answers afterwards, and that no other store and no list that  *)
(* another store holds has changed.                                        *)
(***************************************************************************)
EXTENDS DataSmart, FiniteSetTheorems, TLAPS

\* Waiting, as a fold of the indices of the items.
lastOf(indices) == Max(indices)

keepOp(i, kept, items, q, m, n) ==
    IF waits(items[i]) THEN Append(kept, items[i]) ELSE kept

keepInv(indices, kept, set) == kept \in Seq(set)

F == INSTANCE Folding WITH op <- keepOp, pick <- lastOf, Inv <- keepInv

\* The bases of a store are among those made before it.
Linked ==
    /\ sources \in [Store -> SUBSET Store]
    /\ \A d \in Store : d \in sources[d] /\ sources[d] \subseteq 1..d

\* What a variable's list of pending texts holds.
Pending(v) == Seq(Item(v)) \ {<<>>}

\* The values are of their types, and each list that is held has something
\* pending.
GoodDict(s) ==
    /\ s.dict = [d \in Store |-> [v \in Var |-> s.dict[d][v]]]
    /\ \A d \in Store, v \in Var : s.dict[d][v] # Absent => s.dict[d][v] \in Dict(v)

GoodLists(s) ==
    /\ s.lists = [l \in List |-> s.lists[l]]
    /\ \A d \in Store, v \in Var, k \in Keyword :
            s.dict[d][v] # Absent /\ s.dict[d][v][k] # Unset
                => s.lists[s.dict[d][v][k]] \in Pending(v)

\* A variable is registered under its own override only.
GoodSeen(s) ==
    /\ s.seen = [d \in Store |-> [o \in Override |-> s.seen[d][o]]]
    /\ \A d \in Store, o \in Override : s.seen[d][o] # Absent
            => s.seen[d][o] \subseteq {v \in Var : OverrideOf[v] = o}

GoodSpecial(s) ==
    s.special \in [Store -> [Keyword -> {Absent} \cup SUBSET Var]]

Good(s) ==
    /\ s = [dict |-> s.dict, seen |-> s.seen, special |-> s.special,
            cache |-> s.cache, lists |-> s.lists]
    /\ GoodDict(s) /\ GoodLists(s) /\ GoodSeen(s) /\ GoodSpecial(s)
    /\ s.cache = [d \in Store |-> s.cache[d]]
\* A member added to a sequence, at its end or at its start, and one sequence
\* after another.
LEMMA AppendIn ==
    ASSUME NEW set, NEW seq \in Seq(set), NEW x \in set
    PROVE  Append(seq, x) \in Seq(set) \ {<<>>} /\ <<x>> \o seq \in Seq(set) \ {<<>>}
<1>1. Append(seq, x) \in Seq(set)
  OBVIOUS
<1>2. <<x>> \o seq \in Seq(set)
  OBVIOUS
<1>3. Append(seq, x) # <<>>
  <2>1. Len(Append(seq, x)) = Len(seq) + 1 /\ Len(seq) \in Nat
    OBVIOUS
  <2> QED BY <2>1
<1>4. <<x>> \o seq # <<>>
  <2>1. Len(<<x>> \o seq) = Len(seq) + 1 /\ Len(seq) \in Nat
    OBVIOUS
  <2> QED BY <2>1
<1> QED BY <1>1, <1>2, <1>3, <1>4

\* What the longer sequence has at each place.
LEMMA AppendElements ==
    ASSUME NEW set, NEW seq \in Seq(set), NEW x \in set
    PROVE  /\ seq \o <<x>> \in Seq(set) /\ Len(seq \o <<x>>) = Len(seq) + 1
           /\ (seq \o <<x>>)[Len(seq) + 1] = x
           /\ \A i \in 1..Len(seq) : (seq \o <<x>>)[i] = seq[i]
<1>1. seq \o <<x>> \in Seq(set) /\ Len(seq \o <<x>>) = Len(seq) + 1
  OBVIOUS
<1>2. (seq \o <<x>>)[Len(seq) + 1] = x
  OBVIOUS
<1>3. \A i \in 1..Len(seq) : (seq \o <<x>>)[i] = seq[i]
  OBVIOUS
<1> QED BY <1>1, <1>2, <1>3

\* A sequence of few is one of more.
LEMMA SeqMore ==
    ASSUME NEW set, NEW few \in SUBSET set, NEW seq \in Seq(few) PROVE seq \in Seq(set)
OBVIOUS

\* One sequence after another, of which the members are fewer.
LEMMA ConcatIn ==
    ASSUME NEW set, NEW few \in SUBSET set, NEW seq \in Seq(set), NEW last \in Seq(few)
    PROVE  seq \o last \in Seq(set) /\ (last # <<>> => seq \o last # <<>>)
OBVIOUS
-----------------------------------------------------------------------------
(* Looking up                                                              *)

\* Holder gives the greatest base with the key, if there is one.
Finds(own, d, key, h) ==
    \/ /\ h \in sources[d] /\ own[h][key] # Absent
       /\ \A c \in sources[d] : own[c][key] # Absent => c <= h
    \/ h = 0 /\ \A c \in sources[d] : own[c][key] = Absent

\* What COWDictMeta looks up is what Finds says, and nothing else is.
LEMMA HolderFinds ==
    ASSUME Linked, NEW d \in Store, NEW own, NEW key
    PROVE  /\ Finds(own, d, key, Holder(own, sources, d, key))
           /\ \A h : Finds(own, d, key, h) => h = Holder(own, sources, d, key)
<1> DEFINE holders == {c \in sources[d] : own[c][key] # Absent}
<1>1. d \in Nat /\ holders \in SUBSET (0..d) /\ 0 \notin holders /\ sources[d] \subseteq Nat
  BY DEF Linked, Store
<1>2. Holder(own, sources, d, key)
        = IF holders = {} THEN 0 ELSE CHOOSE c \in holders : \A b \in holders : b <= c
  BY DEF Holder
<1>3. CASE holders = {}
  BY <1>1, <1>2, <1>3 DEF Finds
<1>4. CASE holders # {}
  <2>1. \E c \in holders : \A b \in holders : b <= c
    <3> HIDE DEF holders
    <3> QED BY <1>1, <1>4, F!Largest
  <2> DEFINE h == Holder(own, sources, d, key)
  <2>2. h \in holders /\ \A b \in holders : b <= h
    <3> HIDE DEF holders
    <3> QED BY <1>2, <1>4, <2>1
  <2>3. Finds(own, d, key, h)
    BY <2>2 DEF Finds
  <2>4. ASSUME NEW i, Finds(own, d, key, i) PROVE i = h
    <3>1. i \in holders /\ \A b \in holders : b <= i
      BY <2>4, <1>4 DEF Finds
    <3> HIDE DEF h, holders
    <3> QED BY <3>1, <2>2, <1>1
  <2> QED BY <2>3, <2>4
<1> QED BY <1>3, <1>4

\* A key that the store itself has.
LEMMA HolderOwn ==
    ASSUME Linked, NEW d \in Store, NEW own, NEW key, own[d][key] # Absent
    PROVE  Holder(own, sources, d, key) = d
<1>1. Finds(own, d, key, d)
  BY DEF Linked, Finds, Store
<1> QED BY <1>1, HolderFinds

\* A key of which no base has changed.
LEMMA HolderSame ==
    ASSUME Linked, NEW d \in Store, NEW own, NEW after, NEW key,
           \A c \in sources[d] : after[c][key] = own[c][key]
    PROVE  /\ Holder(after, sources, d, key) = Holder(own, sources, d, key)
           /\ Holder(own, sources, d, key) # 0 =>
                    getreadonly(after, sources, d, key) = getreadonly(own, sources, d, key)
<1> DEFINE h == Holder(own, sources, d, key)
<1>1. Finds(own, d, key, h)
  BY HolderFinds
<1>2. Finds(after, d, key, h)
  BY <1>1 DEF Finds
<1>3. Holder(after, sources, d, key) = h
  BY <1>2, HolderFinds
<1>4. h # 0 => h \in sources[d]
  BY <1>1 DEF Finds
<1> QED BY <1>3, <1>4 DEF getreadonly

\* findVar and Registered: of a variable or key that the store itself has, and of
\* one of which no base has changed.
LEMMA FindOwn ==
    ASSUME Linked, NEW d \in Store, NEW s, NEW v, s.dict[d][v] # Absent
    PROVE  findVar(s, d, v) = s.dict[d][v]
<1>1. d # 0
  BY DEF Store
<1> QED BY <1>1, HolderOwn DEF findVar, getreadonly

\* findVar, of a variable of which no base has changed.
LEMMA FindSame ==
    ASSUME Linked, NEW d \in Store, NEW s, NEW t, NEW v,
           \A c \in sources[d] : t.dict[c][v] = s.dict[c][v]
    PROVE  findVar(t, d, v) = findVar(s, d, v)
BY HolderSame DEF findVar

\* Registered, of a key that the store itself has.
LEMMA RegisteredOwn ==
    ASSUME Linked, NEW d \in Store, NEW own, NEW key, own[d][key] # Absent
    PROVE  Registered(own, d, key) = own[d][key]
<1>1. d # 0
  BY DEF Store
<1> QED BY <1>1, HolderOwn DEF Registered, has_key, getreadonly

\* Registered, of a key of which no base has changed.
LEMMA RegisteredSame ==
    ASSUME Linked, NEW d \in Store, NEW own, NEW after, NEW key,
           \A c \in sources[d] : after[c][key] = own[c][key]
    PROVE  Registered(after, d, key) = Registered(own, d, key)
BY HolderSame DEF Registered, has_key

\* What is found is of its type, and its lists are held.
LEMMA FindIn ==
    ASSUME Linked, NEW d \in Store, NEW s, Good(s), NEW v \in Var
    PROVE  /\ findVar(s, d, v) \in Dict(v)
           /\ \A k \in Keyword : findVar(s, d, v)[k] # Unset =>
                /\ findVar(s, d, v)[k] \in List \cap Held(s)
                /\ s.lists[findVar(s, d, v)[k]] \in Pending(v)
<1> DEFINE h == Holder(s.dict, sources, d, v)
<1>1. CASE h = 0
  <2>1. findVar(s, d, v) = Empty
    BY <1>1 DEF findVar
  <2> QED BY <2>1 DEF Empty, Dict, Flag, Keyword, Value
<1>2. CASE h # 0
  <2>1. h \in Store /\ s.dict[h][v] # Absent
    BY <1>2, HolderFinds DEF Finds, Linked
  <2>2. findVar(s, d, v) = s.dict[h][v]
    BY <1>2 DEF findVar, getreadonly
  <2>3. s.dict[h][v] \in Dict(v)
    BY <2>1 DEF Good, GoodDict
  <2>4. ASSUME NEW k \in Keyword, s.dict[h][v][k] # Unset
        PROVE  /\ s.dict[h][v][k] \in List \cap Held(s)
               /\ s.lists[s.dict[h][v][k]] \in Pending(v)
    <3>1. s.dict[h][v][k] \in List
      BY <2>3, <2>4 DEF Dict, Keyword
    <3>2. s.lists[s.dict[h][v][k]] \in Pending(v)
      BY <2>1, <2>4 DEF Good, GoodLists
    <3> DEFINE p == <<h, v, k>>
    <3>3. p \in {q \in Place : s.dict[q[1]][q[2]] # Absent}
      BY <2>1 DEF Place
    <3>4. s.dict[p[1]][p[2]][p[3]] \in Held(s)
      <4> HIDE DEF p
      <4>1. s.dict[p[1]][p[2]][p[3]] # Unset
        BY <2>4 DEF p
      <4> QED BY <3>3, <4>1 DEF Held
    <3> QED BY <3>1, <3>2, <3>4
  <2> QED BY <2>2, <2>3, <2>4
<1> QED BY <1>1, <1>2

\* What is registered are variables of that override, or with that keyword.
LEMMA RegisteredIn ==
    ASSUME Linked, NEW d \in Store, NEW s, Good(s)
    PROVE  /\ \A o \in Override : Registered(s.seen, d, o) \subseteq {v \in Var : OverrideOf[v] = o}
           /\ \A k \in Keyword : Registered(s.special, d, k) \subseteq Var
<1>1. ASSUME NEW o \in Override
      PROVE  Registered(s.seen, d, o) \subseteq {v \in Var : OverrideOf[v] = o}
  <2> DEFINE h == Holder(s.seen, sources, d, o)
  <2>1. h # 0 => h \in Store /\ s.seen[h][o] # Absent
    <3>1. Finds(s.seen, d, o, h)
      BY HolderFinds
    <3> QED BY <3>1 DEF Finds, Linked
  <2> QED BY <2>1 DEF Registered, has_key, getreadonly, Good, GoodSeen
<1>2. ASSUME NEW k \in Keyword PROVE Registered(s.special, d, k) \subseteq Var
  <2> DEFINE h == Holder(s.special, sources, d, k)
  <2>1. h # 0 => h \in Store /\ s.special[h][k] # Absent
    <3>1. Finds(s.special, d, k, h)
      BY HolderFinds
    <3> QED BY <3>1 DEF Finds, Linked
  <2> QED BY <2>1 DEF Registered, has_key, getreadonly, Good, GoodSpecial
<1> QED BY <1>1, <1>2
-----------------------------------------------------------------------------
(* Writing                                                                 *)

\* Only rows of store d have changed, and no list that another store holds.
Elsewhere(s, t, d) ==
    /\ \A e \in Store \ {d} : /\ t.dict[e] = s.dict[e] /\ t.seen[e] = s.seen[e]
                              /\ t.special[e] = s.special[e] /\ t.cache[e] = s.cache[e]
    /\ \A e \in Store \ {d}, v \in Var, k \in Keyword :
            s.dict[e][v] # Absent /\ s.dict[e][v][k] # Unset
                => t.lists[s.dict[e][v][k]] = s.lists[s.dict[e][v][k]]

\* Store d answers the same for a variable, and for all overrides or keywords.
SameVar(s, t, d, v) ==
    /\ findVar(t, d, v)["content"] = findVar(s, d, v)["content"]
    /\ findVar(t, d, v)["defaultval"] = findVar(s, d, v)["defaultval"]
    /\ \A k \in Keyword : pending(t, d, v, k) = pending(s, d, v, k)

SameSeen(s, t, d) ==
    \A o \in Override : Registered(t.seen, d, o) = Registered(s.seen, d, o)

SameSpecial(s, t, d) ==
    \A k \in Keyword : Registered(t.special, d, k) = Registered(s.special, d, k)

\* What two operations on a store one after the other leave alone.
LEMMA ElsewhereAgain ==
    ASSUME NEW d, NEW s, NEW t, NEW u, Elsewhere(s, t, d), Elsewhere(t, u, d)
    PROVE  Elsewhere(s, u, d)
BY DEF Elsewhere

\* Where nothing is done, nothing elsewhere changes.
LEMMA ElsewhereSame == \A d, s : Elsewhere(s, s, d)
BY DEF Elsewhere

\* Answers that stay the same twice are the same.
LEMMA SameAgain ==
    ASSUME NEW d, NEW s, NEW t, NEW u
    PROVE  /\ \A v : SameVar(s, t, d, v) /\ SameVar(t, u, d, v) => SameVar(s, u, d, v)
           /\ SameSeen(s, t, d) /\ SameSeen(t, u, d) => SameSeen(s, u, d)
           /\ SameSpecial(s, t, d) /\ SameSpecial(t, u, d) => SameSpecial(s, u, d)
BY DEF SameVar, SameSeen, SameSpecial

\* A variable of store d gets the dictionary f.
Writes(s, t, d, v, f) ==
    /\ t = [dict |-> [s.dict EXCEPT ![d][v] = f], seen |-> s.seen,
            special |-> s.special, cache |-> t.cache, lists |-> t.lists]
    /\ t.cache = s.cache \/ t.cache = [s.cache EXCEPT ![d] = NoCache]
    /\ t.lists = [l \in List |-> t.lists[l]]
    /\ \A l \in Held(s) : t.lists[l] = s.lists[l]
    /\ f \in Dict(v)
    /\ \A k \in Keyword : f[k] # Unset => t.lists[f[k]] \in Pending(v)

\* A list in a variable's dictionary is held.
LEMMA HeldIs ==
    ASSUME NEW s, NEW d \in Store, NEW v \in Var, NEW k \in Keyword,
           s.dict[d][v] # Absent, s.dict[d][v][k] # Unset
    PROVE  s.dict[d][v][k] \in Held(s)
<1> DEFINE p == <<d, v, k>>
<1>1. p \in {q \in Place : s.dict[q[1]][q[2]] # Absent}
  BY DEF Place
<1>2. s.dict[p[1]][p[2]][p[3]] # Unset /\ s.dict[p[1]][p[2]][p[3]] = s.dict[d][v][k]
  OBVIOUS
<1> HIDE DEF p
<1> QED BY <1>1, <1>2 DEF Held

\* After a dictionary is written: the store answers so for that variable, and as
\* before for all else.
LEMMA Written ==
    ASSUME Linked, NEW d \in Store, NEW s, Good(s), NEW v \in Var, NEW f, NEW t,
           Writes(s, t, d, v, f)
    PROVE  /\ Good(t) /\ Elsewhere(s, t, d)
           /\ findVar(t, d, v) = f
           /\ \A w \in Var \ {v} : SameVar(s, t, d, w)
           /\ SameSeen(s, t, d) /\ SameSpecial(s, t, d)
           /\ t.cache[d] \in {s.cache[d], NoCache}
<1>1. /\ \A e \in Store, w \in Var :
            t.dict[e][w] = IF e = d /\ w = v THEN f ELSE s.dict[e][w]
      /\ t.dict = [e \in Store |-> [w \in Var |-> t.dict[e][w]]]
      /\ \A e \in Store \ {d} : t.dict[e] = s.dict[e]
  <2> DEFINE row == s.dict
             new == t.dict
  <2>1. row = [e \in Store |-> [w \in Var |-> row[e][w]]]
    BY DEF Good, GoodDict
  <2>2. new = [row EXCEPT ![d][v] = f]
    BY DEF Writes
  <2> HIDE DEF row, new
  <2>3. \A e \in Store : DOMAIN row[e] = Var /\ row[e] = [w \in Var |-> row[e][w]]
    BY <2>1
  <2>4. new = [e \in Store |-> IF e = d THEN [row[d] EXCEPT ![v] = f] ELSE row[e]]
    BY <2>1, <2>2
  <2>5. \A e \in Store, w \in Var :
            new[e][w] = IF e = d /\ w = v THEN f ELSE row[e][w]
    BY <2>3, <2>4
  <2>6. \A e \in Store : new[e] = [w \in Var |-> new[e][w]]
    BY <2>3, <2>4
  <2>7. new = [e \in Store |-> [w \in Var |-> new[e][w]]]
    BY <2>4, <2>6
  <2> USE DEF row, new
  <2> QED BY <2>4, <2>5, <2>7
<1>2. t.seen = s.seen /\ t.special = s.special
  BY DEF Writes
<1>3. /\ t.cache = [e \in Store |-> t.cache[e]] /\ t.cache[d] \in {s.cache[d], NoCache}
      /\ \A e \in Store \ {d} : t.cache[e] = s.cache[e]
  BY DEF Good, Writes
<1>4. \A e \in Store, w \in Var, k \in Keyword :
            s.dict[e][w] # Absent /\ s.dict[e][w][k] # Unset
                => t.lists[s.dict[e][w][k]] = s.lists[s.dict[e][w][k]]
  BY HeldIs DEF Writes
<1>5. Absent # f
  BY ValueAssumption DEF Writes
<1>6. GoodDict(t)
  BY <1>1 DEF Good, GoodDict, Writes
<1>7. GoodLists(t)
  <2>1. ASSUME NEW e \in Store, NEW w \in Var, NEW k \in Keyword,
               t.dict[e][w] # Absent, t.dict[e][w][k] # Unset
        PROVE  t.lists[t.dict[e][w][k]] \in Pending(w)
    <3>1. CASE e = d /\ w = v
      BY <3>1, <2>1, <1>1 DEF Writes
    <3>2. CASE ~(e = d /\ w = v)
      <4>1. t.dict[e][w] = s.dict[e][w]
        BY <3>2, <1>1
      <4>2. s.lists[s.dict[e][w][k]] \in Pending(w)
        BY <4>1, <2>1 DEF Good, GoodLists
      <4> QED BY <4>1, <4>2, <2>1, <1>4
    <3> QED BY <3>1, <3>2
  <2> QED BY <2>1 DEF GoodLists, Writes
<1>8. Good(t)
  <2>1. t = [dict |-> t.dict, seen |-> t.seen, special |-> t.special,
             cache |-> t.cache, lists |-> t.lists]
    BY DEF Writes
  <2> QED BY <2>1, <1>2, <1>3, <1>6, <1>7 DEF Good, GoodSeen, GoodSpecial
<1>9. Elsewhere(s, t, d)
  BY <1>1, <1>2, <1>3, <1>4 DEF Elsewhere
<1>10. findVar(t, d, v) = f
  BY <1>1, <1>5, FindOwn
<1>11. ASSUME NEW w \in Var \ {v} PROVE SameVar(s, t, d, w)
  <2>1. findVar(t, d, w) = findVar(s, d, w)
    <3>1. \A c \in sources[d] : t.dict[c][w] = s.dict[c][w]
      BY <1>1 DEF Linked
    <3> QED BY <3>1, FindSame
  <2>2. ASSUME NEW k \in Keyword PROVE pending(t, d, w, k) = pending(s, d, w, k)
    <3>1. CASE findVar(s, d, w)[k] = Unset
      BY <2>1, <3>1 DEF pending
    <3>2. CASE findVar(s, d, w)[k] # Unset
      <4>1. findVar(s, d, w)[k] \in Held(s)
        BY <3>2, FindIn
      <4> QED BY <2>1, <3>2, <4>1 DEF pending, Writes
    <3> QED BY <3>1, <3>2
  <2> QED BY <2>1, <2>2 DEF SameVar
<1> QED
  BY <1>2, <1>3, <1>8, <1>9, <1>10, <1>11 DEF SameSeen, SameSpecial

\* There is a list that no variable holds.
LEMMA PlaceFinite == IsFiniteSet(Place)
<1> DEFINE T == (Store \X Var) \X Keyword
           f == [p \in T |-> <<p[1][1], p[1][2], p[2]>>]
<1>1. IsFiniteSet(Store) /\ IsFiniteSet(Var) /\ IsFiniteSet(Keyword)
  <2>1. IsFiniteSet(Store)
    BY FS_Interval, DataAssumption DEF Store
  <2>2. IsFiniteSet(Keyword)
    <3>1. Keyword = {"_append"} \cup {"_prepend"}
      BY DEF Keyword
    <3> QED BY <3>1, FS_Singleton, FS_Union
  <2> QED BY <2>1, <2>2, DataAssumption
<1>2. IsFiniteSet(Store \X Var)
  BY <1>1, FS_Product
<1>3. IsFiniteSet(T)
  <2> DEFINE A == Store \X Var
  <2>1. IsFiniteSet(A)
    BY <1>2
  <2> HIDE DEF A
  <2>2. IsFiniteSet(A \X Keyword)
    BY <1>1, <2>1, FS_Product
  <2> QED BY <2>2 DEF A
<1>4. f \in Surjection(T, Place)
  <2>1. f \in [T -> Place]
    BY DEF Place
  <2>2. ASSUME NEW q \in Place PROVE \E p \in T : f[p] = q
    <3>1. PICK a \in Store, b \in Var, c \in Keyword : q = <<a, b, c>>
      BY <2>2 DEF Place
    <3>2. <<<<a, b>>, c>> \in T /\ f[<<<<a, b>>, c>>] = q
      BY <3>1
    <3> QED BY <3>2
  <2> HIDE DEF f, T
  <2> QED BY <2>1, <2>2 DEF Surjection
<1> HIDE DEF T, f
<1> QED BY <1>3, <1>4, FS_Surjection

\* There is always a list that no variable holds.
LEMMA FreshList == \A s : List \ Held(s) # {}
<1> TAKE s
<1> DEFINE Q == {q \in Place : s.dict[q[1]][q[2]] # Absent}
           T == {s.dict[p[1]][p[2]][p[3]] : p \in Q}
           f == [p \in Q |-> s.dict[p[1]][p[2]][p[3]]]
<1>1. Held(s) \subseteq T
  BY DEF Held
<1>2. f \in Surjection(Q, T)
  BY DEF Surjection
<1>3. IsFiniteSet(Q) /\ Cardinality(Q) <= Cardinality(Place)
  <2>1. Q \in SUBSET Place
    OBVIOUS
  <2> HIDE DEF Q
  <2> QED BY <2>1, PlaceFinite, FS_Subset
<1>4. IsFiniteSet(T) /\ Cardinality(T) <= Cardinality(Q)
  <2> HIDE DEF Q, T, f
  <2> QED BY <1>2, <1>3, FS_Surjection
<1>5. Cardinality(Place) \in Nat /\ Cardinality(Q) \in Nat /\ Cardinality(T) \in Nat
  <2> HIDE DEF Q, T
  <2> QED BY <1>3, <1>4, PlaceFinite, FS_CardinalityType
<1>6. Cardinality(List) = 1 + Cardinality(Place)
  <2> DEFINE n == 1 + Cardinality(Place)
  <2>1. n \in Nat /\ List = 1..n
    BY <1>5 DEF List
  <2> HIDE DEF n
  <2>2. Cardinality(1..n) = n
    BY <2>1, FS_Interval
  <2> QED BY <2>1, <2>2 DEF n
<1> SUFFICES ASSUME List \subseteq T PROVE FALSE
  BY <1>1
<1>7. Cardinality(List) <= Cardinality(T)
  <2> HIDE DEF T
  <2> QED BY <1>4, FS_Subset
<1> HIDE DEF Q, T
<1> QED BY <1>3, <1>4, <1>5, <1>6, <1>7

\* A flag is set in a dictionary of the store's own.
LEMMA FlagSet ==
    ASSUME Linked, NEW d \in Store, NEW s, Good(s), NEW v \in Var, NEW flag, NEW value
    PROVE  LET t == setVarFlag(s, d, v, flag, value)
           IN /\ t = [dict |-> [s.dict EXCEPT ![d][v] = [findVar(s, d, v) EXCEPT ![flag] = value]],
                      seen |-> s.seen, special |-> s.special, cache |-> t.cache,
                      lists |-> s.lists]
              /\ t.cache = s.cache \/ t.cache = [s.cache EXCEPT ![d] = NoCache]
<1> DEFINE f == findVar(s, d, v)
           m == makeShadowCopy(s, d, v)
           t == setVarFlag(s, d, v, flag, value)
<1>1. s = [dict |-> s.dict, seen |-> s.seen, special |-> s.special,
           cache |-> s.cache, lists |-> s.lists]
  BY DEF Good
<1>2. /\ m = [dict |-> [s.dict EXCEPT ![d][v] = f], seen |-> s.seen,
              special |-> s.special, cache |-> m.cache, lists |-> s.lists]
      /\ m.cache = s.cache \/ m.cache = [s.cache EXCEPT ![d] = NoCache]
  <2>1. CASE s.dict[d][v] # Absent
    <3>1. f = s.dict[d][v]
      BY <2>1, FindOwn
    <3>2. m = s
      BY <2>1 DEF makeShadowCopy
    <3>3. [s.dict EXCEPT ![d][v] = f] = s.dict
      <4>1. s.dict = [e \in Store |-> [w \in Var |-> s.dict[e][w]]]
        BY DEF Good, GoodDict
      <4> HIDE DEF f
      <4> QED BY <4>1, <3>1
    <3> QED BY <3>2, <3>3, <1>1
  <2>2. CASE s.dict[d][v] = Absent /\ f # Empty
    <3>1. m = [s EXCEPT !.dict[d][v] = f]
      BY <2>2 DEF makeShadowCopy
    <3> HIDE DEF f, m
    <3> QED BY <3>1, <1>1
  <2>3. CASE s.dict[d][v] = Absent /\ f = Empty
    <3>1. m = [Uncached(s, d) EXCEPT !.dict[d][v] = f]
      BY <2>3 DEF makeShadowCopy
    <3>2. m = [[s EXCEPT !.cache[d] = NoCache] EXCEPT !.dict[d][v] = f]
      BY <3>1 DEF Uncached
    <3> HIDE DEF f, m
    <3> QED BY <3>2, <1>1
  <2> QED BY <2>1, <2>2, <2>3
<1>3. t = [m EXCEPT !.dict[d][v][flag] = value]
  BY DEF setVarFlag
<1>4. [[s.dict EXCEPT ![d][v] = f] EXCEPT ![d][v][flag] = value]
        = [s.dict EXCEPT ![d][v] = [f EXCEPT ![flag] = value]]
  <2>1. s.dict = [e \in Store |-> [w \in Var |-> s.dict[e][w]]]
    BY DEF Good, GoodDict
  <2> HIDE DEF f
  <2> QED BY <2>1
<1> HIDE DEF f, m, t
<1>5. t.dict = [m.dict EXCEPT ![d][v][flag] = value]
  BY <1>2, <1>3
<1> QED BY <1>2, <1>3, <1>4, <1>5 DEF f, t

\* The names registered under an override, or with a keyword, are set.
WithSeen(s, d, o, vs) == [s EXCEPT !.seen = Changed(@, sources, d, o, vs)]

WithSpecial(s, d, k, vs) == [s EXCEPT !.special = Changed(@, sources, d, k, vs)]

\* After a write of _seen_overrides[o]: only what is registered with o changes.
LEMMA SeenWritten ==
    ASSUME Linked, NEW d \in Store, NEW s, Good(s), NEW o \in Override,
           NEW vs \in SUBSET {v \in Var : OverrideOf[v] = o}
    PROVE  LET t == WithSeen(s, d, o, vs)
           IN /\ Good(t) /\ Elsewhere(s, t, d) /\ t.cache = s.cache
              /\ \A v \in Var : SameVar(s, t, d, v)
              /\ \A q \in Override : Registered(t.seen, d, q)
                                       = IF q = o THEN vs ELSE Registered(s.seen, d, q)
              /\ SameSpecial(s, t, d)
<1> DEFINE t == WithSeen(s, d, o, vs)
<1>1. /\ t = [dict |-> s.dict, seen |-> [s.seen EXCEPT ![d][o] = vs],
              special |-> s.special, cache |-> s.cache, lists |-> s.lists]
  BY DEF Good, Changed, WithSeen
<1> HIDE DEF t
<1> DEFINE row == s.seen
           new == t.seen
<1>2. row = [e \in Store |-> [q \in Override |-> row[e][q]]]
  BY DEF Good, GoodSeen
<1>3. new = [row EXCEPT ![d][o] = vs]
  BY <1>1
<1>4. /\ new = [e \in Store |-> [q \in Override |-> new[e][q]]]
      /\ \A e \in Store, q \in Override :
            new[e][q] = IF e = d /\ q = o THEN vs ELSE row[e][q]
      /\ \A e \in Store \ {d} : new[e] = row[e]
  <2> HIDE DEF row, new
  <2>1. \A e \in Store : DOMAIN row[e] = Override /\ row[e] = [q \in Override |-> row[e][q]]
    BY <1>2
  <2>2. new = [e \in Store |-> IF e = d THEN [row[d] EXCEPT ![o] = vs] ELSE row[e]]
    BY <1>2, <1>3
  <2>3. \A e \in Store : new[e] = [q \in Override |-> new[e][q]]
    BY <2>1, <2>2
  <2> QED BY <2>1, <2>2, <2>3
<1>5. GoodSeen(t)
  <2>1. ASSUME NEW e \in Store, NEW q \in Override, new[e][q] # Absent
        PROVE  new[e][q] \subseteq {v \in Var : OverrideOf[v] = q}
    <3>1. row[e][q] # Absent => row[e][q] \subseteq {v \in Var : OverrideOf[v] = q}
      BY DEF Good, GoodSeen
    <3> HIDE DEF row, new
    <3> QED BY <2>1, <3>1, <1>4
  <2> QED BY <1>4, <2>1 DEF GoodSeen
<1>6. t.dict = s.dict /\ t.special = s.special /\ t.cache = s.cache /\ t.lists = s.lists
  BY <1>1
<1>7. Good(t)
  <2>1. t = [dict |-> t.dict, seen |-> t.seen, special |-> t.special,
             cache |-> t.cache, lists |-> t.lists]
    BY <1>1
  <2> QED BY <2>1, <1>5, <1>6 DEF Good, GoodDict, GoodLists, GoodSpecial
<1>8. Elsewhere(s, t, d)
  BY <1>4, <1>6 DEF Elsewhere
<1>9. ASSUME NEW v \in Var PROVE SameVar(s, t, d, v)
  <2>1. findVar(t, d, v) = findVar(s, d, v)
    <3>1. \A c \in sources[d] : t.dict[c][v] = s.dict[c][v]
      BY <1>6
    <3> QED BY <3>1, FindSame
  <2> QED BY <2>1, <1>6 DEF SameVar, pending
<1>10. ASSUME NEW q \in Override
       PROVE  Registered(t.seen, d, q) = IF q = o THEN vs ELSE Registered(s.seen, d, q)
  <2>1. CASE q = o
    <3>1. t.seen[d][q] = vs /\ vs # Absent
      BY <1>4, <2>1, ValueAssumption
    <3> QED BY <3>1, <2>1, RegisteredOwn
  <2>2. CASE q # o
    <3>1. \A c \in sources[d] : t.seen[c][q] = s.seen[c][q]
      BY <1>4, <2>2 DEF Linked
    <3> QED BY <3>1, <2>2, RegisteredSame
  <2> QED BY <2>1, <2>2
<1> QED BY <1>6, <1>7, <1>8, <1>9, <1>10 DEF SameSpecial, t

\* After a write of _special_values[k]: only what is registered with k changes.
LEMMA SpecialWritten ==
    ASSUME Linked, NEW d \in Store, NEW s, Good(s), NEW k \in Keyword,
           NEW vs \in SUBSET Var
    PROVE  LET t == WithSpecial(s, d, k, vs)
           IN /\ Good(t) /\ Elsewhere(s, t, d) /\ t.cache = s.cache
              /\ \A v \in Var : SameVar(s, t, d, v)
              /\ \A q \in Keyword : Registered(t.special, d, q)
                                       = IF q = k THEN vs ELSE Registered(s.special, d, q)
              /\ SameSeen(s, t, d)
<1> DEFINE t == WithSpecial(s, d, k, vs)
<1>1. /\ t = [dict |-> s.dict, seen |-> s.seen,
              special |-> [s.special EXCEPT ![d][k] = vs],
              cache |-> s.cache, lists |-> s.lists]
  BY DEF Good, Changed, WithSpecial
<1> HIDE DEF t
<1> DEFINE row == s.special
           new == t.special
<1>2. row \in [Store -> [Keyword -> {Absent} \cup SUBSET Var]]
  BY DEF Good, GoodSpecial
<1>3. new = [row EXCEPT ![d][k] = vs]
  BY <1>1
<1>4. /\ new \in [Store -> [Keyword -> {Absent} \cup SUBSET Var]]
      /\ \A e \in Store, q \in Keyword :
            new[e][q] = IF e = d /\ q = k THEN vs ELSE row[e][q]
      /\ \A e \in Store \ {d} : new[e] = row[e]
  <2> HIDE DEF row, new
  <2> QED BY <1>2, <1>3
<1>5. GoodSpecial(t)
  BY <1>4 DEF GoodSpecial
<1>6. t.dict = s.dict /\ t.seen = s.seen /\ t.cache = s.cache /\ t.lists = s.lists
  BY <1>1
<1>7. Good(t)
  <2>1. t = [dict |-> t.dict, seen |-> t.seen, special |-> t.special,
             cache |-> t.cache, lists |-> t.lists]
    BY <1>1
  <2> QED BY <2>1, <1>5, <1>6 DEF Good, GoodDict, GoodLists, GoodSeen
<1>8. Elsewhere(s, t, d)
  BY <1>4, <1>6 DEF Elsewhere
<1>9. ASSUME NEW v \in Var PROVE SameVar(s, t, d, v)
  <2>1. findVar(t, d, v) = findVar(s, d, v)
    <3>1. \A c \in sources[d] : t.dict[c][v] = s.dict[c][v]
      BY <1>6
    <3> QED BY <3>1, FindSame
  <2> QED BY <2>1, <1>6 DEF SameVar, pending
<1>10. ASSUME NEW q \in Keyword
       PROVE  Registered(t.special, d, q) = IF q = k THEN vs ELSE Registered(s.special, d, q)
  <2>1. CASE q = k
    <3>1. t.special[d][q] = vs /\ vs # Absent
      BY <1>4, <2>1, ValueAssumption
    <3> QED BY <3>1, <2>1, RegisteredOwn
  <2>2. CASE q # k
    <3>1. \A c \in sources[d] : t.special[c][q] = s.special[c][q]
      BY <1>4, <2>2 DEF Linked
    <3> QED BY <3>1, <2>2, RegisteredSame
  <2> QED BY <2>1, <2>2
<1> QED BY <1>6, <1>7, <1>8, <1>9, <1>10 DEF SameSeen, t

\* Clearing the cache changes no answer.
LEMMA UncachedDoes ==
    ASSUME Linked, NEW d \in Store, NEW s, Good(s)
    PROVE  LET t == Uncached(s, d)
           IN /\ Good(t) /\ Elsewhere(s, t, d) /\ t.cache[d] = NoCache
              /\ \A v \in Var : SameVar(s, t, d, v) /\ findVar(t, d, v) = findVar(s, d, v)
              /\ SameSeen(s, t, d) /\ SameSpecial(s, t, d)
              /\ t.dict = s.dict /\ t.lists = s.lists
<1> DEFINE t == Uncached(s, d)
<1>1. t = [dict |-> s.dict, seen |-> s.seen, special |-> s.special,
           cache |-> [s.cache EXCEPT ![d] = NoCache], lists |-> s.lists]
  BY DEF Good, Uncached
<1> HIDE DEF t
<1>2. /\ t.cache = [e \in Store |-> t.cache[e]] /\ t.cache[d] = NoCache
      /\ \A e \in Store \ {d} : t.cache[e] = s.cache[e]
  BY <1>1 DEF Good
<1>3. t.dict = s.dict /\ t.seen = s.seen /\ t.special = s.special /\ t.lists = s.lists
  BY <1>1
<1>4. Good(t)
  <2>1. t = [dict |-> t.dict, seen |-> t.seen, special |-> t.special,
             cache |-> t.cache, lists |-> t.lists]
    BY <1>1
  <2> QED BY <2>1, <1>2, <1>3 DEF Good, GoodDict, GoodLists, GoodSeen, GoodSpecial
<1>5. Elsewhere(s, t, d)
  BY <1>2, <1>3 DEF Elsewhere
<1>6. ASSUME NEW v \in Var PROVE SameVar(s, t, d, v) /\ findVar(t, d, v) = findVar(s, d, v)
  <2>1. findVar(t, d, v) = findVar(s, d, v)
    BY <1>3, FindSame
  <2> QED BY <2>1, <1>3 DEF SameVar, pending
<1> QED BY <1>2, <1>3, <1>4, <1>5, <1>6 DEF SameSeen, SameSpecial, t
-----------------------------------------------------------------------------
(* Operations on a variable                                                *)

\* Nothing but store d has changed, and all is of its type.
Done(s, t, d) == Good(t) /\ Elsewhere(s, t, d)

\* Operations on a store one after the other.
LEMMA DoneAgain ==
    ASSUME NEW d, NEW s, NEW t, NEW u, Done(s, t, d), Done(t, u, d)
    PROVE  Done(s, u, d)
BY ElsewhereAgain DEF Done

\* The expanded values are gone, or no value has changed.
Current(s, t, d) ==
    \/ t.cache[d] = NoCache
    \/ t.cache[d] = s.cache[d] /\ \A v \in Var : getVar(t, d, v) = getVar(s, d, v)

\* The same, of the cache.
LEMMA CurrentAgain ==
    ASSUME NEW d, NEW s, NEW t, NEW u, Current(s, t, d), Current(t, u, d)
    PROVE  Current(s, u, d)
BY DEF Current

\* Where the flags are the same, so is the value.
LEMMA SameValues ==
    ASSUME NEW d, NEW s, NEW t, NEW v, SameVar(s, t, d, v)
    PROVE  getVar(t, d, v) = getVar(s, d, v)
BY DEF SameVar, getVar

SetsContent(s, t, d, v, value) ==
    /\ findVar(t, d, v)["content"] = value
    /\ findVar(t, d, v)["defaultval"] = findVar(s, d, v)["defaultval"]
    /\ \A k \in Keyword : pending(t, d, v, k) = pending(s, d, v, k)
    /\ \A w \in Var \ {v} : SameVar(s, t, d, w)
    /\ \A o \in Override : Registered(t.seen, d, o)
            = Registered(s.seen, d, o) \cup (IF o = OverrideOf[v] THEN {v} ELSE {})
    /\ SameSpecial(s, t, d)

Deletes(s, t, d, v) ==
    /\ findVar(t, d, v) = Empty
    /\ \A w \in Var \ {v} : SameVar(s, t, d, w)
    /\ \A o \in Override : Registered(t.seen, d, o)
            = Registered(s.seen, d, o) \ (IF o = OverrideOf[v] THEN {v} ELSE {})
    /\ SameSpecial(s, t, d)

SetsPending(s, t, d, v, keyword, items) ==
    /\ findVar(t, d, v)["content"] = findVar(s, d, v)["content"]
    /\ findVar(t, d, v)["defaultval"] = findVar(s, d, v)["defaultval"]
    /\ \A k \in Keyword : pending(t, d, v, k)
                            = IF k = keyword THEN items ELSE pending(s, d, v, k)
    /\ \A w \in Var \ {v} : SameVar(s, t, d, w)
    /\ SameSeen(s, t, d)

\* Setting "content" or "defaultval".
LEMMA ValueSet ==
    ASSUME Linked, NEW d \in Store, NEW s, Good(s), NEW v \in Var,
           NEW flag \in {"content", "defaultval"}, NEW value \in Value(v)
    PROVE  LET t == setVarFlag(s, d, v, flag, value)
           IN /\ Done(s, t, d)
              /\ findVar(t, d, v) = [findVar(s, d, v) EXCEPT ![flag] = value]
              /\ \A k \in Keyword : pending(t, d, v, k) = pending(s, d, v, k)
              /\ \A w \in Var \ {v} : SameVar(s, t, d, w)
              /\ SameSeen(s, t, d) /\ SameSpecial(s, t, d)
              /\ t.cache[d] \in {s.cache[d], NoCache}
<1> DEFINE t == setVarFlag(s, d, v, flag, value)
           old == findVar(s, d, v)
           f == [old EXCEPT ![flag] = value]
<1>1. /\ t = [dict |-> [s.dict EXCEPT ![d][v] = f], seen |-> s.seen,
              special |-> s.special, cache |-> t.cache, lists |-> s.lists]
      /\ t.cache = s.cache \/ t.cache = [s.cache EXCEPT ![d] = NoCache]
  BY FlagSet
<1> HIDE DEF t
<1>2. /\ old \in Dict(v)
      /\ \A k \in Keyword : old[k] # Unset => s.lists[old[k]] \in Pending(v)
  BY FindIn
<1>3. f \in Dict(v) /\ \A k \in Keyword : f[k] = old[k]
  <2> HIDE DEF old
  <2> QED BY <1>2 DEF Dict, Keyword
<1>4. t.lists = s.lists
  BY <1>1
<1>5. Writes(s, t, d, v, f)
  BY <1>1, <1>2, <1>3, <1>4 DEF Writes, Good, GoodLists
<1>6. /\ Good(t) /\ Elsewhere(s, t, d)
      /\ findVar(t, d, v) = f
      /\ \A w \in Var \ {v} : SameVar(s, t, d, w)
      /\ SameSeen(s, t, d) /\ SameSpecial(s, t, d)
      /\ t.cache[d] \in {s.cache[d], NoCache}
  <2> HIDE DEF f, old
  <2> QED BY <1>5, Written
<1>7. \A k \in Keyword : pending(t, d, v, k) = pending(s, d, v, k)
  BY <1>3, <1>4, <1>6 DEF pending
<1> QED BY <1>6, <1>7 DEF Done, t

\* setVar gives the variable its value and registers it under its override.
LEMMA setVarDoes ==
    ASSUME Linked, NEW d \in Store, NEW s, Good(s), NEW v \in Var, NEW value \in Value(v)
    PROVE  LET t == setVar(s, d, v, value)
           IN Done(s, t, d) /\ SetsContent(s, t, d, v, value) /\ t.cache[d] = NoCache
<1> DEFINE u == Uncached(s, d)
           w == setVarFlag(u, d, v, "content", value)
           o == OverrideOf[v]
           t == setVar(s, d, v, value)
<1>1. /\ Done(s, u, d) /\ u.cache[d] = NoCache
      /\ \A x \in Var : SameVar(s, u, d, x)
      /\ SameSeen(s, u, d) /\ SameSpecial(s, u, d)
  BY UncachedDoes DEF Done
<1> HIDE DEF u
<1>2. /\ Done(u, w, d)
      /\ findVar(w, d, v) = [findVar(u, d, v) EXCEPT !["content"] = value]
      /\ \A k \in Keyword : pending(w, d, v, k) = pending(u, d, v, k)
      /\ \A x \in Var \ {v} : SameVar(u, w, d, x)
      /\ SameSeen(u, w, d) /\ SameSpecial(u, w, d)
      /\ w.cache[d] = NoCache
  BY <1>1, ValueSet DEF Done
<1>3. t = IF o = NoOverride THEN w ELSE [w EXCEPT !.seen = register(@, d, o, v)]
  BY DEF setVar, u
<1> HIDE DEF w, t
<1>4. findVar(u, d, v) \in Dict(v)
  BY <1>1, FindIn DEF Done
<1>5. /\ findVar(w, d, v)["content"] = value
      /\ findVar(w, d, v)["defaultval"] = findVar(u, d, v)["defaultval"]
  BY <1>2, <1>4 DEF Dict
<1>6. /\ Done(s, w, d)
      /\ findVar(w, d, v)["content"] = value
      /\ findVar(w, d, v)["defaultval"] = findVar(s, d, v)["defaultval"]
      /\ \A k \in Keyword : pending(w, d, v, k) = pending(s, d, v, k)
      /\ \A x \in Var \ {v} : SameVar(s, w, d, x)
      /\ SameSeen(s, w, d) /\ SameSpecial(s, w, d)
  BY <1>1, <1>2, <1>5, DoneAgain DEF SameVar, SameSeen, SameSpecial
<1>7. CASE o = NoOverride
  <2>1. t = w /\ o \notin Override
    BY <1>3, <1>7 DEF Override
  <2> QED BY <2>1, <1>2, <1>6 DEF SetsContent, SameSeen, t
<1>8. CASE o # NoOverride
  <2> DEFINE vs == Registered(w.seen, d, o) \cup {v}
  <2>1. o \in Override
    BY <1>8 DEF Override
  <2>2. vs \in SUBSET {x \in Var : OverrideOf[x] = o}
    BY <2>1, <1>6, RegisteredIn DEF Done
  <2>3. t = WithSeen(w, d, o, vs)
    BY <1>3, <1>8 DEF register, WithSeen
  <2> HIDE DEF vs
  <2>4. /\ Good(t) /\ Elsewhere(w, t, d) /\ t.cache = w.cache
        /\ \A x \in Var : SameVar(w, t, d, x)
        /\ \A q \in Override : Registered(t.seen, d, q)
                                 = IF q = o THEN vs ELSE Registered(w.seen, d, q)
        /\ SameSpecial(w, t, d)
    <3>1. Good(w)
      BY <1>6 DEF Done
    <3> QED BY <2>1, <2>2, <2>3, <3>1, SeenWritten
  <2>5. Done(s, t, d)
    BY <2>4, <1>6, DoneAgain DEF Done
  <2>6. \A q \in Override : Registered(t.seen, d, q)
            = Registered(s.seen, d, q) \cup (IF q = o THEN {v} ELSE {})
    BY <2>4, <1>6 DEF SameSeen, vs
  <2>7. SetsContent(s, t, d, v, value)
    BY <2>4, <2>6, <1>6 DEF SetsContent, SameVar, SameSpecial
  <2> QED BY <2>4, <2>5, <2>7, <1>2 DEF t
<1> QED BY <1>7, <1>8

\* delVar leaves the variable without flags and takes it from its override's set.
LEMMA delVarDoes ==
    ASSUME Linked, NEW d \in Store, NEW s, Good(s), NEW v \in Var
    PROVE  LET t == delVar(s, d, v)
           IN Done(s, t, d) /\ Deletes(s, t, d, v) /\ t.cache[d] = NoCache
<1> DEFINE u == Uncached(s, d)
           w == [u EXCEPT !.dict[d][v] = Empty]
           o == OverrideOf[v]
           vs == Registered(w.seen, d, o) \ {v}
           t == delVar(s, d, v)
<1>1. /\ Done(s, u, d) /\ u.cache[d] = NoCache
      /\ \A x \in Var : SameVar(s, u, d, x)
      /\ SameSeen(s, u, d) /\ SameSpecial(s, u, d)
  BY UncachedDoes DEF Done
<1>2. t = IF o = NoOverride \/ ~has_key(w.seen, sources, d, o) THEN w
          ELSE WithSeen(w, d, o, vs)
  BY DEF delVar, Unregistered, WithSeen
<1> HIDE DEF u, t
<1>3. Writes(u, w, d, v, Empty)
  <2>1. w = [dict |-> [u.dict EXCEPT ![d][v] = Empty], seen |-> u.seen,
             special |-> u.special, cache |-> u.cache, lists |-> u.lists]
    BY <1>1 DEF Done, Good
  <2>2. Empty \in Dict(v) /\ \A k \in Keyword : Empty[k] = Unset
    BY DEF Empty, Dict, Value, Flag, Keyword
  <2>3. u.lists = [l \in List |-> u.lists[l]]
    BY <1>1 DEF Done, Good, GoodLists
  <2> HIDE DEF w
  <2>4. w.lists = u.lists /\ w.cache = u.cache
    BY <2>1
  <2> QED BY <2>1, <2>2, <2>3, <2>4 DEF Writes
<1> HIDE DEF w
<1>4. /\ Done(u, w, d)
      /\ findVar(w, d, v) = Empty
      /\ \A x \in Var \ {v} : SameVar(u, w, d, x)
      /\ SameSeen(u, w, d) /\ SameSpecial(u, w, d)
      /\ w.cache[d] = NoCache
  BY <1>1, <1>3, Written DEF Done
<1>5. /\ Done(s, w, d)
      /\ \A x \in Var \ {v} : SameVar(s, w, d, x)
      /\ SameSeen(s, w, d) /\ SameSpecial(s, w, d)
  BY <1>1, <1>4, DoneAgain DEF SameVar, SameSeen, SameSpecial
<1>6. CASE o = NoOverride
  <2>1. t = w /\ o \notin Override
    BY <1>2, <1>6 DEF Override
  <2> QED BY <2>1, <1>4, <1>5 DEF Deletes, SameSeen, t
<1>7. CASE o # NoOverride /\ ~has_key(w.seen, sources, d, o)
  <2>1. t = w /\ Registered(w.seen, d, o) = {} /\ o \in Override
    BY <1>2, <1>7 DEF Registered, Override
  <2> QED BY <2>1, <1>4, <1>5 DEF Deletes, SameSeen, t
<1>8. CASE o # NoOverride /\ has_key(w.seen, sources, d, o)
  <2>1. o \in Override
    BY <1>8 DEF Override
  <2>2. vs \in SUBSET {x \in Var : OverrideOf[x] = o}
    BY <2>1, <1>5, RegisteredIn DEF Done
  <2>3. t = WithSeen(w, d, o, vs)
    BY <1>2, <1>8
  <2>4. /\ Done(w, t, d) /\ t.cache = w.cache
        /\ \A x \in Var : SameVar(w, t, d, x)
        /\ \A q \in Override : Registered(t.seen, d, q)
                                 = IF q = o THEN vs ELSE Registered(w.seen, d, q)
        /\ SameSpecial(w, t, d)
    <3> HIDE DEF vs
    <3> QED BY <2>1, <2>2, <2>3, <1>5, SeenWritten DEF Done
  <2>5. \A q \in Override : Registered(t.seen, d, q)
            = Registered(s.seen, d, q) \ (IF q = o THEN {v} ELSE {})
    BY <2>4, <1>5 DEF SameSeen
  <2>6. findVar(t, d, v) = Empty
    <3>1. t.dict = w.dict
      <4>1. w = [dict |-> w.dict, seen |-> w.seen, special |-> w.special,
                 cache |-> w.cache, lists |-> w.lists]
        BY <1>5 DEF Done, Good
      <4> QED BY <4>1, <2>3 DEF WithSeen
    <3>2. findVar(t, d, v) = findVar(w, d, v)
      BY <3>1, FindSame
    <3> QED BY <3>2, <1>4
  <2>7. Deletes(s, t, d, v)
    BY <2>4, <2>5, <2>6, <1>5 DEF Deletes, SameVar, SameSpecial
  <2> QED BY <2>4, <2>7, <1>4, <1>5, DoneAgain DEF t
<1> QED BY <1>6, <1>7, <1>8

\* A new list of pending texts: the lists that others hold are left alone.
LEMMA setPendingDoes ==
    ASSUME Linked, NEW d \in Store, NEW s, Good(s), NEW v \in Var, NEW keyword \in Keyword,
           NEW items \in Pending(v)
    PROVE  LET t == setPending(s, d, v, keyword, items)
           IN /\ Done(s, t, d) /\ SetsPending(s, t, d, v, keyword, items)
              /\ SameSpecial(s, t, d) /\ Current(s, t, d)
              /\ t.cache[d] \in {s.cache[d], NoCache}
<1> DEFINE list == CHOOSE l \in List \ Held(s) : TRUE
           u == setVarFlag(s, d, v, keyword, list)
           t == setPending(s, d, v, keyword, items)
           old == findVar(s, d, v)
           f == [old EXCEPT ![keyword] = list]
<1>1. list \in List \ Held(s)
  <2> DEFINE L == List \ Held(s)
  <2>1. L # {}
    BY FreshList
  <2> HIDE DEF L
  <2>2. (CHOOSE l \in L : TRUE) \in L
    BY <2>1
  <2> QED BY <2>2 DEF L
<1>2. t = [u EXCEPT !.lists[list] = items]
  BY DEF setPending
<1> HIDE DEF list
<1>3. /\ u = [dict |-> [s.dict EXCEPT ![d][v] = f], seen |-> s.seen,
              special |-> s.special, cache |-> u.cache, lists |-> s.lists]
      /\ u.cache = s.cache \/ u.cache = [s.cache EXCEPT ![d] = NoCache]
  BY FlagSet
<1> HIDE DEF u, t
<1>4. /\ old \in Dict(v)
      /\ \A k \in Keyword : old[k] # Unset =>
            old[k] \in List \cap Held(s) /\ s.lists[old[k]] \in Pending(v)
  BY FindIn
<1>5. /\ f \in Dict(v)
      /\ f["content"] = old["content"] /\ f["defaultval"] = old["defaultval"]
      /\ \A k \in Keyword : f[k] = IF k = keyword THEN list ELSE old[k]
  <2> HIDE DEF old
  <2> QED BY <1>1, <1>4 DEF Dict, Keyword
<1>6. /\ t = [dict |-> [s.dict EXCEPT ![d][v] = f], seen |-> s.seen,
              special |-> s.special, cache |-> u.cache,
              lists |-> [s.lists EXCEPT ![list] = items]]
  <2> HIDE DEF f
  <2> QED BY <1>2, <1>3
<1>7. /\ t.lists = [l \in List |-> t.lists[l]]
      /\ \A l \in List : t.lists[l] = IF l = list THEN items ELSE s.lists[l]
  <2> DEFINE old_lists == s.lists
             new_lists == t.lists
  <2>1. old_lists = [l \in List |-> old_lists[l]] /\ new_lists = [old_lists EXCEPT ![list] = items]
    BY <1>6 DEF Good, GoodLists
  <2> HIDE DEF old_lists, new_lists
  <2>2. /\ new_lists = [l \in List |-> new_lists[l]]
        /\ \A l \in List : new_lists[l] = IF l = list THEN items ELSE old_lists[l]
    BY <2>1, <1>1
  <2> QED BY <2>2 DEF old_lists, new_lists
<1>8. \A l \in Held(s) : l \in List
  <2>1. ASSUME NEW p \in Place, s.dict[p[1]][p[2]] # Absent, s.dict[p[1]][p[2]][p[3]] # Unset
        PROVE  s.dict[p[1]][p[2]][p[3]] \in List
    <3>1. p[1] \in Store /\ p[2] \in Var /\ p[3] \in Keyword
      BY DEF Place
    <3>2. s.dict[p[1]][p[2]] \in Dict(p[2])
      BY <2>1, <3>1 DEF Good, GoodDict
    <3> QED BY <2>1, <3>1, <3>2 DEF Dict, Keyword
  <2> QED BY <2>1 DEF Held
<1>9. Writes(s, t, d, v, f)
  <2>1. \A l \in Held(s) : t.lists[l] = s.lists[l]
    BY <1>1, <1>7, <1>8
  <2>2. \A k \in Keyword : f[k] # Unset => t.lists[f[k]] \in Pending(v)
    BY <1>1, <1>4, <1>5, <1>7
  <2>3. t.cache = u.cache
    BY <1>6
  <2>4. t = [dict |-> [s.dict EXCEPT ![d][v] = f], seen |-> s.seen,
             special |-> s.special, cache |-> t.cache, lists |-> t.lists]
    BY <1>6
  <2> HIDE DEF f
  <2> QED BY <1>3, <1>5, <1>7, <2>1, <2>2, <2>3, <2>4 DEF Writes
<1>10. /\ Done(s, t, d)
       /\ findVar(t, d, v) = f
       /\ \A w \in Var \ {v} : SameVar(s, t, d, w)
       /\ SameSeen(s, t, d) /\ SameSpecial(s, t, d)
       /\ t.cache[d] \in {s.cache[d], NoCache}
  <2> HIDE DEF f, old
  <2> QED BY <1>9, Written DEF Done
<1>11. ASSUME NEW k \in Keyword
       PROVE  pending(t, d, v, k) = IF k = keyword THEN items ELSE pending(s, d, v, k)
  <2>1. CASE k = keyword
    <3>1. list # Unset
      BY <1>1, ValueAssumption
    <3> QED BY <2>1, <3>1, <1>1, <1>5, <1>7, <1>10 DEF pending
  <2>2. CASE k # keyword /\ old[k] = Unset
    BY <2>2, <1>5, <1>10 DEF pending
  <2>3. CASE k # keyword /\ old[k] # Unset
    BY <2>3, <1>1, <1>4, <1>5, <1>7, <1>10 DEF pending
  <2> QED BY <2>1, <2>2, <2>3
<1>12. SetsPending(s, t, d, v, keyword, items)
  BY <1>5, <1>10, <1>11 DEF SetsPending
<1>13. Current(s, t, d)
  <2>1. ASSUME NEW w \in Var PROVE getVar(t, d, w) = getVar(s, d, w)
    <3>1. CASE w = v
      BY <3>1, <1>5, <1>10 DEF getVar
    <3>2. CASE w # v
      BY <3>2, <1>10, SameValues
    <3> QED BY <3>1, <3>2
  <2> QED BY <2>1, <1>10 DEF Current
<1> QED BY <1>10, <1>12, <1>13 DEF t

\* Deleting the flag of a keyword leaves nothing pending with it.
LEMMA delVarFlagDoes ==
    ASSUME Linked, NEW d \in Store, NEW s, Good(s), NEW v \in Var, NEW keyword \in Keyword
    PROVE  LET t == delVarFlag(s, d, v, keyword)
           IN /\ Done(s, t, d) /\ SetsPending(s, t, d, v, keyword, <<>>)
              /\ SameSpecial(s, t, d) /\ Current(s, t, d)
<1> DEFINE t == delVarFlag(s, d, v, keyword)
           old == findVar(s, d, v)
           f == [old EXCEPT ![keyword] = Unset]
<1>1. CASE old = Empty
  <2>1. t = s
    BY <1>1 DEF delVarFlag
  <2>2. pending(s, d, v, keyword) = <<>>
    BY <1>1 DEF pending, Empty, Flag
  <2>3. Done(s, s, d) /\ SameSpecial(s, s, d) /\ Current(s, s, d)
    BY ElsewhereSame DEF Done, SameSpecial, Current
  <2>4. SetsPending(s, s, d, v, keyword, <<>>)
    BY <2>2 DEF SetsPending, SameSeen, SameVar
  <2> QED BY <2>1, <2>3, <2>4
<1>2. CASE old # Empty
  <2>1. t = setVarFlag(s, d, v, keyword, Unset)
    BY <1>2 DEF delVarFlag
  <2>2. /\ t = [dict |-> [s.dict EXCEPT ![d][v] = f], seen |-> s.seen,
                special |-> s.special, cache |-> t.cache, lists |-> s.lists]
        /\ t.cache = s.cache \/ t.cache = [s.cache EXCEPT ![d] = NoCache]
    BY <2>1, FlagSet
  <2> HIDE DEF t
  <2>3. /\ old \in Dict(v)
        /\ \A k \in Keyword : old[k] # Unset => s.lists[old[k]] \in Pending(v)
    BY FindIn
  <2>4. /\ f \in Dict(v)
        /\ f["content"] = old["content"] /\ f["defaultval"] = old["defaultval"]
        /\ \A k \in Keyword : f[k] = IF k = keyword THEN Unset ELSE old[k]
    <3> HIDE DEF old
    <3> QED BY <2>3 DEF Dict, Keyword
  <2>5. t.lists = s.lists
    BY <2>2
  <2>6. Writes(s, t, d, v, f)
    BY <2>2, <2>3, <2>4, <2>5 DEF Writes, Good, GoodLists
  <2>7. /\ Done(s, t, d)
        /\ findVar(t, d, v) = f
        /\ \A w \in Var \ {v} : SameVar(s, t, d, w)
        /\ SameSeen(s, t, d) /\ SameSpecial(s, t, d)
        /\ t.cache[d] \in {s.cache[d], NoCache}
    <3> HIDE DEF f, old
    <3> QED BY <2>6, Written DEF Done
  <2>8. \A k \in Keyword : pending(t, d, v, k)
                             = IF k = keyword THEN <<>> ELSE pending(s, d, v, k)
    BY <2>4, <2>5, <2>7 DEF pending
  <2>9. SetsPending(s, t, d, v, keyword, <<>>)
    BY <2>4, <2>7, <2>8 DEF SetsPending
  <2>10. Current(s, t, d)
    <3>1. ASSUME NEW w \in Var PROVE getVar(t, d, w) = getVar(s, d, w)
      <4>1. CASE w = v
        BY <4>1, <2>4, <2>7 DEF getVar
      <4>2. CASE w # v
        BY <4>2, <2>7, SameValues
      <4> QED BY <4>1, <4>2
    <3> QED BY <3>1, <2>7 DEF Current
  <2> QED BY <2>7, <2>9, <2>10 DEF t
<1> QED BY <1>1, <1>2

\* What is pending for a variable is of its type, and empty unless it has a list.
LEMMA PendingIn ==
    ASSUME Linked, NEW d \in Store, NEW s, Good(s), NEW v \in Var, NEW k \in Keyword
    PROVE  /\ pending(s, d, v, k) \in Seq(Item(v))
           /\ findVar(s, d, v)[k] = Unset <=> pending(s, d, v, k) = <<>>
BY FindIn DEF pending, Pending

\* getVar gives None or a text.
LEMMA ValueIn ==
    ASSUME Linked, NEW d \in Store, NEW s, Good(s), NEW v \in Var
    PROVE  getVar(s, d, v) \in {None} \cup Text(v)
<1>1. findVar(s, d, v) \in Dict(v)
  BY FindIn
<1> QED BY <1>1 DEF Dict, Value, getVar

\* setVar of v_append adds to what is pending, and registers the variable.
LEMMA setVarKeywordDoes ==
    ASSUME Linked, NEW d \in Store, NEW s, Good(s), NEW v \in Var, NEW keyword \in Keyword,
           NEW item \in Item(v)
    PROVE  LET t == setVarKeyword(s, d, v, keyword, item)
           IN /\ Done(s, t, d)
              /\ SetsPending(s, t, d, v, keyword, Append(pending(s, d, v, keyword), item))
              /\ \A k \in Keyword : Registered(t.special, d, k)
                    = Registered(s.special, d, k) \cup (IF k = keyword THEN {v} ELSE {})
              /\ t.cache[d] = NoCache
<1> DEFINE u == Uncached(s, d)
           items == Append(pending(s, d, v, keyword), item)
           w == setPending(u, d, v, keyword, items)
           vs == Registered(w.special, d, keyword) \cup {v}
           t == setVarKeyword(s, d, v, keyword, item)
<1>1. /\ Done(s, u, d) /\ u.cache[d] = NoCache
      /\ \A x \in Var : SameVar(s, u, d, x)
      /\ SameSeen(s, u, d) /\ SameSpecial(s, u, d)
  BY UncachedDoes DEF Done
<1>2. t = WithSpecial(w, d, keyword, vs)
  BY DEF setVarKeyword, WithSpecial, register
<1>3. items \in Pending(v)
  <2> DEFINE old == pending(s, d, v, keyword)
             set == Item(v)
  <2>1. old \in Seq(set) /\ item \in set
    BY PendingIn
  <2> HIDE DEF old, set
  <2>2. Append(old, item) \in Seq(set) \ {<<>>}
    BY <2>1, AppendIn
  <2> QED BY <2>2 DEF Pending, old, set
<1> HIDE DEF u, items, t
<1>4. /\ Done(u, w, d) /\ SetsPending(u, w, d, v, keyword, items)
      /\ SameSpecial(u, w, d) /\ w.cache[d] = NoCache
  BY <1>1, <1>3, setPendingDoes DEF Done
<1> HIDE DEF w
<1>5. Done(s, w, d) /\ vs \in SUBSET Var
  <2>1. Done(s, w, d)
    BY <1>1, <1>4, DoneAgain
  <2> QED BY <2>1, RegisteredIn DEF Done
<1>6. /\ Done(w, t, d) /\ t.cache = w.cache
      /\ \A x \in Var : SameVar(w, t, d, x)
      /\ \A q \in Keyword : Registered(t.special, d, q)
                               = IF q = keyword THEN vs ELSE Registered(w.special, d, q)
      /\ SameSeen(w, t, d)
  <2> HIDE DEF vs
  <2> QED BY <1>2, <1>5, SpecialWritten DEF Done
<1>7. Done(s, t, d)
  BY <1>5, <1>6, DoneAgain
<1>8. SetsPending(s, t, d, v, keyword, items)
  BY <1>1, <1>4, <1>6 DEF SetsPending, SameVar, SameSeen
<1>9. \A k \in Keyword : Registered(t.special, d, k)
            = Registered(s.special, d, k) \cup (IF k = keyword THEN {v} ELSE {})
  BY <1>1, <1>4, <1>6 DEF SameSpecial
<1> QED BY <1>4, <1>6, <1>7, <1>8, <1>9 DEF t, items
-----------------------------------------------------------------------------
(* What finalize goes by                                                   *)

\* The variables with a value under an override are those registered with it.
SeenRight(s, d) ==
    \A v \in Var : OverrideOf[v] # NoOverride =>
        (v \in Registered(s.seen, d, OverrideOf[v])
            <=> findVar(s, d, v)["content"] \notin {Unset, None})

\* A variable with something pending is registered with the keyword.
KeywordRight(s, d, v, k) ==
    pending(s, d, v, k) # <<>> => v \in Registered(s.special, d, k)

SpecialRight(s, d, v) == \A k \in Keyword : KeywordRight(s, d, v, k)

Right(s, d) == SeenRight(s, d) /\ \A v \in Var : SpecialRight(s, d, v)

\* The texts of variables are sequences of strings.
LEMMA TextIn == \A v \in Var : Text(v) \subseteq Seq(STRING)
<1>1. ASSUME NEW v \in Var, NEW text \in Text(v) PROVE text \in Seq(STRING)
  <2> DEFINE set == Words(v)
  <2>1. set \subseteq STRING /\ text \in Seq(set)
    BY DataAssumption DEF Words, Text
  <2> HIDE DEF set
  <2> QED BY <2>1, SeqMore
<1> QED BY <1>1

\* The override in a variable's name is an override.
LEMMA OverrideIs ==
    ASSUME NEW v \in Var, OverrideOf[v] # NoOverride PROVE OverrideOf[v] \in Override
BY DEF Override

\* A new value leaves what finalize goes by right.
LEMMA SetsContentRight ==
    ASSUME Linked, NEW d \in Store, NEW s, Good(s), NEW t, NEW v \in Var, NEW value \in Text(v),
           SetsContent(s, t, d, v, value)
    PROVE  /\ SeenRight(s, d) => SeenRight(t, d)
           /\ \A w \in Var : SpecialRight(s, d, w) => SpecialRight(t, d, w)
<1>1. value \notin {Unset, None}
  BY TextIn, ValueAssumption
<1>2. ASSUME SeenRight(s, d), NEW w \in Var, OverrideOf[w] # NoOverride
      PROVE  w \in Registered(t.seen, d, OverrideOf[w])
                <=> findVar(t, d, w)["content"] \notin {Unset, None}
  <2>1. OverrideOf[w] \in Override
    BY <1>2, OverrideIs
  <2>2. CASE w = v
    BY <1>1, <2>1, <2>2 DEF SetsContent
  <2>3. CASE w # v
    BY <1>2, <2>1, <2>3 DEF SetsContent, SeenRight, SameVar
  <2> QED BY <2>2, <2>3
<1>3. ASSUME NEW w \in Var, SpecialRight(s, d, w) PROVE SpecialRight(t, d, w)
  <2>1. \A k \in Keyword : /\ pending(t, d, w, k) = pending(s, d, w, k)
                           /\ Registered(t.special, d, k) = Registered(s.special, d, k)
    BY DEF SetsContent, SameVar, SameSpecial
  <2> QED BY <2>1, <1>3 DEF SpecialRight, KeywordRight
<1> QED BY <1>2, <1>3 DEF SeenRight

\* So does a deletion; of the variable deleted it makes it right.
LEMMA DeletesRight ==
    ASSUME Linked, NEW d \in Store, NEW s, Good(s), NEW t, NEW v \in Var, Deletes(s, t, d, v)
    PROVE  /\ SeenRight(s, d) => SeenRight(t, d)
           /\ SpecialRight(t, d, v)
           /\ \A w \in Var \ {v} : SpecialRight(s, d, w) => SpecialRight(t, d, w)
<1>1. ASSUME SeenRight(s, d), NEW w \in Var, OverrideOf[w] # NoOverride
      PROVE  w \in Registered(t.seen, d, OverrideOf[w])
                <=> findVar(t, d, w)["content"] \notin {Unset, None}
  <2>1. OverrideOf[w] \in Override
    BY <1>1, OverrideIs
  <2>2. CASE w = v
    <3>1. findVar(t, d, v)["content"] = Unset
      BY DEF Deletes, Empty, Flag
    <3> QED BY <2>1, <2>2, <3>1 DEF Deletes
  <2>3. CASE w # v
    BY <1>1, <2>1, <2>3 DEF Deletes, SeenRight, SameVar
  <2> QED BY <2>2, <2>3
<1>2. SpecialRight(t, d, v)
  BY DEF SpecialRight, KeywordRight, pending, Deletes, Empty, Flag
<1>3. ASSUME NEW w \in Var \ {v}, SpecialRight(s, d, w) PROVE SpecialRight(t, d, w)
  BY <1>3 DEF SpecialRight, KeywordRight, Deletes, SameVar, SameSpecial
<1> QED BY <1>1, <1>2, <1>3 DEF SeenRight

\* So does a new list, if the variable is registered with its keyword already.
LEMMA SetsPendingRight ==
    ASSUME Linked, NEW d \in Store, NEW s, NEW t, NEW v \in Var, NEW keyword \in Keyword,
           NEW items, SetsPending(s, t, d, v, keyword, items)
    PROVE  /\ SeenRight(s, d) => SeenRight(t, d)
           /\ SameSpecial(s, t, d) =>
                \A w \in Var : SpecialRight(s, d, w)
                        /\ (w = v /\ items # <<>> => pending(s, d, v, keyword) # <<>>)
                    => SpecialRight(t, d, w)
<1>1. \A w \in Var : findVar(t, d, w)["content"] = findVar(s, d, w)["content"]
  BY DEF SetsPending, SameVar
<1>2. ASSUME SeenRight(s, d), NEW w \in Var, OverrideOf[w] # NoOverride
      PROVE  w \in Registered(t.seen, d, OverrideOf[w])
                <=> findVar(t, d, w)["content"] \notin {Unset, None}
  BY <1>1, <1>2, OverrideIs DEF SetsPending, SameSeen, SeenRight
<1>3. ASSUME SameSpecial(s, t, d), NEW w \in Var, SpecialRight(s, d, w),
             w = v /\ items # <<>> => pending(s, d, v, keyword) # <<>>
      PROVE  SpecialRight(t, d, w)
  <2>1. CASE w = v
    BY <1>3, <2>1 DEF SetsPending, SpecialRight, KeywordRight, SameSpecial
  <2>2. CASE w # v
    BY <1>3, <2>2 DEF SetsPending, SpecialRight, KeywordRight, SameSpecial, SameVar
  <2> QED BY <2>1, <2>2
<1> QED BY <1>2, <1>3 DEF SeenRight

\* What waits is some of what is pending.
LEMMA Indices ==
    ASSUME NEW n \in Nat
    PROVE  F!Picks(1..n) /\ \A k \in 1..n : lastOf(1..k) = k
<1>1. ASSUME NEW S \in SUBSET (1..n), S # {} PROVE lastOf(S) \in S
  <2>1. \E c \in S : \A b \in S : b <= c
    <3>1. S \in SUBSET (0..n)
      OBVIOUS
    <3> QED BY <1>1, <3>1, F!Largest
  <2>2. S \subseteq Int
    OBVIOUS
  <2> QED BY <2>1, <2>2 DEF lastOf, Max
<1>2. ASSUME NEW k \in 1..n PROVE lastOf(1..k) = k
  <2>1. k \in 1..k /\ \A y \in 1..k : k >= y
    OBVIOUS
  <2>2. \A x \in 1..k : (\A y \in 1..k : x >= y) => x = k
    BY <2>1
  <2> QED BY <2>1, <2>2 DEF lastOf, Max
<1> QED BY <1>1, <1>2 DEF F!Picks

\* What waits are some of the items.
LEMMA WaitingIn ==
    ASSUME NEW set, NEW items \in Seq(set) PROVE Waiting(items) \in Seq(set)
<1> DEFINE n == Len(items)
<1>1. n \in Nat /\ DOMAIN items = 1..n
  OBVIOUS
<1>2. Waiting(items) = F!Iter(DOMAIN items, <<>>, items, 0, 0, 0)
  BY Zenon DEF Waiting, FoldLeft, MapThenFoldSet, F!Iter, keepOp, lastOf
<1>3. keepInv({}, <<>>, set)
  BY DEF keepInv
<1>4. ASSUME NEW k \in 1..n, NEW r, keepInv(1..(k - 1), r, set)
      PROVE  keepInv(1..k, keepOp(k, r, items, 0, 0, 0), set)
  <2>1. r \in Seq(set) /\ items[k] \in set
    BY <1>4 DEF keepInv
  <2>2. Append(r, items[k]) \in Seq(set)
    BY <2>1, AppendIn
  <2> QED BY <2>1, <2>2 DEF keepInv, keepOp
<1> HIDE DEF n
<1>5. keepInv(1..n, F!Iter(1..n, <<>>, items, 0, 0, 0), set)
  BY <1>1, <1>3, <1>4, Indices, F!FoldedLeft
<1> QED BY <1>1, <1>2, <1>5 DEF keepInv

\* Renaming: what is pending is moved, one keyword after the other.
moveOp(t, keyword, d, key, newkey) ==
    IF findVar(t, d, key)[keyword] = Unset THEN t
    ELSE LET items == pending(t, d, newkey, keyword) \o pending(t, d, key, keyword)
             u == setPending(t, d, newkey, keyword, items)
             appends == Registered(u.special, d, keyword)
         IN IF ~has_key(u.special, sources, d, keyword) THEN u
            ELSE WithSpecial(u, d, keyword,
                    IF key \in appends THEN (appends \ {key}) \cup {newkey} ELSE appends)

\* A text that one variable may have another one may have as well, unless that
\* one alone is plain.
LEMMA WordsMore ==
    ASSUME NEW v \in Var, NEW w \in Var, w \in Plain => v \in Plain
    PROVE  Text(v) \subseteq Text(w) /\ Item(v) \subseteq Item(w)
<1>1. Words(v) \subseteq Words(w)
  BY DEF Words
<1>2. ASSUME NEW text \in Text(v) PROVE text \in Text(w)
  <2> DEFINE few == Words(v)
             set == Words(w)
  <2>1. few \in SUBSET set /\ text \in Seq(few)
    BY <1>1 DEF Text
  <2> HIDE DEF few, set
  <2>2. text \in Seq(set)
    BY <2>1, SeqMore
  <2> QED BY <2>2 DEF Text, set
<1>3. Item(v) \subseteq Item(w)
  BY <1>1 DEF Item
<1> QED BY <1>2, <1>3

\* Moving what is pending to the new name.
LEMMA MoveDoes ==
    ASSUME Linked, NEW d \in Store, NEW s, Good(s), NEW keyword \in Keyword,
           NEW key \in Var, NEW newkey \in Var, newkey \in Plain => key \in Plain
    PROVE  LET t == moveOp(s, keyword, d, key, newkey)
           IN /\ Done(s, t, d)
              /\ SeenRight(s, d) => SeenRight(t, d)
              /\ KeywordRight(s, d, key, keyword) =>
                    \A w \in Var \ {key} : SpecialRight(s, d, w) => SpecialRight(t, d, w)
              /\ \A k \in Keyword \ {keyword} :
                    KeywordRight(s, d, key, k) => KeywordRight(t, d, key, k)
<1> DEFINE t == moveOp(s, keyword, d, key, newkey)
           moved == pending(s, d, key, keyword)
           items == pending(s, d, newkey, keyword) \o moved
           u == setPending(s, d, newkey, keyword, items)
           appends == Registered(u.special, d, keyword)
           vs == IF key \in appends THEN (appends \ {key}) \cup {newkey} ELSE appends
<1>1. CASE moved = <<>>
  <2>1. t = s
    BY <1>1, PendingIn DEF moveOp
  <2>2. Done(s, s, d)
    BY ElsewhereSame DEF Done
  <2> HIDE DEF t
  <2> QED BY <2>1, <2>2 DEF t
<1>2. CASE moved # <<>>
  <2>1. t = IF ~has_key(u.special, sources, d, keyword) THEN u
            ELSE WithSpecial(u, d, keyword, vs)
    BY <1>2, PendingIn DEF moveOp
  <2>2. items \in Pending(newkey)
    <3> DEFINE set == Item(newkey)
               few == Item(key)
               old == pending(s, d, newkey, keyword)
    <3>1. few \in SUBSET set /\ old \in Seq(set) /\ moved \in Seq(few)
      BY WordsMore, PendingIn
    <3> HIDE DEF set, few, old, moved
    <3>2. old \o moved \in Seq(set) /\ old \o moved # <<>>
      BY <3>1, <1>2, ConcatIn
    <3> QED BY <3>2 DEF Pending, set, old
  <2> HIDE DEF t, items, moved
  <2>3. /\ Done(s, u, d) /\ SetsPending(s, u, d, newkey, keyword, items)
        /\ SameSpecial(s, u, d)
    BY <2>2, setPendingDoes
  <2> HIDE DEF u
  <2>4. /\ Done(u, t, d) /\ SameSeen(u, t, d)
        /\ \A w \in Var : SameVar(u, t, d, w)
        /\ \A k \in Keyword : Registered(t.special, d, k)
                                = IF k = keyword THEN vs ELSE Registered(u.special, d, k)
    <3>1. CASE ~has_key(u.special, sources, d, keyword)
      <4>1. t = u /\ appends = {}
        BY <2>1, <3>1 DEF Registered
      <4>2. Done(u, u, d) /\ SameSeen(u, u, d) /\ \A w \in Var : SameVar(u, u, d, w)
        BY <2>3, ElsewhereSame DEF Done, SameSeen, SameVar
      <4> QED BY <4>1, <4>2
    <3>2. CASE has_key(u.special, sources, d, keyword)
      <4>1. t = WithSpecial(u, d, keyword, vs)
        BY <2>1, <3>2
      <4>2. vs \in SUBSET Var /\ Good(u)
        BY <2>3, RegisteredIn DEF Done
      <4> HIDE DEF vs
      <4> QED BY <4>1, <4>2, SpecialWritten DEF Done
    <3> QED BY <3>1, <3>2
  <2>5. Done(s, t, d)
    BY <2>3, <2>4, DoneAgain
  <2>6. SetsPending(s, t, d, newkey, keyword, items)
    BY <2>3, <2>4 DEF SetsPending, SameVar, SameSeen
  <2>7. SeenRight(s, d) => SeenRight(t, d)
    BY <2>6, SetsPendingRight
  <2>8. \A k \in Keyword : Registered(t.special, d, k)
            = IF k = keyword THEN vs ELSE Registered(s.special, d, k)
    BY <2>3, <2>4 DEF SameSpecial
  <2>9. appends = Registered(s.special, d, keyword)
    BY <2>3 DEF SameSpecial
  <2>10. ASSUME KeywordRight(s, d, key, keyword), NEW w \in Var \ {key},
                SpecialRight(s, d, w), NEW k \in Keyword, pending(t, d, w, k) # <<>>
         PROVE  w \in Registered(t.special, d, k)
    <3>1. key \in appends
      BY <1>2, <2>9, <2>10 DEF KeywordRight, moved
    <3>2. CASE k = keyword /\ w = newkey
      BY <2>8, <3>1, <3>2
    <3>3. CASE k = keyword /\ w # newkey
      <4>1. pending(t, d, w, k) = pending(s, d, w, k)
        BY <2>6, <2>10, <3>3 DEF SetsPending, SameVar
      <4> QED BY <4>1, <2>8, <2>9, <2>10, <3>1, <3>3 DEF SpecialRight, KeywordRight
    <3>4. CASE k # keyword
      <4>1. pending(t, d, w, k) = pending(s, d, w, k)
        BY <2>6, <2>10, <3>4 DEF SetsPending, SameVar
      <4> QED BY <4>1, <2>8, <2>10, <3>4 DEF SpecialRight, KeywordRight
    <3> QED BY <3>2, <3>3, <3>4
  <2>11. ASSUME NEW k \in Keyword \ {keyword}, KeywordRight(s, d, key, k)
         PROVE  KeywordRight(t, d, key, k)
    <3>1. pending(t, d, key, k) = pending(s, d, key, k)
      BY <2>6, <2>11 DEF SetsPending, SameVar
    <3> QED BY <3>1, <2>8, <2>11 DEF KeywordRight
  <2>12. KeywordRight(s, d, key, keyword) =>
            \A w \in Var \ {key} : SpecialRight(s, d, w) => SpecialRight(t, d, w)
    BY <2>10 DEF SpecialRight, KeywordRight
  <2> QED BY <2>5, <2>7, <2>11, <2>12 DEF t
<1> QED BY <1>1, <1>2

\* renameVar leaves what finalize goes by right and the cache empty.
LEMMA renameVarDoes ==
    ASSUME Linked, NEW d \in Store, NEW s, Good(s), NEW key \in Var, NEW newkey \in Var,
           newkey \in Plain => key \in Plain
    PROVE  LET t == renameVar(s, d, key, newkey)
           IN Done(s, t, d) /\ t.cache[d] = NoCache /\ (Right(s, d) => Right(t, d))
<1> DEFINE value == getVar(s, d, key)
           set == IF value = None THEN s ELSE setVar(s, d, newkey, value)
           u == moveOp(set, "_append", d, key, newkey)
           w == moveOp(u, "_prepend", d, key, newkey)
           t == renameVar(s, d, key, newkey)
<1>1. t = delVar(w, d, key)
  BY DEF renameVar, moveOp, WithSpecial
<1> HIDE DEF t
<1>2. Done(s, set, d) /\ (Right(s, d) => Right(set, d))
  <2>1. CASE value = None
    BY <2>1, ElsewhereSame DEF Done
  <2>2. CASE value # None
    <3> DEFINE after == setVar(s, d, newkey, value)
    <3>1. value \in Text(newkey) /\ value \in Value(newkey)
      BY <2>2, ValueIn, WordsMore DEF Value
    <3> HIDE DEF value
    <3>2. Done(s, after, d) /\ SetsContent(s, after, d, newkey, value)
      BY <3>1, setVarDoes
    <3>3. set = after
      BY <2>2
    <3> HIDE DEF set, after
    <3>4. Right(s, d) => Right(after, d)
      BY <3>1, <3>2, SetsContentRight DEF Right
    <3> QED BY <3>2, <3>3, <3>4
  <2> QED BY <2>1, <2>2
<1> HIDE DEF set
<1>3. "_append" \in Keyword /\ "_prepend" \in Keyword /\ "_append" # "_prepend"
      /\ \A k \in Keyword : k = "_append" \/ k = "_prepend"
  BY DEF Keyword
<1>4. /\ Done(set, u, d)
      /\ SeenRight(set, d) => SeenRight(u, d)
      /\ KeywordRight(set, d, key, "_append") =>
            \A x \in Var \ {key} : SpecialRight(set, d, x) => SpecialRight(u, d, x)
      /\ KeywordRight(set, d, key, "_prepend") => KeywordRight(u, d, key, "_prepend")
  BY <1>2, <1>3, MoveDoes DEF Done
<1> HIDE DEF u
<1>5. /\ Done(u, w, d)
      /\ SeenRight(u, d) => SeenRight(w, d)
      /\ KeywordRight(u, d, key, "_prepend") =>
            \A x \in Var \ {key} : SpecialRight(u, d, x) => SpecialRight(w, d, x)
  BY <1>3, <1>4, MoveDoes DEF Done
<1> HIDE DEF w
<1>6. Done(w, t, d) /\ Deletes(w, t, d, key) /\ t.cache[d] = NoCache
  BY <1>1, <1>5, delVarDoes DEF Done
<1>7. Done(s, t, d)
  BY <1>2, <1>4, <1>5, <1>6, DoneAgain
<1>8. ASSUME Right(s, d) PROVE Right(t, d)
  <2>1. SeenRight(w, d) /\ \A x \in Var \ {key} : SpecialRight(w, d, x)
    BY <1>2, <1>3, <1>4, <1>5, <1>8 DEF Right, SpecialRight
  <2>2. Good(w)
    BY <1>5 DEF Done
  <2>3. SeenRight(t, d) /\ \A x \in Var : SpecialRight(t, d, x)
    BY <2>1, <2>2, <1>6, DeletesRight
  <2> QED BY <2>3 DEF Right
<1> QED BY <1>6, <1>7, <1>8 DEF t
-----------------------------------------------------------------------------
(* finalize: each fold is an instance of Folding                           *)

\* What a part of finalize establishes.
Applied(s, t, d) ==
    Done(s, t, d) /\ Current(s, t, d) /\ (Right(s, d) => Right(t, d))

\* Parts of finalize one after the other.
LEMMA AppliedAgain ==
    ASSUME NEW d, NEW s, NEW t, NEW u, Applied(s, t, d), Applied(t, u, d)
    PROVE  Applied(s, u, d)
BY DoneAgain, CurrentAgain DEF Applied

\* A part of finalize that does nothing.
LEMMA AppliedSame == \A d, s : Good(s) => Applied(s, s, d)
BY ElsewhereSame DEF Applied, Done, Current

anyOf(set) == CHOOSE x \in set : TRUE

\* applyOverride: the variables that are still to be taken have a text.
overrideOp(v, t, d, q, m, n) == delVar(setVar(t, d, BaseOf[v], getVar(t, d, v)), d, v)

overrideInv(done, t, z) ==
    /\ Applied(z.from, t, z.store)
    /\ Right(z.from, z.store) =>
            \A v \in z.all \ done : findVar(t, z.store, v)["content"] \in Text(v)

O == INSTANCE Folding WITH op <- overrideOp, pick <- anyOf, Inv <- overrideInv

\* applyOverride, as a fold.
LEMMA overrideFolded ==
    ASSUME NEW S, IsFiniteSet(S), NEW base, NEW d, NEW z, O!Picks(S), overrideInv({}, base, z),
           \A part \in SUBSET S : part # {} => \A r :
                overrideInv(part \ {anyOf(part)}, r, z)
                    => overrideInv(part, overrideOp(anyOf(part), r, d, 0, 0, 0), z)
    PROVE  overrideInv(S, O!Iter(S, base, d, 0, 0, 0), z)
BY O!Folded DEF IsFiniteSet, O!IsFiniteSet

\* One variable of an override: setVar of the one it overrides, then delVar.
LEMMA overrideOpDoes ==
    ASSUME Linked, NEW d \in Store, NEW t, Good(t), NEW v \in Var, OverrideOf[v] # NoOverride
    PROVE  LET u == overrideOp(v, t, d, 0, 0, 0)
           IN /\ Done(t, u, d) /\ u.cache[d] = NoCache
              /\ findVar(t, d, v)["content"] \in Text(v) =>
                    /\ Right(t, d) => Right(u, d)
                    /\ \A w \in Var \ {v} :
                            findVar(t, d, w)["content"] \in Text(w)
                                => findVar(u, d, w)["content"] \in Text(w)
<1> DEFINE b == BaseOf[v]
           value == getVar(t, d, v)
           x == setVar(t, d, b, value)
           u == overrideOp(v, t, d, 0, 0, 0)
<1>1. u = delVar(x, d, v)
  BY DEF overrideOp
<1>2. b \in Var /\ (b \in Plain => v \in Plain)
  BY DataAssumption
<1>3. Text(v) \subseteq Text(b) /\ value \in {None} \cup Text(v)
  BY <1>2, WordsMore, ValueIn
<1>4. value \in Value(b)
  BY <1>3 DEF Value
<1>5. findVar(t, d, v)["content"] \in Text(v) => value \in Text(b)
  <2>1. findVar(t, d, v)["content"] \in Text(v) => findVar(t, d, v)["content"] # Unset
    BY TextIn, ValueAssumption
  <2> QED BY <2>1, <1>3 DEF getVar
<1> HIDE DEF b, value, u
<1>6. Done(t, x, d) /\ SetsContent(t, x, d, b, value)
  BY <1>2, <1>4, setVarDoes
<1> HIDE DEF x
<1>7. Done(x, u, d) /\ Deletes(x, u, d, v) /\ u.cache[d] = NoCache
  BY <1>1, <1>6, delVarDoes DEF Done
<1>8. Done(t, u, d)
  BY <1>6, <1>7, DoneAgain
<1>9. ASSUME findVar(t, d, v)["content"] \in Text(v), Right(t, d) PROVE Right(u, d)
  <2>1. Right(x, d)
    BY <1>2, <1>5, <1>6, <1>9, SetsContentRight DEF Right
  <2> QED BY <2>1, <1>6, <1>7, DeletesRight DEF Right, Done
<1>10. ASSUME findVar(t, d, v)["content"] \in Text(v), NEW w \in Var \ {v},
              findVar(t, d, w)["content"] \in Text(w)
       PROVE  findVar(u, d, w)["content"] \in Text(w)
  <2>1. findVar(u, d, w)["content"] = findVar(x, d, w)["content"]
    BY <1>7 DEF Deletes, SameVar
  <2>2. findVar(x, d, w)["content"] = IF w = b THEN value ELSE findVar(t, d, w)["content"]
    BY <1>6 DEF SetsContent, SameVar
  <2> QED BY <2>1, <2>2, <1>5, <1>10
<1> QED BY <1>7, <1>8, <1>9, <1>10 DEF u

\* An active override, by induction over the variables registered with it.
LEMMA applyOverrideDoes ==
    ASSUME Linked, NEW d \in Store, NEW s, Good(s), NEW o \in Override
    PROVE  Applied(s, applyOverride(s, d, o), d)
<1> DEFINE all == Registered(s.seen, d, o)
           taken == WithSeen(s, d, o, all)
           z == [from |-> s, store |-> d, all |-> all]
           t == applyOverride(s, d, o)
<1>1. CASE ~has_key(s.seen, sources, d, o)
  BY <1>1, AppliedSame DEF applyOverride
<1>2. CASE has_key(s.seen, sources, d, o)
  <2>1. t = O!Iter(all, taken, d, 0, 0, 0)
    BY <1>2, Zenon
       DEF applyOverride, FoldSet, MapThenFoldSet, O!Iter, overrideOp, anyOf, WithSeen
  <2>2. all \subseteq {v \in Var : OverrideOf[v] = o} /\ IsFiniteSet(all) /\ o # NoOverride
    <3>1. all \in SUBSET Var /\ all \subseteq {v \in Var : OverrideOf[v] = o}
      BY RegisteredIn
    <3> HIDE DEF all
    <3> QED BY <3>1, DataAssumption, FS_Subset DEF Override
  <2>3. /\ Done(s, taken, d) /\ taken.cache = s.cache
        /\ \A v \in Var : SameVar(s, taken, d, v)
        /\ \A q \in Override : Registered(taken.seen, d, q)
                                 = IF q = o THEN all ELSE Registered(s.seen, d, q)
        /\ SameSpecial(s, taken, d)
    <3> HIDE DEF all
    <3> QED BY <2>2, SeenWritten DEF Done
  <2> HIDE DEF taken, t
  <2>4. SameSeen(s, taken, d)
    BY <2>3 DEF SameSeen
  <2>5. Applied(s, taken, d)
    <3>1. Current(s, taken, d)
      BY <2>3, SameValues DEF Current
    <3>2. Right(s, d) => Right(taken, d)
      BY <2>3, <2>4, OverrideIs
         DEF Right, SeenRight, SpecialRight, KeywordRight, SameVar, SameSeen, SameSpecial
    <3> QED BY <2>3, <3>1, <3>2 DEF Applied
  <2>6. ASSUME Right(s, d), NEW v \in all PROVE findVar(taken, d, v)["content"] \in Text(v)
    <3>1. v \in Var /\ OverrideOf[v] = o /\ o # NoOverride
      BY <2>2
    <3>2. findVar(s, d, v)["content"] \notin {Unset, None}
      BY <2>6, <3>1 DEF Right, SeenRight
    <3>3. findVar(s, d, v) \in Dict(v)
      BY <3>1, FindIn
    <3>4. findVar(s, d, v)["content"] \in Text(v)
      BY <3>2, <3>3 DEF Dict, Value
    <3> QED BY <3>1, <3>4, <2>3 DEF SameVar
  <2>7. z.from = s /\ z.store = d /\ z.all = all
    OBVIOUS
  <2> HIDE DEF all, z
  <2>8. O!Picks(all)
    BY DEF O!Picks, anyOf
  <2>9. overrideInv({}, taken, z)
    BY <2>5, <2>6, <2>7 DEF overrideInv
  <2>10. ASSUME NEW part \in SUBSET all, part # {}, NEW r,
                overrideInv(part \ {anyOf(part)}, r, z)
         PROVE  overrideInv(part, overrideOp(anyOf(part), r, d, 0, 0, 0), z)
    <3> DEFINE v == anyOf(part)
               u == overrideOp(v, r, d, 0, 0, 0)
    <3>1. v \in part /\ v \in Var /\ OverrideOf[v] # NoOverride
      BY <2>2, <2>8, <2>10 DEF O!Picks
    <3> HIDE DEF v
    <3>2. /\ Applied(s, r, d)
          /\ Right(s, d) => \A w \in all \ (part \ {v}) : findVar(r, d, w)["content"] \in Text(w)
      BY <2>7, <2>10 DEF overrideInv, v
    <3>3. /\ Done(r, u, d) /\ u.cache[d] = NoCache
          /\ findVar(r, d, v)["content"] \in Text(v) =>
                /\ Right(r, d) => Right(u, d)
                /\ \A w \in Var \ {v} : findVar(r, d, w)["content"] \in Text(w)
                                            => findVar(u, d, w)["content"] \in Text(w)
      BY <3>1, <3>2, overrideOpDoes DEF Applied, Done
    <3> HIDE DEF u
    <3>4. Applied(s, u, d)
      <4>1. Done(s, u, d)
        BY <3>2, <3>3, DoneAgain DEF Applied
      <4>2. Right(s, d) => Right(u, d)
        BY <3>1, <3>2, <3>3 DEF Applied
      <4> QED BY <4>1, <4>2, <3>3 DEF Applied, Current
    <3>5. ASSUME Right(s, d), NEW w \in all \ part PROVE findVar(u, d, w)["content"] \in Text(w)
      <4>1. w \in Var \ {v} /\ w \in all \ (part \ {v}) /\ v \in all \ (part \ {v})
        BY <2>2, <3>1, <3>5
      <4> QED BY <4>1, <3>2, <3>3, <3>5
    <3> QED BY <3>4, <3>5, <2>7 DEF overrideInv, u, v
  <2>11. overrideInv(all, O!Iter(all, taken, d, 0, 0, 0), z)
    <3>1. IsFiniteSet(all)
      BY <2>2
    <3>2. \A part \in SUBSET all : part # {} => \A r :
            overrideInv(part \ {anyOf(part)}, r, z)
                => overrideInv(part, overrideOp(anyOf(part), r, d, 0, 0, 0), z)
      BY <2>10
    <3> QED BY <3>1, <3>2, <2>8, <2>9, overrideFolded
  <2> QED BY <2>1, <2>7, <2>11 DEF overrideInv, t
<1> QED BY <1>1, <1>2

\* applyPending: what is applied changes the variable's value only.
addOp(i, t, d, v, keyword, items) ==
    LET item == items[i]
        value == IF getVar(t, d, v) = None THEN <<>> ELSE getVar(t, d, v)
    IN IF waits(item) THEN t
       ELSE setVar(t, d, v, IF keyword = "_append" THEN Append(value, item.word)
                            ELSE <<item.word>> \o value)

addInv(done, t, z) ==
    /\ Applied(z.from, t, z.store)
    /\ \A k \in Keyword : pending(t, z.store, z.var, k) = pending(z.from, z.store, z.var, k)

A == INSTANCE Folding WITH op <- addOp, pick <- lastOf, Inv <- addInv

\* Indices are taken in their order.
LEMMA AddIndices ==
    ASSUME NEW n \in Nat
    PROVE  A!Picks(1..n) /\ \A k \in 1..n : lastOf(1..k) = k
BY Indices DEF F!Picks, A!Picks

\* One pending text: it is added to the value, or it waits.
LEMMA addOpDoes ==
    ASSUME Linked, NEW d \in Store, NEW t, Good(t), NEW v \in Var, NEW keyword,
           NEW items \in Seq(Item(v)), NEW i \in DOMAIN items
    PROVE  LET u == addOp(i, t, d, v, keyword, items)
           IN /\ Applied(t, u, d)
              /\ \A k \in Keyword : pending(u, d, v, k) = pending(t, d, v, k)
<1> DEFINE item == items[i]
           value == IF getVar(t, d, v) = None THEN <<>> ELSE getVar(t, d, v)
           text == IF keyword = "_append" THEN Append(value, item.word)
                   ELSE <<item.word>> \o value
           u == addOp(i, t, d, v, keyword, items)
<1>1. item.word \in Words(v)
  <2>1. item \in Item(v)
    OBVIOUS
  <2> QED BY <2>1 DEF Item
<1>2. CASE waits(item)
  <2>1. u = t
    BY <1>2 DEF addOp
  <2> HIDE DEF u
  <2> QED BY <2>1, AppliedSame DEF u
<1>3. CASE ~waits(item)
  <2>1. u = setVar(t, d, v, text)
    BY <1>3 DEF addOp
  <2>2. text \in Text(v)
    <3> DEFINE set == Words(v)
               word == item.word
    <3>1. value \in Seq(set) /\ word \in set
      BY <1>1, ValueIn DEF Text
    <3> HIDE DEF set, value, word
    <3>2. Append(value, word) \in Seq(set) \ {<<>>} /\ <<word>> \o value \in Seq(set) \ {<<>>}
      BY <3>1, AppendIn
    <3> QED BY <3>2 DEF Text, set, word
  <2>3. text \in Value(v)
    BY <2>2 DEF Value
  <2> HIDE DEF text, u
  <2>4. Done(t, u, d) /\ SetsContent(t, u, d, v, text) /\ u.cache[d] = NoCache
    BY <2>1, <2>3, setVarDoes
  <2>5. Right(t, d) => Right(u, d)
    BY <2>2, <2>4, SetsContentRight DEF Right
  <2>6. \A k \in Keyword : pending(u, d, v, k) = pending(t, d, v, k)
    BY <2>4 DEF SetsContent
  <2> QED BY <2>4, <2>5, <2>6 DEF Applied, Current, u
<1> QED BY <1>2, <1>3

\* What is pending for a variable, by induction over the list.
LEMMA applyPendingDoes ==
    ASSUME Linked, NEW d \in Store, NEW s, Good(s), NEW keyword \in Keyword, NEW v \in Var
    PROVE  Applied(s, applyPending(s, d, keyword, v), d)
<1> DEFINE items == pending(s, d, v, keyword)
           keep == Waiting(items)
           n == Len(items)
           z == [from |-> s, store |-> d, var |-> v]
           added == A!Iter(DOMAIN items, s, d, v, keyword, items)
           t == applyPending(s, d, keyword, v)
<1>1. t = keptPending(added, d, keyword, v, keep)
  BY Zenon DEF applyPending, FoldLeft, MapThenFoldSet, A!Iter, addOp, lastOf
<1>2. items \in Seq(Item(v))
  BY PendingIn
<1>3. n \in Nat /\ DOMAIN items = 1..n
  BY <1>2
<1>4. keep \in Seq(Item(v)) /\ (keep # <<>> => items # <<>>)
  <2>1. ASSUME items = <<>> PROVE keep = <<>>
    <3> DEFINE none == <<>>
    <3>1. none \in Seq({})
      OBVIOUS
    <3> HIDE DEF none
    <3>2. Waiting(none) \in Seq({})
      BY <3>1, WaitingIn
    <3>3. \A seq \in Seq({}) : seq = <<>>
      OBVIOUS
    <3> QED BY <2>1, <3>2, <3>3 DEF none
  <2> HIDE DEF items
  <2>2. keep \in Seq(Item(v))
    BY <1>2, WaitingIn
  <2> QED BY <2>1, <2>2 DEF items
<1>5. z.from = s /\ z.store = d /\ z.var = v
  OBVIOUS
<1> HIDE DEF items, keep, n, z, t
<1>6. addInv({}, s, z)
  BY <1>5, AppliedSame DEF addInv
<1>7. \A k \in 1..n : \A r :
            addInv(1..(k - 1), r, z) => addInv(1..k, addOp(k, r, d, v, keyword, items), z)
  <2> TAKE k \in 1..n
  <2> TAKE r
  <2> DEFINE u == addOp(k, r, d, v, keyword, items)
  <2> HAVE addInv(1..(k - 1), r, z)
  <2>1. /\ Applied(s, r, d)
        /\ \A kw \in Keyword : pending(r, d, v, kw) = pending(s, d, v, kw)
    BY <1>5 DEF addInv
  <2>2. k \in DOMAIN items /\ Good(r)
    BY <1>3, <2>1 DEF Applied, Done
  <2>3. /\ Applied(r, u, d)
        /\ \A kw \in Keyword : pending(u, d, v, kw) = pending(r, d, v, kw)
    BY <1>2, <2>2, addOpDoes
  <2> HIDE DEF u
  <2>4. Applied(s, u, d)
    BY <2>1, <2>3, AppliedAgain
  <2> QED BY <1>5, <2>1, <2>3, <2>4 DEF addInv, u
<1>8. addInv(1..n, A!Iter(1..n, s, d, v, keyword, items), z)
  BY <1>3, <1>6, <1>7, AddIndices, A!FoldedLeft
<1>9. Applied(s, added, d) /\ pending(added, d, v, keyword) = items
  BY <1>3, <1>5, <1>8 DEF addInv, items
<1> HIDE DEF added
<1>10. Good(added)
  BY <1>9 DEF Applied, Done
<1>11. /\ Done(added, t, d) /\ SetsPending(added, t, d, v, keyword, keep)
       /\ SameSpecial(added, t, d) /\ Current(added, t, d)
  <2>1. CASE keep # <<>>
    <3>1. t = setPending(added, d, v, keyword, keep) /\ keep \in Pending(v)
      BY <1>1, <1>4, <2>1 DEF keptPending, Pending
    <3> QED BY <3>1, <1>10, setPendingDoes
  <2>2. CASE keep = <<>>
    <3>1. t = delVarFlag(added, d, v, keyword)
      BY <1>1, <2>2 DEF keptPending
    <3> QED BY <3>1, <2>2, <1>10, delVarFlagDoes
  <2> QED BY <2>1, <2>2
<1>12. Right(added, d) => Right(t, d)
  BY <1>4, <1>9, <1>11, SetsPendingRight DEF Right
<1>13. Applied(added, t, d)
  BY <1>11, <1>12 DEF Applied
<1> QED BY <1>9, <1>13, AppliedAgain DEF t

keywordOp(v, t, d, keyword, m, n) == applyPending(t, d, keyword, v)

appliedInv(done, t, z) == Applied(z.from, t, z.store)

K == INSTANCE Folding WITH op <- keywordOp, pick <- anyOf, Inv <- appliedInv

\* A keyword, by induction over the variables registered with it.
LEMMA applyKeywordDoes ==
    ASSUME Linked, NEW d \in Store, NEW s, Good(s), NEW keyword \in Keyword
    PROVE  Applied(s, applyKeyword(s, d, keyword), d)
<1> DEFINE all == Registered(s.special, d, keyword)
           taken == WithSpecial(s, d, keyword, all)
           z == [from |-> s, store |-> d]
           t == applyKeyword(s, d, keyword)
<1>1. CASE ~has_key(s.special, sources, d, keyword)
  BY <1>1, AppliedSame DEF applyKeyword
<1>2. CASE has_key(s.special, sources, d, keyword)
  <2>1. t = K!Iter(all, taken, d, keyword, 0, 0)
    BY <1>2, Zenon
       DEF applyKeyword, FoldSet, MapThenFoldSet, K!Iter, keywordOp, anyOf, WithSpecial
  <2>2. all \in SUBSET Var
    BY RegisteredIn
  <2>3. /\ Done(s, taken, d) /\ taken.cache = s.cache
        /\ \A v \in Var : SameVar(s, taken, d, v)
        /\ \A q \in Keyword : Registered(taken.special, d, q)
                                = IF q = keyword THEN all ELSE Registered(s.special, d, q)
        /\ SameSeen(s, taken, d)
    <3> HIDE DEF all
    <3> QED BY <2>2, SpecialWritten DEF Done
  <2> HIDE DEF taken, t
  <2>4. SameSpecial(s, taken, d)
    BY <2>3 DEF SameSpecial
  <2>5. Applied(s, taken, d)
    <3>1. Current(s, taken, d)
      BY <2>3, SameValues DEF Current
    <3>2. Right(s, d) => Right(taken, d)
      BY <2>3, <2>4, OverrideIs
         DEF Right, SeenRight, SpecialRight, KeywordRight, SameVar, SameSeen, SameSpecial
    <3> QED BY <2>3, <3>1, <3>2 DEF Applied
  <2>6. z.from = s /\ z.store = d
    OBVIOUS
  <2>7. IsFiniteSet(all)
    <3> HIDE DEF all
    <3> QED BY <2>2, DataAssumption, FS_Subset
  <2> HIDE DEF all, z
  <2>8. K!Picks(all)
    BY DEF K!Picks, anyOf
  <2>9. appliedInv({}, taken, z)
    BY <2>5, <2>6 DEF appliedInv
  <2>10. \A part \in SUBSET all : part # {} => \A r :
            appliedInv(part \ {anyOf(part)}, r, z)
                => appliedInv(part, keywordOp(anyOf(part), r, d, keyword, 0, 0), z)
    <3> TAKE part \in SUBSET all
    <3> HAVE part # {}
    <3> TAKE r
    <3> DEFINE v == anyOf(part)
    <3> HAVE appliedInv(part \ {v}, r, z)
    <3>1. v \in Var
      BY <2>2, <2>8 DEF K!Picks
    <3> HIDE DEF v
    <3>2. Applied(s, r, d)
      BY <2>6 DEF appliedInv
    <3>3. Applied(r, keywordOp(v, r, d, keyword, 0, 0), d)
      BY <3>1, <3>2, applyPendingDoes DEF keywordOp, Applied, Done
    <3>4. Applied(s, keywordOp(v, r, d, keyword, 0, 0), d)
      BY <3>2, <3>3, AppliedAgain
    <3> QED BY <3>4, <2>6 DEF appliedInv, v
  <2>11. appliedInv(all, K!Iter(all, taken, d, keyword, 0, 0), z)
    BY <2>7, <2>8, <2>9, <2>10, K!Folded DEF IsFiniteSet, K!IsFiniteSet
  <2> QED BY <2>1, <2>6, <2>11 DEF appliedInv, t
<1> QED BY <1>1, <1>2

finalOp(i, t, d, active, m, n) == applyOverride(t, d, active[i])

E == INSTANCE Folding WITH op <- finalOp, pick <- lastOf, Inv <- appliedInv

\* finalize, by induction over OVERRIDES.
LEMMA finalizeDoes ==
    ASSUME Linked, NEW d \in Store, NEW s, Good(s), overrides \in Seq(Override)
    PROVE  Applied(s, finalize(s, d), d)
<1> DEFINE n == Len(overrides)
           z == [from |-> s, store |-> d]
           overridden == E!Iter(DOMAIN overrides, s, d, overrides, 0, 0)
           appended == applyKeyword(overridden, d, "_append")
           t == finalize(s, d)
<1>1. t = applyKeyword(appended, d, "_prepend")
  BY Zenon DEF finalize, FoldLeft, MapThenFoldSet, E!Iter, finalOp, lastOf
<1>2. n \in Nat /\ DOMAIN overrides = 1..n
  OBVIOUS
<1>3. z.from = s /\ z.store = d
  OBVIOUS
<1> HIDE DEF n, z, t
<1>4. appliedInv({}, s, z)
  BY <1>3, AppliedSame DEF appliedInv
<1>5. \A k \in 1..n : \A r :
            appliedInv(1..(k - 1), r, z) => appliedInv(1..k, finalOp(k, r, d, overrides, 0, 0), z)
  <2> TAKE k \in 1..n
  <2> TAKE r
  <2> HAVE appliedInv(1..(k - 1), r, z)
  <2>1. Applied(s, r, d)
    BY <1>3 DEF appliedInv
  <2>2. overrides[k] \in Override
    BY <1>2
  <2>3. Applied(r, finalOp(k, r, d, overrides, 0, 0), d)
    BY <2>1, <2>2, applyOverrideDoes DEF finalOp, Applied, Done
  <2>4. Applied(s, finalOp(k, r, d, overrides, 0, 0), d)
    BY <2>1, <2>3, AppliedAgain
  <2> QED BY <1>3, <2>4 DEF appliedInv
<1>6. E!Picks(1..n) /\ \A k \in 1..n : lastOf(1..k) = k
  BY <1>2, Indices DEF F!Picks, E!Picks
<1>7. appliedInv(1..n, E!Iter(1..n, s, d, overrides, 0, 0), z)
  BY <1>2, <1>4, <1>5, <1>6, E!FoldedLeft
<1>8. Applied(s, overridden, d)
  BY <1>2, <1>3, <1>7 DEF appliedInv
<1> HIDE DEF overridden
<1>9. Applied(overridden, appended, d)
  BY <1>8, applyKeywordDoes DEF Applied, Done, Keyword
<1> HIDE DEF appended
<1>10. Applied(appended, t, d)
  BY <1>1, <1>9, applyKeywordDoes DEF Applied, Done, Keyword
<1> QED BY <1>8, <1>9, <1>10, AppliedAgain DEF t
=============================================================================
