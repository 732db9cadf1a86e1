-------------------------- MODULE DataSmart_proofs --------------------------
(***************************************************************************)
(* Theorems about the metadata store: each step is one of the operations   *)
(* of DataSmartOps_proofs at a store, after which the lists that no        *)
(* variable holds are collected, or it makes a copy or reads a value.      *)
(***************************************************************************)
EXTENDS DataSmartOps_proofs, SequenceTheorems

\* The inductive invariant: TypeOK, the types of what the store is made of, and
\* that there is nothing in a store before it is made.
NotMade(d) ==
    /\ sources[d] = {d} /\ data.cache[d] = NoCache
    /\ \A v \in Var : data.dict[d][v] = Absent
    /\ \A o \in Override : data.seen[d][o] = Absent
    /\ \A k \in Keyword : data.special[d][k] = Absent

DataInv ==
    /\ made \in Store /\ overrides \in Seq(Override)
    /\ late \subseteq 2..made /\ flagged \subseteq 1..made
    /\ Linked /\ Good(data)
    /\ \A d \in Store : d > made => NotMade(d)
    /\ Held(data) = {l \in List : data.lists[l] # <<>>}

\* Store e answers the same.
Unaffected(s, t, e) ==
    (\A v \in Var : SameVar(s, t, e, v)) /\ SameSeen(s, t, e) /\ SameSpecial(s, t, e)
-----------------------------------------------------------------------------
(* What a step at a store leaves alone                                     *)

\* The stores that are made are stores.
LEMMA MadeStores == DataInv => \A e \in 1..made : e \in Store
<1> SUFFICES ASSUME DataInv, NEW e \in 1..made PROVE e \in Store
  OBVIOUS
<1>1. made \in 1..MaxStores /\ MaxStores \in Nat
  BY DataAssumption DEF DataInv, Store
<1>2. e \in 1..MaxStores
  BY <1>1
<1> QED BY <1>2 DEF Store

\* A store that is no copy of d is left alone by what changes d elsewhere.
LEMMA ElsewhereUnaffected ==
    ASSUME Linked, NEW d \in Store, NEW s, Good(s), NEW t, Elsewhere(s, t, d),
           NEW e \in Store, e # d, d \notin sources[e]
    PROVE  Unaffected(s, t, e)
<1>1. \A c \in sources[e] : c \in Store \ {d}
  BY DEF Linked
<1>2. ASSUME NEW v \in Var PROVE SameVar(s, t, e, v)
  <2>1. findVar(t, e, v) = findVar(s, e, v)
    <3>1. \A c \in sources[e] : t.dict[c][v] = s.dict[c][v]
      BY <1>1 DEF Elsewhere
    <3> QED BY <3>1, FindSame
  <2>2. ASSUME NEW k \in Keyword PROVE pending(t, e, v, k) = pending(s, e, v, k)
    <3> DEFINE h == Holder(s.dict, sources, e, v)
               list == findVar(s, e, v)[k]
    <3>1. CASE list = Unset
      BY <2>1, <3>1 DEF pending
    <3>2. CASE list # Unset /\ h = 0
      BY <3>2 DEF findVar, Empty, Flag, Keyword
    <3>3. CASE list # Unset /\ h # 0
      <4>1. Finds(s.dict, e, v, h)
        BY HolderFinds
      <4>2. h \in Store \ {d} /\ s.dict[h][v] # Absent
        BY <1>1, <3>3, <4>1 DEF Finds
      <4>3. findVar(s, e, v) = s.dict[h][v]
        BY <3>3 DEF findVar, getreadonly
      <4>4. t.lists[s.dict[h][v][k]] = s.lists[s.dict[h][v][k]]
        BY <3>3, <4>2, <4>3 DEF Elsewhere
      <4> QED BY <2>1, <4>3, <4>4 DEF pending
    <3> QED BY <3>1, <3>2, <3>3
  <2> QED BY <2>1, <2>2 DEF SameVar
<1>3. SameSeen(s, t, e)
  <2>1. ASSUME NEW o \in Override PROVE Registered(t.seen, e, o) = Registered(s.seen, e, o)
    <3>1. \A c \in sources[e] : t.seen[c][o] = s.seen[c][o]
      BY <1>1 DEF Elsewhere
    <3> QED BY <3>1, RegisteredSame
  <2> QED BY <2>1 DEF SameSeen
<1>4. SameSpecial(s, t, e)
  <2>1. ASSUME NEW k \in Keyword PROVE Registered(t.special, e, k) = Registered(s.special, e, k)
    <3>1. \A c \in sources[e] : t.special[c][k] = s.special[c][k]
      BY <1>1 DEF Elsewhere
    <3> QED BY <3>1, RegisteredSame
  <2> QED BY <2>1 DEF SameSpecial
<1> QED BY <1>2, <1>3, <1>4 DEF Unaffected

\* Where a list is held.
LEMMA HeldOf ==
    ASSUME NEW s, NEW l \in Held(s)
    PROVE  \E d \in Store, v \in Var, k \in Keyword :
                s.dict[d][v] # Absent /\ s.dict[d][v][k] # Unset /\ l = s.dict[d][v][k]
<1>1. PICK p \in {q \in Place : s.dict[q[1]][q[2]] # Absent} :
            l = s.dict[p[1]][p[2]][p[3]] /\ l # Unset
  BY DEF Held
<1>2. p[1] \in Store /\ p[2] \in Var /\ p[3] \in Keyword
  BY DEF Place
<1> QED BY <1>1, <1>2

\* A list that is collected is one that no variable holds.
LEMMA CollectedDoes ==
    ASSUME Linked, NEW s, Good(s)
    PROVE  LET t == Collected(s)
           IN /\ Good(t) /\ t.dict = s.dict /\ t.seen = s.seen /\ t.special = s.special
              /\ t.cache = s.cache
              /\ Held(t) = {l \in List : t.lists[l] # <<>>}
              /\ \A e \in Store : Unaffected(s, t, e)
<1> DEFINE held == Held(s)
           t == Collected(s)
<1>1. t = [dict |-> s.dict, seen |-> s.seen, special |-> s.special, cache |-> s.cache,
           lists |-> [l \in List |-> IF l \in held THEN s.lists[l] ELSE <<>>]]
  BY DEF Collected, Good
<1>2. held \subseteq List /\ \A l \in held : s.lists[l] # <<>>
  <2>1. ASSUME NEW l \in held PROVE l \in List /\ s.lists[l] # <<>>
    <3>1. PICK d \in Store, v \in Var, k \in Keyword :
            s.dict[d][v] # Absent /\ s.dict[d][v][k] # Unset /\ l = s.dict[d][v][k]
      BY HeldOf
    <3>2. s.dict[d][v] \in Dict(v)
      BY <3>1 DEF Good, GoodDict
    <3> QED BY <3>1, <3>2 DEF Good, GoodLists, Pending, Dict, Keyword
  <2> QED BY <2>1
<1>3. Held(t) = held
  <2>1. t.dict = s.dict
    BY <1>1
  <2> HIDE DEF t
  <2> QED BY <2>1 DEF Held
<1> HIDE DEF t
<1>4. /\ t.dict = s.dict /\ t.seen = s.seen /\ t.special = s.special /\ t.cache = s.cache
      /\ t.lists = [l \in List |-> IF l \in held THEN s.lists[l] ELSE <<>>]
  BY <1>1
<1> HIDE DEF held
<1>5. Held(t) = {l \in List : t.lists[l] # <<>>} /\ \A l \in held : t.lists[l] = s.lists[l]
  BY <1>2, <1>3, <1>4
<1>6. Good(t)
  <2>1. t = [dict |-> t.dict, seen |-> t.seen, special |-> t.special,
             cache |-> t.cache, lists |-> t.lists]
    BY <1>1
  <2>2. GoodLists(t)
    <3>1. \A d \in Store, v \in Var, k \in Keyword :
            s.dict[d][v] # Absent /\ s.dict[d][v][k] # Unset
                => t.lists[s.dict[d][v][k]] = s.lists[s.dict[d][v][k]]
      BY <1>5, HeldIs DEF held
    <3>2. t.lists = [l \in List |-> t.lists[l]]
      BY <1>4
    <3> QED BY <3>1, <3>2, <1>4 DEF Good, GoodLists
  <2> QED BY <2>1, <2>2, <1>4 DEF Good, GoodDict, GoodSeen, GoodSpecial
<1>7. ASSUME NEW e \in Store PROVE Unaffected(s, t, e)
  <2>1. ASSUME NEW v \in Var PROVE SameVar(s, t, e, v)
    <3>1. findVar(t, e, v) = findVar(s, e, v)
      BY <1>4, FindSame
    <3>2. ASSUME NEW k \in Keyword PROVE pending(t, e, v, k) = pending(s, e, v, k)
      <4>1. findVar(s, e, v)[k] # Unset => findVar(s, e, v)[k] \in held
        BY FindIn DEF held
      <4> QED BY <3>1, <4>1, <1>5 DEF pending
    <3> QED BY <3>1, <3>2 DEF SameVar
  <2> QED BY <2>1, <1>4 DEF Unaffected, SameSeen, SameSpecial
<1> QED BY <1>3, <1>4, <1>5, <1>6, <1>7 DEF t
-----------------------------------------------------------------------------
(* Steps                                                                   *)

\* What a store answers after a step that leaves the sources alone.
LEMMA Primed ==
    ASSUME sources' = sources
    PROVE  /\ \A e, v : findVar(data, e, v)' = findVar(data', e, v)
           /\ \A e, v : getVar(data, e, v)' = getVar(data', e, v)
           /\ \A e, v, k : pending(data, e, v, k)' = pending(data', e, v, k)
           /\ \A e, o : Registered(data.seen, e, o)' = Registered(data'.seen, e, o)
           /\ \A e, k : Registered(data.special, e, k)' = Registered(data'.special, e, k)
<1>1. \A own, e, key : Holder(own, sources, e, key)' = Holder(own', sources, e, key)
  BY DEF Holder
<1>2. \A e, v : findVar(data, e, v)' = findVar(data', e, v)
  BY DEF findVar, getreadonly, Holder
<1>3. \A e, v : getVar(data, e, v)' = getVar(data', e, v)
  BY <1>2 DEF getVar
<1>4. \A e, v, k : pending(data, e, v, k)' = pending(data', e, v, k)
  BY <1>2 DEF pending
<1>5. \A e, o : Registered(data.seen, e, o)' = Registered(data'.seen, e, o)
  BY DEF Registered, has_key, getreadonly, Holder
<1>6. \A e, k : Registered(data.special, e, k)' = Registered(data'.special, e, k)
  BY DEF Registered, has_key, getreadonly, Holder
<1> QED BY <1>2, <1>3, <1>4, <1>5, <1>6

\* An operation at a store that is made.
LEMMA BecomesDoes ==
    ASSUME DataInv, NEW d \in 1..made, NEW s, Done(data, s, d), NEW unseen \in SUBSET {d},
           Becomes(d, s, unseen)
    PROVE  /\ DataInv' /\ sources' = sources /\ made' = made
           /\ data'.cache = s.cache
           /\ \A e \in (1..made) \ ({d} \cup Below(d)) : Unaffected(data, data', e)
           /\ Unaffected(s, data', d)
<1>1. /\ Linked /\ Good(data) /\ Good(s) /\ Elsewhere(data, s, d) /\ d \in Store
      /\ made \in Store /\ \A e \in 1..made : e \in Store
  BY MadeStores DEF DataInv, Done
<1>2. /\ data' = Collected(s) /\ sources' = sources /\ made' = made /\ overrides' = overrides
      /\ late' = late \cup Below(d)
      /\ flagged' = {e \in flagged \cup unseen : data'.cache[e] # NoCache}
  BY DEF Becomes
<1>3. /\ Good(data') /\ data'.dict = s.dict /\ data'.seen = s.seen
      /\ data'.special = s.special /\ data'.cache = s.cache
      /\ Held(data') = {l \in List : data'.lists[l] # <<>>}
      /\ \A e \in Store : Unaffected(s, data', e)
  BY <1>1, <1>2, CollectedDoes
<1>4. late' \subseteq 2..made' /\ flagged' \subseteq 1..made'
  <2>1. \A e \in Below(d) : e \in 1..made /\ e # d /\ d \in 1..e
    BY <1>1 DEF Below, Linked
  <2>2. Below(d) \subseteq 2..made
    BY <2>1, <1>1 DEF Store
  <2> QED BY <1>2, <2>2 DEF DataInv
<1>5. ASSUME NEW e \in Store, e > made PROVE NotMade(e)'
  <2>1. NotMade(e) /\ e # d
    BY <1>1, <1>5 DEF DataInv, Store
  <2>2. /\ s.dict[e] = data.dict[e] /\ s.seen[e] = data.seen[e]
        /\ s.special[e] = data.special[e] /\ s.cache[e] = data.cache[e]
    BY <1>1, <2>1 DEF Elsewhere
  <2> QED BY <1>2, <1>3, <2>1, <2>2 DEF NotMade
<1>6. DataInv'
  <2>1. Good(data)' /\ (Held(data) = {l \in List : data.lists[l] # <<>>})'
    BY <1>3
  <2>2. Linked'
    BY <1>1, <1>2 DEF Linked
  <2> QED BY <1>1, <1>2, <1>4, <1>5, <2>1, <2>2 DEF DataInv
<1>7. ASSUME NEW e \in (1..made) \ ({d} \cup Below(d)) PROVE Unaffected(data, data', e)
  <2>1. e \in Store /\ e # d /\ d \notin sources[e]
    BY <1>1, <1>7 DEF Below
  <2>2. Unaffected(data, s, e) /\ Unaffected(s, data', e)
    BY <1>1, <1>3, <2>1, ElsewhereUnaffected
  <2> QED BY <2>2, SameAgain DEF Unaffected
<1> QED BY <1>1, <1>2, <1>3, <1>6, <1>7

\* Which operation a step at a store is, and what that operation establishes.
LEMMA StepIs ==
    ASSUME DataInv, NEW d \in 1..made, Step(d)
    PROVE  \/ \E s, unseen : /\ Done(data, s, d) /\ unseen \in SUBSET {d}
                             /\ Becomes(d, s, unseen)
                             /\ Right(data, d) => Right(s, d)
                             /\ Current(data, s, d) \/ unseen = {d}
           \/ GetVar(d) \/ CreateCopy(d)
<1>0. Linked /\ Good(data) /\ d \in Store
  BY MadeStores DEF DataInv
<1>1. CASE SetVar(d)
  <2>1. PICK i \in SetVarInputs : Becomes(d, setVar(data, d, i[1], i[2]), {})
    BY <1>1 DEF SetVar
  <2> DEFINE v == i[1]
             value == i[2]
             s == setVar(data, d, v, value)
  <2>2. v \in Var /\ value \in Text(v) /\ value \in Value(v)
    BY DataAssumption DEF Value
  <2>3. Becomes(d, s, {})
    BY <2>1
  <2> HIDE DEF v, value
  <2>4. Done(data, s, d) /\ SetsContent(data, s, d, v, value) /\ s.cache[d] = NoCache
    BY <1>0, <2>2, setVarDoes
  <2> HIDE DEF s
  <2>5. Right(data, d) => Right(s, d)
    BY <1>0, <2>2, <2>4, SetsContentRight DEF Right
  <2> QED BY <2>3, <2>4, <2>5 DEF Current
<1>2. CASE SetVarKeyword(d)
  <2>1. PICK i \in KeywordInputs : Becomes(d, setVarKeyword(data, d, i[1], i[2], i[3]), {})
    BY <1>2 DEF SetVarKeyword
  <2> DEFINE v == i[1]
             keyword == i[2]
             item == i[3]
             items == Append(pending(data, d, v, keyword), item)
             s == setVarKeyword(data, d, v, keyword, item)
  <2>2. v \in Var /\ keyword \in Keyword /\ item \in Item(v)
    BY DataAssumption
  <2>3. Becomes(d, s, {})
    BY <2>1
  <2> HIDE DEF v, keyword, item
  <2>4. /\ Done(data, s, d) /\ SetsPending(data, s, d, v, keyword, items)
        /\ \A k \in Keyword : Registered(s.special, d, k)
              = Registered(data.special, d, k) \cup (IF k = keyword THEN {v} ELSE {})
        /\ s.cache[d] = NoCache
    BY <1>0, <2>2, setVarKeywordDoes
  <2> HIDE DEF s, items
  <2>5. ASSUME Right(data, d) PROVE Right(s, d)
    <3>1. SeenRight(s, d)
      BY <1>0, <2>2, <2>4, <2>5, SetsPendingRight DEF Right
    <3>2. ASSUME NEW w \in Var, NEW k \in Keyword, pending(s, d, w, k) # <<>>
          PROVE  w \in Registered(s.special, d, k)
      <4>1. CASE w = v /\ k = keyword
        BY <2>4, <4>1
      <4>2. CASE ~(w = v /\ k = keyword)
        <5>1. pending(s, d, w, k) = pending(data, d, w, k)
          BY <2>4, <4>2 DEF SetsPending, SameVar
        <5> QED BY <5>1, <2>4, <2>5, <3>2 DEF Right, SpecialRight, KeywordRight
      <4> QED BY <4>1, <4>2
    <3> QED BY <3>1, <3>2 DEF Right, SpecialRight, KeywordRight
  <2> QED BY <2>3, <2>4, <2>5 DEF Current
<1>3. CASE SetDefault(d)
  <2>1. PICK i \in DefaultInputs : Becomes(d, setVarFlag(data, d, i[1], "defaultval", i[2]), {d})
    BY <1>3 DEF SetDefault
  <2> DEFINE v == i[1]
             value == i[2]
             s == setVarFlag(data, d, v, "defaultval", value)
  <2>2. v \in Var /\ value \in Value(v)
    BY DataAssumption DEF Value
  <2>3. Becomes(d, s, {d})
    BY <2>1
  <2> HIDE DEF v, value
  <2>4. /\ Done(data, s, d)
        /\ findVar(s, d, v) = [findVar(data, d, v) EXCEPT !["defaultval"] = value]
        /\ \A k \in Keyword : pending(s, d, v, k) = pending(data, d, v, k)
        /\ \A w \in Var \ {v} : SameVar(data, s, d, w)
        /\ SameSeen(data, s, d) /\ SameSpecial(data, s, d)
    BY <1>0, <2>2, ValueSet
  <2> HIDE DEF s
  <2>5. findVar(s, d, v)["content"] = findVar(data, d, v)["content"]
    <3>1. findVar(data, d, v) \in Dict(v)
      BY <1>0, <2>2, FindIn
    <3> QED BY <2>4, <3>1 DEF Dict
  <2>6. /\ \A w \in Var : findVar(s, d, w)["content"] = findVar(data, d, w)["content"]
        /\ \A w \in Var, k \in Keyword : pending(s, d, w, k) = pending(data, d, w, k)
    BY <2>4, <2>5 DEF SameVar
  <2>7. Right(data, d) => Right(s, d)
    BY <2>4, <2>6, OverrideIs
       DEF Right, SeenRight, SpecialRight, KeywordRight, SameSeen, SameSpecial
  <2> QED BY <2>3, <2>4, <2>7
<1>4. CASE DelVar(d)
  <2>1. PICK v \in DelVarInputs : Becomes(d, delVar(data, d, v), {})
    BY <1>4 DEF DelVar
  <2> DEFINE s == delVar(data, d, v)
  <2>2. v \in Var
    BY DataAssumption
  <2>3. Done(data, s, d) /\ Deletes(data, s, d, v) /\ s.cache[d] = NoCache
    BY <1>0, <2>2, delVarDoes
  <2>4. Becomes(d, s, {})
    BY <2>1
  <2> HIDE DEF s
  <2>5. Right(data, d) => Right(s, d)
    BY <1>0, <2>2, <2>3, DeletesRight DEF Right
  <2> QED BY <2>3, <2>4, <2>5 DEF Current
<1>5. CASE RenameVar(d)
  <2>1. PICK i \in RenameInputs : Becomes(d, renameVar(data, d, i[1], i[2]), {})
    BY <1>5 DEF RenameVar
  <2> DEFINE key == i[1]
             newkey == i[2]
             s == renameVar(data, d, key, newkey)
  <2>2. key \in Var /\ newkey \in Var /\ (newkey \in Plain => key \in Plain)
    BY DataAssumption
  <2>3. Becomes(d, s, {})
    BY <2>1
  <2> HIDE DEF key, newkey
  <2>4. Done(data, s, d) /\ s.cache[d] = NoCache /\ (Right(data, d) => Right(s, d))
    BY <1>0, <2>2, renameVarDoes
  <2> HIDE DEF s
  <2> QED BY <2>3, <2>4 DEF Current
<1>6. CASE Finalize(d)
  <2>1. Becomes(d, finalize(data, d), {})
    BY <1>6 DEF Finalize
  <2>2. Applied(data, finalize(data, d), d)
    BY <1>0, finalizeDoes DEF DataInv
  <2> QED BY <2>1, <2>2 DEF Applied
<1> QED BY <1>1, <1>2, <1>3, <1>4, <1>5, <1>6 DEF Step
-----------------------------------------------------------------------------
(* Reading and copying                                                     *)

\* The inductive invariant holds at first.
LEMMA InitIs == Init => DataInv
<1> SUFFICES ASSUME Init PROVE DataInv
  OBVIOUS
<1>1. /\ made = 1 /\ late = {} /\ flagged = {} /\ overrides \in OverridesSet
      /\ sources = [d \in Store |-> {d}]
  BY DEF Init
<1>2. /\ data.dict = [d \in Store |-> [v \in Var |-> Absent]]
      /\ data.seen = [d \in Store |-> [o \in Override |-> Absent]]
      /\ data.special = [d \in Store |-> [k \in Keyword |-> Absent]]
      /\ data.cache = [d \in Store |-> NoCache]
      /\ data.lists = [l \in List |-> <<>>]
      /\ data = [dict |-> data.dict, seen |-> data.seen, special |-> data.special,
                 cache |-> data.cache, lists |-> data.lists]
  BY DEF Init
<1>3. made \in Store /\ overrides \in Seq(Override)
  BY <1>1, DataAssumption DEF Store
<1>4. Linked
  BY <1>1, DataAssumption DEF Linked, Store
<1>5. Good(data)
  BY <1>2 DEF Good, GoodDict, GoodLists, GoodSeen, GoodSpecial
<1>6. \A d \in Store : NotMade(d)
  BY <1>1, <1>2 DEF NotMade
<1>7. Held(data) = {l \in List : data.lists[l] # <<>>}
  <2>1. \A l : l \notin Held(data)
    BY <1>2, HeldOf
  <2>2. {l \in List : data.lists[l] # <<>>} = {}
    BY <1>2
  <2> QED BY <2>1, <2>2
<1> QED BY <1>1, <1>3, <1>4, <1>5, <1>6, <1>7 DEF DataInv

\* Where two stores, or a store before and after a step, have the same holders of
\* a key, they find the same.
LEMMA HolderLike ==
    ASSUME NEW own, NEW key, NEW mro, NEW after, NEW e, NEW f,
           {c \in after[e] : own[c][key] # Absent} = {c \in mro[f] : own[c][key] # Absent}
    PROVE  Holder(own, after, e, key) = Holder(own, mro, f, key)
<1> DEFINE Top(S) == IF S = {} THEN 0 ELSE CHOOSE c \in S : \A b \in S : b <= c
<1>1. Holder(own, after, e, key) = Top({c \in after[e] : own[c][key] # Absent})
  BY Zenon DEF Holder
<1>2. Holder(own, mro, f, key) = Top({c \in mro[f] : own[c][key] # Absent})
  BY Zenon DEF Holder
<1> HIDE DEF Top
<1> QED BY <1>1, <1>2

\* Store e answers as f did before the step.
AnswersAs(e, f) ==
    /\ \A v \in Var : /\ findVar(data, e, v)' = findVar(data, f, v)
                      /\ getVar(data, e, v)' = getVar(data, f, v)
                      /\ \A k \in Keyword : pending(data, e, v, k)' = pending(data, f, v, k)
    /\ \A o \in Override : Registered(data.seen, e, o)' = Registered(data.seen, f, o)
    /\ \A k \in Keyword : Registered(data.special, e, k)' = Registered(data.special, f, k)

\* A copy answers as the store it is made from, and the others as before.
LEMMA CreateCopyDoes ==
    ASSUME DataInv, NEW d \in 1..made, CreateCopy(d)
    PROVE  /\ DataInv'
           /\ data' = data /\ made' = made + 1 /\ data.cache[made + 1] = NoCache
           /\ flagged' = flagged
           /\ \A e \in 1..made' : \E f \in 1..made :
                /\ f = IF e = made + 1 THEN d ELSE e
                /\ f \in late => e \in late'
                /\ AnswersAs(e, f)
<1> DEFINE m == made + 1
<1>1. /\ made \in Nat /\ MaxStores \in Nat /\ m \in Store /\ d \in Store /\ d < m
      /\ \A e \in 1..made : e \in Store /\ e < m
      /\ \A e \in 1..m : e = m \/ e \in 1..made
  <2>1. made \in 1..MaxStores /\ MaxStores \in Nat /\ made < MaxStores
    BY DataAssumption DEF DataInv, Store, CreateCopy
  <2> QED BY <2>1 DEF Store
<1>2. /\ data' = data /\ made' = m /\ flagged' = flagged /\ overrides' = overrides
      /\ sources' = [sources EXCEPT ![m] = {m} \cup sources[d]]
      /\ late' = IF d \in late THEN late \cup {m} ELSE late
  BY DEF CreateCopy
<1>3. Linked /\ Good(data) /\ NotMade(m)
  BY <1>1 DEF DataInv
<1>4. /\ sources'[m] = {m} \cup sources[d]
      /\ \A e \in Store \ {m} : sources'[e] = sources[e]
  BY <1>1, <1>2, <1>3 DEF Linked
<1>5. Linked'
  <2>1. ASSUME NEW e \in Store PROVE e \in sources'[e] /\ sources'[e] \subseteq 1..e
    <3>1. CASE e = m
      <4>1. sources[d] \subseteq 1..d /\ d \in Nat /\ m \in Nat
        BY <1>1, <1>3 DEF Linked
      <4> QED BY <3>1, <4>1, <1>1, <1>4
    <3>2. CASE e # m
      BY <3>2, <1>3, <1>4 DEF Linked
    <3> QED BY <3>1, <3>2
  <2>2. {m} \cup sources[d] \in SUBSET Store
    BY <1>1, <1>3 DEF Linked
  <2>3. sources' \in [Store -> SUBSET Store]
    BY <1>2, <1>3, <2>2 DEF Linked
  <2> QED BY <2>1, <2>3 DEF Linked
<1>6. DataInv'
  <2>1. late' \subseteq 2..made' /\ flagged' \subseteq 1..made'
    <3>1. late \subseteq 2..made /\ flagged \subseteq 1..made
      BY DEF DataInv
    <3>2. m \in 2..m
      BY <1>1
    <3> QED BY <1>1, <1>2, <3>1, <3>2
  <2>2. ASSUME NEW e \in Store, e > made' PROVE NotMade(e)'
    <3>1. e > made /\ e # m
      BY <1>1, <1>2, <2>2 DEF Store
    <3> QED BY <3>1, <1>2, <1>4 DEF DataInv, NotMade
  <2>3. Good(data)'
    BY <1>2, <1>3 DEF Good, GoodDict, GoodLists, GoodSeen, GoodSpecial
  <2>4. (Held(data) = {l \in List : data.lists[l] # <<>>})'
    BY <1>2 DEF DataInv, Held
  <2> QED BY <1>1, <1>2, <1>5, <2>1, <2>2, <2>3, <2>4 DEF DataInv
<1>7. ASSUME NEW e \in 1..made', NEW f, f = IF e = m THEN d ELSE e
      PROVE  /\ f \in 1..made
             /\ f \in late => e \in late'
             /\ AnswersAs(e, f)
  <2>1. f \in 1..made /\ f \in Store /\ (f \in late => e \in late')
    BY <1>1, <1>2, <1>7
  <2>2. sources'[e] = sources[f] \/ (e = m /\ sources'[e] = {m} \cup sources[f])
    BY <1>1, <1>2, <1>4, <1>7
  <2>3. ASSUME NEW own, NEW key, own[m][key] = Absent
        PROVE  Holder(own, sources', e, key) = Holder(own, sources, f, key)
    <3>1. {c \in sources'[e] : own[c][key] # Absent} = {c \in sources[f] : own[c][key] # Absent}
      BY <2>2, <2>3
    <3> QED BY <3>1, HolderLike
  <2>4. ASSUME NEW v \in Var PROVE findVar(data, e, v)' = findVar(data, f, v)
    <3>1. data.dict[m][v] = Absent
      BY <1>3 DEF NotMade
    <3>2. Holder(data.dict, sources', e, v) = Holder(data.dict, sources, f, v)
      BY <2>3, <3>1
    <3>3. findVar(data, e, v)' = IF Holder(data.dict, sources', e, v) = 0 THEN Empty
                                 ELSE data.dict[Holder(data.dict, sources', e, v)][v]
      BY <1>2 DEF findVar, getreadonly, Holder
    <3>4. findVar(data, f, v) = IF Holder(data.dict, sources, f, v) = 0 THEN Empty
                                ELSE data.dict[Holder(data.dict, sources, f, v)][v]
      BY DEF findVar, getreadonly
    <3> QED BY <3>2, <3>3, <3>4
  <2>5. ASSUME NEW v \in Var PROVE getVar(data, e, v)' = getVar(data, f, v)
    BY <2>4 DEF getVar
  <2>6. ASSUME NEW v \in Var, NEW k \in Keyword
        PROVE  pending(data, e, v, k)' = pending(data, f, v, k)
    BY <1>2, <2>4 DEF pending
  <2>7. ASSUME NEW o \in Override PROVE Registered(data.seen, e, o)' = Registered(data.seen, f, o)
    <3>1. data.seen[m][o] = Absent
      BY <1>3 DEF NotMade
    <3>2. Holder(data.seen, sources', e, o) = Holder(data.seen, sources, f, o)
      BY <2>3, <3>1
    <3>3. Registered(data.seen, e, o)' = IF Holder(data.seen, sources', e, o) = 0 THEN {}
                                         ELSE data.seen[Holder(data.seen, sources', e, o)][o]
      BY <1>2 DEF Registered, has_key, getreadonly, Holder
    <3>4. Registered(data.seen, f, o) = IF Holder(data.seen, sources, f, o) = 0 THEN {}
                                        ELSE data.seen[Holder(data.seen, sources, f, o)][o]
      BY DEF Registered, has_key, getreadonly
    <3> QED BY <3>2, <3>3, <3>4
  <2>8. ASSUME NEW k \in Keyword
        PROVE  Registered(data.special, e, k)' = Registered(data.special, f, k)
    <3>1. data.special[m][k] = Absent
      BY <1>3 DEF NotMade
    <3>2. Holder(data.special, sources', e, k) = Holder(data.special, sources, f, k)
      BY <2>3, <3>1
    <3>3. Registered(data.special, e, k)' = IF Holder(data.special, sources', e, k) = 0 THEN {}
                                            ELSE data.special[Holder(data.special, sources', e, k)][k]
      BY <1>2 DEF Registered, has_key, getreadonly, Holder
    <3>4. Registered(data.special, f, k) = IF Holder(data.special, sources, f, k) = 0 THEN {}
                                           ELSE data.special[Holder(data.special, sources, f, k)][k]
      BY DEF Registered, has_key, getreadonly
    <3> QED BY <3>2, <3>3, <3>4
  <2> QED BY <2>1, <2>4, <2>5, <2>6, <2>7, <2>8 DEF AnswersAs
<1>8. data.cache[m] = NoCache
  BY <1>3 DEF NotMade
<1> HIDE DEF m
<1>9. ASSUME NEW e \in 1..made'
      PROVE  \E f \in 1..made :
                /\ f = IF e = m THEN d ELSE e
                /\ f \in late => e \in late'
                /\ AnswersAs(e, f)
  <2> DEFINE f == IF e = m THEN d ELSE e
  <2>1. f = IF e = m THEN d ELSE e
    OBVIOUS
  <2> HIDE DEF f
  <2>2. f \in 1..made
    BY <1>7, <2>1
  <2> WITNESS f \in 1..made
  <2> QED BY <1>7, <2>1
<1> QED BY <1>2, <1>6, <1>8, <1>9 DEF m

\* Reading a value changes the store's cache, and nothing else.
LEMMA GetVarDoes ==
    ASSUME DataInv, NEW d \in 1..made, GetVar(d)
    PROVE  /\ DataInv'
           /\ UNCHANGED <<sources, made, overrides, calls, late, flagged>>
           /\ data'.dict = data.dict /\ data'.seen = data.seen
           /\ data'.special = data.special /\ data'.lists = data.lists
           /\ \A e \in Store \ {d} : data'.cache[e] = data.cache[e]
           /\ \E v \in Var : data'.cache[d] = [w \in Var |->
                IF \/ w = v /\ getVar(data, d, v) # None /\ data.cache[d][v] = None
                   \/ /\ getVar(data, d, v) # None /\ data.cache[d][v] = None
                      /\ w \in ToSet(getVar(data, d, v)) /\ getVar(data, d, w) # None
                THEN expand(data, d, w) ELSE data.cache[d][w]]
<1>1. PICK v \in GetVarInputs :
        LET text == getVar(data, d, v)
            read == IF text = None \/ data.cache[d][v] # None THEN {}
                    ELSE {v} \cup {w \in Var : w \in ToSet(text) /\ getVar(data, d, w) # None}
        IN data' = [data EXCEPT !.cache[d] =
                [w \in Var |-> IF w \in read THEN expand(data, d, w) ELSE @[w]]]
  BY DEF GetVar
<1> DEFINE text == getVar(data, d, v)
           read == IF text = None \/ data.cache[d][v] # None THEN {}
                   ELSE {v} \cup {w \in Var : w \in ToSet(text) /\ getVar(data, d, w) # None}
           row == [w \in Var |-> IF w \in read THEN expand(data, d, w) ELSE data.cache[d][w]]
<1>2. data' = [data EXCEPT !.cache[d] = row]
  BY <1>1
<1>3. UNCHANGED <<sources, made, overrides, calls, late, flagged>>
  BY DEF GetVar
<1>4. Good(data) /\ d \in Store /\ v \in Var
  BY MadeStores, DataAssumption DEF DataInv
<1> HIDE DEF row
<1>5. data' = [dict |-> data.dict, seen |-> data.seen, special |-> data.special,
               cache |-> [data.cache EXCEPT ![d] = row], lists |-> data.lists]
  BY <1>2, <1>4 DEF Good
<1>6. /\ data'.dict = data.dict /\ data'.seen = data.seen
      /\ data'.special = data.special /\ data'.lists = data.lists
      /\ data'.cache = [data.cache EXCEPT ![d] = row]
  BY <1>5
<1>7. /\ data'.cache = [e \in Store |-> data'.cache[e]] /\ data'.cache[d] = row
      /\ \A e \in Store \ {d} : data'.cache[e] = data.cache[e]
  BY <1>4, <1>6 DEF Good
<1>8. DataInv'
  <2>1. Good(data)'
    <3>1. data' = [dict |-> data'.dict, seen |-> data'.seen, special |-> data'.special,
                   cache |-> data'.cache, lists |-> data'.lists]
      BY <1>5
    <3> QED BY <3>1, <1>4, <1>6, <1>7 DEF Good, GoodDict, GoodLists, GoodSeen, GoodSpecial
  <2>2. (Held(data) = {l \in List : data.lists[l] # <<>>})'
    BY <1>6 DEF DataInv, Held
  <2>3. Linked'
    BY <1>3 DEF DataInv, Linked
  <2>4. ASSUME NEW e \in Store, e > made' PROVE NotMade(e)'
    <3>1. e # d /\ NotMade(e)
      BY <1>3, <1>4, <2>4 DEF DataInv, Store
    <3> QED BY <3>1, <1>3, <1>6, <1>7 DEF NotMade
  <2> QED BY <1>3, <2>1, <2>2, <2>3, <2>4 DEF DataInv
<1>9. \A w : w \in read <=>
        \/ w = v /\ getVar(data, d, v) # None /\ data.cache[d][v] = None
        \/ /\ getVar(data, d, v) # None /\ data.cache[d][v] = None
           /\ w \in Var /\ w \in ToSet(getVar(data, d, v)) /\ getVar(data, d, w) # None
  OBVIOUS
<1> HIDE DEF read
<1>10. row = [w \in Var |->
                IF \/ w = v /\ getVar(data, d, v) # None /\ data.cache[d][v] = None
                   \/ /\ getVar(data, d, v) # None /\ data.cache[d][v] = None
                      /\ w \in ToSet(getVar(data, d, v)) /\ getVar(data, d, w) # None
                THEN expand(data, d, w) ELSE data.cache[d][w]]
  BY <1>9 DEF row
<1> QED BY <1>3, <1>4, <1>6, <1>7, <1>8, <1>10

\* Each step keeps the inductive invariant.
LEMMA StepKeeps == DataInv /\ [Next]_vars => DataInv'
<1> SUFFICES ASSUME DataInv, [Next]_vars PROVE DataInv'
  OBVIOUS
<1>1. ASSUME NEW d \in 1..made, Step(d) PROVE DataInv'
  <2>1. CASE GetVar(d)
    BY <2>1, GetVarDoes
  <2>2. CASE CreateCopy(d)
    BY <2>2, CreateCopyDoes
  <2>3. CASE ~(GetVar(d) \/ CreateCopy(d))
    <3>1. PICK s, unseen : /\ Done(data, s, d) /\ unseen \in SUBSET {d}
                           /\ Becomes(d, s, unseen)
      BY <1>1, <2>3, StepIs
    <3> QED BY <3>1, BecomesDoes
  <2> QED BY <2>1, <2>2, <2>3
<1>2. CASE UNCHANGED vars
  <2>1. /\ data' = data /\ sources' = sources /\ made' = made /\ overrides' = overrides
        /\ late' = late /\ flagged' = flagged
    BY <1>2 DEF vars
  <2>2. Good(data)' /\ Linked'
    BY <2>1 DEF DataInv, Good, GoodDict, GoodLists, GoodSeen, GoodSpecial, Linked
  <2>3. (Held(data) = {l \in List : data.lists[l] # <<>>})'
    BY <2>1 DEF DataInv, Held
  <2>4. \A d \in Store : NotMade(d) => NotMade(d)'
    BY <2>1 DEF NotMade
  <2> QED BY <2>1, <2>2, <2>3, <2>4 DEF DataInv
<1> QED BY <1>1, <1>2 DEF Next

\* The inductive invariant holds of every reachable state.
THEOREM SpecDataInv == Spec => []DataInv
BY InitIs, StepKeeps, PTL DEF Spec

\* TypeOK: every value is of its type, a store's bases are stores made before it,
\* and the lists that variables hold are those with something pending, whatever
\* copies share them.
THEOREM SpecTypeOK == Spec => []TypeOK
<1>1. DataInv => TypeOK
  <2> SUFFICES ASSUME DataInv PROVE TypeOK
    OBVIOUS
  <2>1. ASSUME NEW d \in Store, NEW v \in Var, data.dict[d][v] # Absent
        PROVE  d <= made /\ data.dict[d][v] \in Dict(v)
    <3>1. d \in Nat /\ made \in Nat
      BY DEF DataInv, Store
    <3>2. ~(d > made)
      BY <2>1 DEF DataInv, NotMade
    <3> QED BY <2>1, <3>1, <3>2 DEF DataInv, Good, GoodDict
  <2> QED BY <2>1 DEF TypeOK, DataInv, Linked
<1> QED BY <1>1, SpecDataInv, PTL
-----------------------------------------------------------------------------
(* Isolation and RegisteredRight                                           *)

\* What a step that leaves the sources alone does not affect, primed.
LEMMA UnaffectedPrimed ==
    ASSUME sources' = sources, NEW e, Unaffected(data, data', e)
    PROVE  /\ \A v \in Var : /\ getVar(data, e, v)' = getVar(data, e, v)
                             /\ (findVar(data, e, v)["content"])' = findVar(data, e, v)["content"]
                             /\ (findVar(data, e, v)["defaultval"])' = findVar(data, e, v)["defaultval"]
                             /\ \A k \in Keyword : pending(data, e, v, k)' = pending(data, e, v, k)
           /\ \A o \in Override : Registered(data.seen, e, o)' = Registered(data.seen, e, o)
           /\ \A k \in Keyword : Registered(data.special, e, k)' = Registered(data.special, e, k)
<1>1. /\ \A v : findVar(data, e, v)' = findVar(data', e, v)
      /\ \A v : getVar(data, e, v)' = getVar(data', e, v)
      /\ \A v, k : pending(data, e, v, k)' = pending(data', e, v, k)
      /\ \A o : Registered(data.seen, e, o)' = Registered(data'.seen, e, o)
      /\ \A k : Registered(data.special, e, k)' = Registered(data'.special, e, k)
  BY Primed
<1>2. \A v \in Var : getVar(data', e, v) = getVar(data, e, v)
  BY SameValues DEF Unaffected
<1>3. \A v \in Var : /\ findVar(data', e, v)["content"] = findVar(data, e, v)["content"]
                     /\ findVar(data', e, v)["defaultval"] = findVar(data, e, v)["defaultval"]
                     /\ \A k \in Keyword : pending(data', e, v, k) = pending(data, e, v, k)
  BY DEF Unaffected, SameVar
<1>4. /\ \A o \in Override : Registered(data'.seen, e, o) = Registered(data.seen, e, o)
      /\ \A k \in Keyword : Registered(data'.special, e, k) = Registered(data.special, e, k)
  BY DEF Unaffected, SameSeen, SameSpecial
<1> QED BY <1>1, <1>2, <1>3, <1>4

\* A store whose answers are the same shows the same View.
LEMMA ViewSame ==
    ASSUME NEW e,
           \A v \in Var : /\ getVar(data, e, v)' = getVar(data, e, v)
                          /\ (findVar(data, e, v)["defaultval"])' = findVar(data, e, v)["defaultval"]
                          /\ \A k \in Keyword : pending(data, e, v, k)' = pending(data, e, v, k),
           \A o \in Override : Registered(data.seen, e, o)' = Registered(data.seen, e, o),
           \A k \in Keyword : Registered(data.special, e, k)' = Registered(data.special, e, k)
    PROVE  View(data, e)' = View(data, e)
<1>1. ASSUME NEW v \in Var
      PROVE  [k \in Keyword |-> pending(data, e, v, k)]' = [k \in Keyword |-> pending(data, e, v, k)]
  OBVIOUS
<1>2. [v \in Var |-> <<getVar(data, e, v), findVar(data, e, v)["defaultval"],
                       [k \in Keyword |-> pending(data, e, v, k)]>>]'
        = [v \in Var |-> <<getVar(data, e, v), findVar(data, e, v)["defaultval"],
                           [k \in Keyword |-> pending(data, e, v, k)]>>]
  BY <1>1
<1>3. [o \in Override |-> Registered(data.seen, e, o)]' = [o \in Override |-> Registered(data.seen, e, o)]
  OBVIOUS
<1>4. [k \in Keyword |-> Registered(data.special, e, k)]' = [k \in Keyword |-> Registered(data.special, e, k)]
  OBVIOUS
<1> QED BY <1>2, <1>3, <1>4 DEF View

\* Reading a value with expansion changes no answer.
LEMMA GetVarUnaffected ==
    ASSUME DataInv, NEW d \in 1..made, GetVar(d), NEW e
    PROVE  sources' = sources /\ Unaffected(data, data', e)
<1>1. /\ sources' = sources /\ data'.dict = data.dict /\ data'.seen = data.seen
      /\ data'.special = data.special /\ data'.lists = data.lists
  BY GetVarDoes
<1>2. \A v : findVar(data', e, v) = findVar(data, e, v)
  BY <1>1 DEF findVar
<1>3. \A v, k : pending(data', e, v, k) = pending(data, e, v, k)
  BY <1>1, <1>2 DEF pending
<1> QED BY <1>1, <1>2, <1>3 DEF Unaffected, SameVar, SameSeen, SameSpecial

\* A store that is not the one a step is at, nor a copy of it, answers the same.
LEMMA StepIsolates ==
    ASSUME DataInv, NEW d \in 1..made, Step(d), NEW e \in (1..made) \ ({d} \cup Below(d))
    PROVE  View(data, e)' = View(data, e)
<1>1. CASE GetVar(d)
  <2>1. sources' = sources /\ Unaffected(data, data', e)
    BY <1>1, GetVarUnaffected
  <2> QED BY <2>1, UnaffectedPrimed, ViewSame
<1>2. CASE CreateCopy(d)
  <2>1. e \in 1..made' /\ e # made + 1
    <3>1. made \in Nat /\ made' = made + 1
      BY <1>2 DEF DataInv, Store, CreateCopy
    <3> QED BY <3>1
  <2>2. AnswersAs(e, e)
    BY <1>2, <2>1, CreateCopyDoes
  <2> QED BY <2>2, ViewSame DEF AnswersAs
<1>3. CASE ~(GetVar(d) \/ CreateCopy(d))
  <2>1. PICK s, unseen : /\ Done(data, s, d) /\ unseen \in SUBSET {d}
                         /\ Becomes(d, s, unseen)
    BY <1>3, StepIs
  <2>2. sources' = sources /\ Unaffected(data, data', e)
    BY <2>1, BecomesDoes
  <2> QED BY <2>2, UnaffectedPrimed, ViewSame
<1> QED BY <1>1, <1>2, <1>3

\* Isolation: nothing done to a store (setting, deleting or renaming a variable,
\* adding to one, finalize, copying, reading with expansion) changes what a store
\* answers that is not a copy of it, though they share lists of pending texts.
THEOREM SpecIsolation == Spec => Isolation
<1> DEFINE Isolated ==
            \A d \in 1..made :
                    (\E e \in (1..made) \ ({d} \cup Below(d)) : View(data, e)' # View(data, e))
                        => ~Step(d)
<1>1. DataInv /\ [Next]_vars => Isolated
  BY StepIsolates
<1> QED BY <1>1, SpecDataInv, PTL DEF Spec, Isolation

\* In other words: all copies that are not late are right.
LEMMA RegisteredIs == RegisteredRight <=> \A d \in (1..made) \ late : Right(data, d)
BY DEF RegisteredRight, Right, SeenRight, SpecialRight, KeywordRight

\* A store that answers as a right one did is right.
LEMMA RightPrimed ==
    ASSUME NEW e, NEW f, Right(data, f),
           \A v \in Var : (findVar(data, e, v)["content"])' = findVar(data, f, v)["content"],
           \A v \in Var, k \in Keyword : pending(data, e, v, k)' = pending(data, f, v, k),
           \A o \in Override : Registered(data.seen, e, o)' = Registered(data.seen, f, o),
           \A k \in Keyword : Registered(data.special, e, k)' = Registered(data.special, f, k)
    PROVE  Right(data, e)'
<1>1. SeenRight(data, e)'
  BY OverrideIs DEF Right, SeenRight
<1>2. ASSUME NEW v \in Var PROVE SpecialRight(data, e, v)'
  BY DEF Right, SpecialRight, KeywordRight
<1> QED BY <1>1, <1>2 DEF Right

\* A store whose answers an operation leaves alone stays right.
LEMMA RightAgain ==
    ASSUME NEW s, NEW t, NEW d, Right(s, d), Unaffected(s, t, d)
    PROVE  Right(t, d)
<1>1. SeenRight(t, d)
  BY OverrideIs DEF Right, SeenRight, Unaffected, SameVar, SameSeen
<1>2. ASSUME NEW v \in Var PROVE SpecialRight(t, d, v)
  BY DEF Right, SpecialRight, KeywordRight, Unaffected, SameVar, SameSpecial
<1> QED BY <1>1, <1>2 DEF Right

\* The same, of a step.
LEMMA UnaffectedRight ==
    ASSUME sources' = sources, NEW e, Unaffected(data, data', e), Right(data, e)
    PROVE  Right(data, e)'
BY UnaffectedPrimed, RightPrimed

\* A store is right after a step at it, if it was.
LEMMA BecomesRight ==
    ASSUME sources' = sources, NEW s, NEW d, Right(s, d), Unaffected(s, data', d)
    PROVE  Right(data, d)'
<1>1. Right(data', d)
  BY RightAgain
<1>2. /\ \A v : findVar(data, d, v)' = findVar(data', d, v)
      /\ \A v, k : pending(data, d, v, k)' = pending(data', d, v, k)
      /\ \A o : Registered(data.seen, d, o)' = Registered(data'.seen, d, o)
      /\ \A k : Registered(data.special, d, k)' = Registered(data'.special, d, k)
  BY Primed
<1>3. SeenRight(data, d)'
  BY <1>1, <1>2 DEF Right, SeenRight
<1>4. ASSUME NEW v \in Var PROVE SpecialRight(data, d, v)'
  BY <1>1, <1>2 DEF Right, SpecialRight, KeywordRight
<1> QED BY <1>3, <1>4 DEF Right

\* Each step keeps RegisteredRight.
LEMMA StepRight ==
    ASSUME DataInv, RegisteredRight, NEW d \in 1..made, Step(d)
    PROVE  RegisteredRight'
<1> SUFFICES ASSUME NEW e \in ((1..made) \ late)' PROVE Right(data, e)'
  BY DEF RegisteredRight, Right, SeenRight, SpecialRight, KeywordRight
<1>0. \A f \in (1..made) \ late : Right(data, f)
  BY RegisteredIs
<1>1. CASE GetVar(d)
  <2>1. made' = made /\ late' = late /\ sources' = sources /\ Unaffected(data, data', e)
    BY <1>1, GetVarDoes, GetVarUnaffected
  <2> QED BY <2>1, <1>0, UnaffectedRight
<1>2. CASE CreateCopy(d)
  <2>1. PICK f \in 1..made :
            (f \in late => e \in late') /\ AnswersAs(e, f)
    BY <1>2, CreateCopyDoes
  <2>2. Right(data, f)
    BY <1>0, <2>1
  <2>3. \A v \in Var : (findVar(data, e, v)["content"])' = findVar(data, f, v)["content"]
    BY <2>1 DEF AnswersAs
  <2> QED BY <2>1, <2>2, <2>3, RightPrimed DEF AnswersAs
<1>3. CASE ~(GetVar(d) \/ CreateCopy(d))
  <2>1. PICK s, unseen : /\ Done(data, s, d) /\ unseen \in SUBSET {d}
                         /\ Becomes(d, s, unseen)
                         /\ Right(data, d) => Right(s, d)
    BY <1>3, StepIs
  <2>2. /\ sources' = sources /\ made' = made /\ Unaffected(s, data', d)
        /\ \A x \in (1..made) \ ({d} \cup Below(d)) : Unaffected(data, data', x)
    BY <2>1, BecomesDoes
  <2>3. late' = late \cup Below(d)
    BY <2>1 DEF Becomes
  <2>4. Right(data, e) /\ e \notin Below(d)
    BY <1>0, <2>2, <2>3
  <2>5. CASE e = d
    BY <2>1, <2>2, <2>4, <2>5, BecomesRight
  <2>6. CASE e # d
    <3>1. Unaffected(data, data', e)
      BY <2>2, <2>4, <2>6
    <3> QED BY <2>2, <2>4, <3>1, UnaffectedRight
  <2> QED BY <2>5, <2>6
<1> QED BY <1>1, <1>2, <1>3

\* A new store is right: nothing is set or registered.
LEMMA InitRight == Init => RegisteredRight
<1> SUFFICES ASSUME Init, NEW d \in (1..made) \ late PROVE Right(data, d)
  BY RegisteredIs
<1>1. DataInv
  BY InitIs
<1>2. d \in Store /\ Linked
  BY <1>1, MadeStores DEF DataInv
<1>3. ASSUME NEW v \in Var
      PROVE  findVar(data, d, v) = Empty /\ \A k \in Keyword : pending(data, d, v, k) = <<>>
  <2>1. \A c \in Store : data.dict[c][v] = Absent
    BY DEF Init
  <2>2. Finds(data.dict, d, v, Holder(data.dict, sources, d, v))
    BY <1>2, HolderFinds
  <2>3. Holder(data.dict, sources, d, v) = 0
    BY <2>1, <2>2, <1>2 DEF Finds, Linked
  <2> QED BY <2>3 DEF findVar, pending, Empty, Flag, Keyword
<1>4. ASSUME NEW o \in Override PROVE Registered(data.seen, d, o) = {}
  <2>1. \A c \in Store : data.seen[c][o] = Absent
    BY DEF Init
  <2>2. Finds(data.seen, d, o, Holder(data.seen, sources, d, o))
    BY <1>2, HolderFinds
  <2>3. Holder(data.seen, sources, d, o) = 0
    BY <2>1, <2>2, <1>2 DEF Finds, Linked
  <2> QED BY <2>3 DEF Registered, has_key
<1>5. SeenRight(data, d)
  BY <1>3, <1>4, OverrideIs DEF SeenRight, Empty, Flag
<1> QED BY <1>3, <1>5 DEF Right, SpecialRight, KeywordRight

\* RegisteredRight: in every copy whose source has not been changed, what finalize
\* goes by agrees with the variables, whatever has been set, deleted, renamed,
\* applied or copied before.
THEOREM SpecRegisteredRight == Spec => []RegisteredRight
<1>1. Init => DataInv /\ RegisteredRight
  BY InitIs, InitRight
<1>2. DataInv /\ RegisteredRight /\ [Next]_vars => RegisteredRight'
  <2> SUFFICES ASSUME DataInv, RegisteredRight, [Next]_vars PROVE RegisteredRight'
    OBVIOUS
  <2>1. CASE Next
    BY <2>1, StepRight DEF Next
  <2>2. CASE UNCHANGED vars
    <3>1. data' = data /\ sources' = sources /\ made' = made /\ late' = late
      BY <2>2 DEF vars
    <3>2. \A d, v : SameVar(data, data', d, v)
      BY <3>1 DEF SameVar
    <3>3. \A d : SameSeen(data, data', d) /\ SameSpecial(data, data', d)
      BY <3>1 DEF SameSeen, SameSpecial
    <3>4. \A d : Unaffected(data, data', d)
      BY <3>2, <3>3 DEF Unaffected
    <3>5. \A d \in (1..made) \ late : Right(data, d)'
      BY <3>1, <3>4, RegisteredIs, UnaffectedRight
    <3> QED BY <3>1, <3>5 DEF RegisteredRight, Right, SeenRight, SpecialRight, KeywordRight
  <2> QED BY <2>1, <2>2
<1> QED BY <1>1, <1>2, SpecDataInv, PTL DEF Spec
-----------------------------------------------------------------------------
(* CacheFresh                                                              *)

\* Resolved, as a fold of the indices of the text.
resolveOp(i, seq, text, words, m, n) == seq \o words[text[i]]

resolveInv(indices, seq, text) ==
    \A k \in 0..Len(text) : indices = 1..k =>
        seq \in Seq(STRING) /\ Len(seq) = k /\ \A i \in 1..k : seq[i] = text[i]

R == INSTANCE Folding WITH op <- resolveOp, pick <- lastOf, Inv <- resolveInv

wordsOf(s, d, text, values) ==
    [word \in ToSet(text) |->
        IF word \in Var /\ getVar(s, d, word) # None THEN values[word] ELSE <<word>>]

\* Resolving a text is a fold of its indices.
LEMMA ResolvedIs ==
    ASSUME NEW s, NEW d, NEW text, NEW values
    PROVE  Resolved(s, d, text, values)
             = R!Iter(DOMAIN text, <<>>, text, wordsOf(s, d, text, values), 0, 0)
BY Zenon DEF Resolved, wordsOf, FoldLeft, MapThenFoldSet, R!Iter, resolveOp, lastOf

\* It goes by the values of the words that are variables.
LEMMA ResolvedSame ==
    ASSUME NEW s, NEW d, NEW text, NEW values, NEW after,
           \A word \in ToSet(text) : word \in Var /\ getVar(s, d, word) # None
                => values[word] = after[word]
    PROVE  Resolved(s, d, text, values) = Resolved(s, d, text, after)
<1>1. wordsOf(s, d, text, values) = wordsOf(s, d, text, after)
  BY DEF wordsOf
<1> QED BY <1>1, ResolvedIs

\* A plain variable's text resolves to itself.
LEMMA ResolvedPlain ==
    ASSUME NEW s, NEW d, NEW v \in Plain, NEW text \in Text(v), NEW values
    PROVE  Resolved(s, d, text, values) = text
<1> DEFINE n == Len(text)
           words == wordsOf(s, d, text, values)
<1>1. text \in Seq(STRING) /\ \A i \in DOMAIN text : text[i] \notin Var
  <2> DEFINE set == Words(v)
  <2>1. v \in Var /\ text \in Seq(set) /\ \A word \in set : word \notin Var
    BY DataAssumption DEF Words, Text
  <2>2. \A i \in DOMAIN text : text[i] \in set
    <3> HIDE DEF set
    <3> QED BY <2>1
  <2> QED BY <2>1, <2>2, TextIn
<1>2. n \in Nat /\ DOMAIN text = 1..n
  BY <1>1
<1>3. \A i \in 1..n : words[text[i]] = <<text[i]>> /\ text[i] \in STRING
  <2>1. \A i \in 1..n : text[i] \in ToSet(text)
    BY <1>2 DEF ToSet
  <2>2. \A i \in 1..n : text[i] \in STRING
    BY <1>1, <1>2
  <2> QED BY <1>1, <1>2, <2>1, <2>2 DEF wordsOf
<1> HIDE DEF words
<1>4. resolveInv({}, <<>>, text)
  <2>1. <<>> \in Seq(STRING) /\ Len(<<>>) = 0
    OBVIOUS
  <2>2. \A k \in 0..Len(text) : {} = 1..k => k = 0
    BY <1>2
  <2> QED BY <2>1, <2>2 DEF resolveInv
<1>5. ASSUME NEW k \in 1..n, NEW r, resolveInv(1..(k - 1), r, text)
      PROVE  resolveInv(1..k, resolveOp(k, r, text, words, 0, 0), text)
  <2>1. r \in Seq(STRING) /\ Len(r) = k - 1 /\ \A i \in 1..(k - 1) : r[i] = text[i]
    BY <1>2, <1>5 DEF resolveInv
  <2>2. resolveOp(k, r, text, words, 0, 0) = r \o <<text[k]>>
    BY <1>3 DEF resolveOp
  <2> DEFINE word == text[k]
             u == r \o <<word>>
  <2>3. u \in Seq(STRING) /\ Len(u) = k /\ \A i \in 1..k : u[i] = text[i]
    <3>1. word \in STRING
      BY <1>3
    <3>2. u \in Seq(STRING) /\ Len(u) = k /\ u[k] = word /\ \A i \in 1..(k - 1) : u[i] = r[i]
      <4> HIDE DEF word
      <4>1. /\ u \in Seq(STRING) /\ Len(u) = Len(r) + 1 /\ u[Len(r) + 1] = word
            /\ \A i \in 1..Len(r) : u[i] = r[i]
        <5> DEFINE set == STRING
        <5>1. r \in Seq(set) /\ word \in set
          BY <2>1, <3>1
        <5> HIDE DEF set
        <5>2. /\ u \in Seq(set) /\ Len(u) = Len(r) + 1 /\ u[Len(r) + 1] = word
              /\ \A i \in 1..Len(r) : u[i] = r[i]
          BY <5>1, AppendElements
        <5> QED BY <5>2 DEF set
      <4>4. Len(r) = k - 1 /\ k \in Int /\ Len(r) + 1 = k
        BY <2>1
      <4> HIDE DEF u
      <4> QED BY <4>1, <4>4
    <3> HIDE DEF u
    <3> QED BY <2>1, <3>2
  <2> HIDE DEF u
  <2>4. \A j \in 0..Len(text) : 1..k = 1..j => j = k
    BY <1>2
  <2> QED BY <2>2, <2>3, <2>4 DEF resolveInv, u
<1> DEFINE t == R!Iter(1..n, <<>>, text, words, 0, 0)
<1>6. resolveInv(1..n, t, text)
  <2>1. R!Picks(1..n) /\ \A k \in 1..n : lastOf(1..k) = k
    BY <1>2, Indices DEF F!Picks, R!Picks
  <2> HIDE DEF n
  <2> QED BY <1>2, <1>4, <1>5, <2>1, R!FoldedLeft
<1>7. Resolved(s, d, text, values) = t
  BY <1>2, ResolvedIs DEF words
<1> HIDE DEF t
<1>8. t \in Seq(STRING) /\ Len(t) = Len(text) /\ \A i \in 1..Len(text) : t[i] = text[i]
  <2>1. n \in 0..Len(text)
    BY <1>2
  <2>2. t \in Seq(STRING) /\ Len(t) = n /\ \A i \in 1..n : t[i] = text[i]
    BY <2>1, <1>6 DEF resolveInv
  <2> QED BY <2>2
<1>9. t = text
  BY <1>1, <1>8
<1> QED BY <1>7, <1>9

\* CacheFresh, of one store.
Fresh(d) ==
    \A v \in Var : data.cache[d][v] # None =>
        /\ getVar(data, d, v) # None
        /\ data.cache[d][v] = Resolved(data, d, getVar(data, d, v),
                                       [w \in Var |-> getVar(data, d, w)])

\* CacheFresh, store by store.
LEMMA FreshIs == CacheFresh <=> \A d \in (1..made) \ (late \cup flagged) : Fresh(d)
BY DEF CacheFresh, Fresh

\* A cache that holds nothing is fresh.
LEMMA FreshEmpty == \A d : data.cache[d] = NoCache => Fresh(d)
BY DEF Fresh, NoCache

\* The same, after a step.
LEMMA FreshEmptyPrimed == \A d : data'.cache[d] = NoCache => Fresh(d)'
BY DEF Fresh, NoCache

\* The cache is fresh after what changes neither it nor a value.
LEMMA ResolvedPrimed ==
    ASSUME NEW d, \A v \in Var : getVar(data, d, v)' = getVar(data, d, v),
           NEW text, NEW values
    PROVE  Resolved(data, d, text, values)' = Resolved(data, d, text, values)
<1>1. wordsOf(data, d, text, values)' = wordsOf(data, d, text, values)
  BY DEF wordsOf
<1>2. Resolved(data, d, text, values)'
        = R!Iter(DOMAIN text, <<>>, text, wordsOf(data, d, text, values)', 0, 0)
  BY Zenon DEF Resolved, wordsOf, FoldLeft, MapThenFoldSet, R!Iter, resolveOp, lastOf
<1>3. Resolved(data, d, text, values)
        = R!Iter(DOMAIN text, <<>>, text, wordsOf(data, d, text, values), 0, 0)
  BY ResolvedIs
<1> QED BY <1>1, <1>2, <1>3

\* A cache stays fresh where neither it nor a value changes.
LEMMA FreshKept ==
    ASSUME NEW d, Fresh(d), data'.cache[d] = data.cache[d],
           \A v \in Var : getVar(data, d, v)' = getVar(data, d, v)
    PROVE  Fresh(d)'
<1>1. [w \in Var |-> getVar(data, d, w)]' = [w \in Var |-> getVar(data, d, w)]
  OBVIOUS
<1>2. \A text, values : Resolved(data, d, text, values)' = Resolved(data, d, text, values)
  BY ResolvedPrimed
<1> DEFINE values == [w \in Var |-> getVar(data, d, w)]
<1>3. ASSUME NEW v \in Var, data.cache[d][v] # None
      PROVE  /\ getVar(data, d, v)' # None
             /\ data'.cache[d][v] = Resolved(data, d, getVar(data, d, v), values)'
  <2>1. getVar(data, d, v) # None
        /\ data.cache[d][v] = Resolved(data, d, getVar(data, d, v), values)
    BY <1>3 DEF Fresh
  <2> QED BY <2>1, <1>1, <1>2
<1> QED BY <1>3 DEF Fresh

\* What reading with expansion puts into a fresh cache.
LEMMA ExpandIs ==
    ASSUME DataInv, NEW d \in Store, Fresh(d), NEW v \in Var, getVar(data, d, v) # None
    PROVE  expand(data, d, v) = Resolved(data, d, getVar(data, d, v),
                                         [w \in Var |-> getVar(data, d, w)])
<1> DEFINE values == [w \in Var |-> getVar(data, d, w)]
           cached == [w \in Var |-> IF data.cache[d][w] # None THEN data.cache[d][w]
                                    ELSE getVar(data, d, w)]
           text == getVar(data, d, v)
<1>1. CASE data.cache[d][v] # None
  BY <1>1 DEF Fresh, expand
<1>2. CASE data.cache[d][v] = None
  <2>1. expand(data, d, v) = Resolved(data, d, text, cached)
    BY <1>2 DEF expand
  <2>2. ASSUME NEW word \in ToSet(text), word \in Var, getVar(data, d, word) # None
        PROVE  cached[word] = values[word]
    <3>1. Linked /\ Good(data)
      BY DEF DataInv
    <3>2. text \in Text(v) /\ getVar(data, d, word) \in Text(word)
      BY <2>2, <3>1, ValueIn
    <3>3. word \in Plain
      <4> DEFINE set == Words(v)
      <4>1. text \in Seq(set)
        BY <3>2 DEF Text
      <4>2. word \in set
        <5> HIDE DEF set, text
        <5> QED BY <2>2, <4>1 DEF ToSet
      <4> QED BY <2>2, <4>2 DEF Words
    <3>4. data.cache[d][word] # None => data.cache[d][word] = getVar(data, d, word)
      <4> DEFINE other == getVar(data, d, word)
      <4>1. Resolved(data, d, other, values) = other
        <5>1. other \in Text(word)
          BY <3>2
        <5> HIDE DEF values, other
        <5> QED BY <5>1, <3>3, ResolvedPlain
      <4>2. data.cache[d][word] # None => data.cache[d][word] = Resolved(data, d, other, values)
        BY <2>2 DEF Fresh
      <4> QED BY <4>1, <4>2
    <3> QED BY <2>2, <3>4
  <2> HIDE DEF values, cached, text
  <2>3. Resolved(data, d, text, cached) = Resolved(data, d, text, values)
    BY <2>2, ResolvedSame
  <2> QED BY <2>1, <2>3 DEF values, text
<1> QED BY <1>1, <1>2

\* What reading adds to a fresh cache is fresh.
LEMMA GetVarFresh ==
    ASSUME DataInv, NEW d \in 1..made, GetVar(d), Fresh(d)
    PROVE  Fresh(d)'
<1>1. d \in Store
  BY MadeStores
<1>2. \A v \in Var : getVar(data, d, v)' = getVar(data, d, v)
  BY GetVarUnaffected, UnaffectedPrimed
<1>3. PICK v \in Var : data'.cache[d] = [w \in Var |->
                IF \/ w = v /\ getVar(data, d, v) # None /\ data.cache[d][v] = None
                   \/ /\ getVar(data, d, v) # None /\ data.cache[d][v] = None
                      /\ w \in ToSet(getVar(data, d, v)) /\ getVar(data, d, w) # None
                THEN expand(data, d, w) ELSE data.cache[d][w]]
  BY GetVarDoes
<1> DEFINE values == [w \in Var |-> getVar(data, d, w)]
<1>4. ASSUME NEW w \in Var, data'.cache[d][w] # None
      PROVE  /\ getVar(data, d, w) # None
             /\ data'.cache[d][w] = Resolved(data, d, getVar(data, d, w), values)
  <2>1. CASE data'.cache[d][w] = data.cache[d][w]
    BY <1>4, <2>1 DEF Fresh
  <2>2. CASE data'.cache[d][w] # data.cache[d][w]
    <3>1. getVar(data, d, w) # None /\ data'.cache[d][w] = expand(data, d, w)
      BY <1>3, <2>2
    <3> QED BY <3>1, <1>1, ExpandIs
  <2> QED BY <2>1, <2>2
<1>5. values' = values
  BY <1>2
<1>6. \A text, vals : Resolved(data, d, text, vals)' = Resolved(data, d, text, vals)
  BY <1>2, ResolvedPrimed
<1>7. ASSUME NEW w \in Var, data'.cache[d][w] # None
      PROVE  /\ getVar(data, d, w)' # None
             /\ data'.cache[d][w] = Resolved(data, d, getVar(data, d, w), values)'
  BY <1>2, <1>4, <1>5, <1>6, <1>7
<1> QED BY <1>7 DEF Fresh

\* Each step keeps CacheFresh.
LEMMA StepFresh ==
    ASSUME DataInv, CacheFresh, NEW d \in 1..made, Step(d)
    PROVE  CacheFresh'
<1> SUFFICES ASSUME NEW e \in ((1..made) \ (late \cup flagged))' PROVE Fresh(e)'
  BY DEF CacheFresh, Fresh
<1>0. \A f \in (1..made) \ (late \cup flagged) : Fresh(f)
  BY FreshIs
<1>1. CASE GetVar(d)
  <2>1. /\ made' = made /\ late' = late /\ flagged' = flagged
        /\ \A f \in Store \ {d} : data'.cache[f] = data.cache[f]
    BY <1>1, GetVarDoes
  <2>2. Fresh(e) /\ e \in Store
    BY <1>0, <2>1, MadeStores
  <2>3. CASE e = d
    BY <1>1, <2>2, <2>3, GetVarFresh
  <2>4. CASE e # d
    <3>1. \A v \in Var : getVar(data, e, v)' = getVar(data, e, v)
      BY <1>1, GetVarUnaffected, UnaffectedPrimed
    <3> QED BY <2>1, <2>2, <2>4, <3>1, FreshKept
  <2> QED BY <2>3, <2>4
<1>2. CASE CreateCopy(d)
  <2>1. PICK f \in 1..made :
            /\ f = IF e = made + 1 THEN d ELSE e
            /\ f \in late => e \in late'
            /\ AnswersAs(e, f)
    BY <1>2, CreateCopyDoes
  <2>2. data' = data /\ data.cache[made + 1] = NoCache /\ flagged' = flagged
    BY <1>2, CreateCopyDoes
  <2>3. CASE e = made + 1
    BY <2>2, <2>3, FreshEmptyPrimed
  <2>4. CASE e # made + 1
    <3>1. f = e /\ Fresh(e)
      BY <1>0, <2>1, <2>2, <2>4
    <3> QED BY <2>1, <2>2, <3>1, FreshKept DEF AnswersAs
  <2> QED BY <2>3, <2>4
<1>3. CASE ~(GetVar(d) \/ CreateCopy(d))
  <2>1. PICK s, unseen : /\ Done(data, s, d) /\ unseen \in SUBSET {d}
                         /\ Becomes(d, s, unseen)
                         /\ Current(data, s, d) \/ unseen = {d}
    BY <1>3, StepIs
  <2>2. /\ sources' = sources /\ made' = made /\ data'.cache = s.cache
        /\ Unaffected(s, data', d)
        /\ \A x \in (1..made) \ ({d} \cup Below(d)) : Unaffected(data, data', x)
    BY <2>1, BecomesDoes
  <2>3. /\ late' = late \cup Below(d)
        /\ flagged' = {x \in flagged \cup unseen : data'.cache[x] # NoCache}
    BY <2>1 DEF Becomes
  <2>4. e \in 1..made /\ e \in Store /\ e \notin late /\ e \notin Below(d)
    BY <2>2, <2>3, MadeStores
  <2>5. CASE data'.cache[e] = NoCache
    BY <2>5, FreshEmptyPrimed
  <2>6. CASE data'.cache[e] # NoCache
    <3>1. e \notin flagged \cup unseen /\ Fresh(e)
      BY <1>0, <2>3, <2>4, <2>6
    <3>2. CASE e = d
      <4>1. data'.cache[e] = data.cache[e] /\ \A v \in Var : getVar(s, d, v) = getVar(data, d, v)
        BY <2>1, <2>2, <2>6, <3>1, <3>2 DEF Current
      <4>2. \A v \in Var : getVar(data', d, v) = getVar(s, d, v)
        BY <2>2, SameValues DEF Unaffected
      <4>3. \A v \in Var : getVar(data, d, v)' = getVar(data', d, v)
        BY <2>2, Primed
      <4>4. \A v \in Var : getVar(data, d, v)' = getVar(data, d, v)
        BY <4>1, <4>2, <4>3
      <4> QED BY <3>1, <3>2, <4>1, <4>4, FreshKept
    <3>3. CASE e # d
      <4>1. data'.cache[e] = data.cache[e]
        BY <2>1, <2>2, <2>4, <3>3 DEF Done, Elsewhere
      <4>2. Unaffected(data, data', e)
        BY <2>2, <2>4, <3>3
      <4>3. \A v \in Var : getVar(data, e, v)' = getVar(data, e, v)
        BY <2>2, <4>2, UnaffectedPrimed
      <4> QED BY <3>1, <4>1, <4>3, FreshKept
    <3> QED BY <3>2, <3>3
  <2> QED BY <2>5, <2>6
<1> QED BY <1>1, <1>2, <1>3

\* CacheFresh: expand_cache never holds what expanding anew would not give, but
\* where a flag has been set since it was cleared or a source has changed.
THEOREM SpecCacheFresh == Spec => []CacheFresh
<1>1. Init => CacheFresh
  <2> SUFFICES ASSUME Init, NEW d \in 1..made PROVE Fresh(d)
    BY FreshIs
  <2>1. DataInv
    BY InitIs
  <2>2. data.cache[d] = NoCache
    BY <2>1, MadeStores DEF Init
  <2> QED BY <2>2, FreshEmpty
<1>2. DataInv /\ CacheFresh /\ [Next]_vars => CacheFresh'
  <2> SUFFICES ASSUME DataInv, CacheFresh, [Next]_vars PROVE CacheFresh'
    OBVIOUS
  <2>1. CASE Next
    BY <2>1, StepFresh DEF Next
  <2>2. CASE UNCHANGED vars
    <3>1. data' = data /\ sources' = sources /\ made' = made /\ late' = late /\ flagged' = flagged
      BY <2>2 DEF vars
    <3>2. \A d, v : getVar(data, d, v)' = getVar(data, d, v)
      BY <3>1, Primed
    <3>3. \A d \in (1..made) \ (late \cup flagged) : Fresh(d)'
      BY <3>1, <3>2, FreshIs, FreshKept
    <3> QED BY <3>1, <3>3 DEF CacheFresh, Fresh
  <2> QED BY <2>1, <2>2
<1> QED BY <1>1, <1>2, SpecDataInv, PTL DEF Spec
-----------------------------------------------------------------------------
(* What finalize gives                                                     *)

\* A value with words appended or prepended, of which the last is the first.
Joined(keyword, value, words) ==
    LET text == IF value = None THEN <<>> ELSE value
    IN IF words = <<>> THEN value
       ELSE IF keyword = "_append" THEN text \o words ELSE Reverse(words) \o text

\* The reverse of a sequence, and of one with one more member.
LEMMA ReverseIs ==
    ASSUME NEW set, NEW seq \in Seq(set)
    PROVE  /\ Reverse(seq) \in Seq(set) /\ Len(Reverse(seq)) = Len(seq)
           /\ \A i \in 1..Len(seq) : Reverse(seq)[i] = seq[Len(seq) - i + 1]
           /\ seq = <<>> => Reverse(seq) = <<>>
<1>1. Len(seq) \in Nat /\ seq \in [1..Len(seq) -> set]
  BY LenProperties
<1>2. \A i \in 1..Len(seq) : (Len(seq) - i) + 1 \in 1..Len(seq)
  BY <1>1
<1>3. Reverse(seq) \in [1..Len(seq) -> set]
  BY <1>1, <1>2 DEF Reverse
<1>4. Reverse(seq) \in Seq(set) /\ Len(Reverse(seq)) = Len(seq)
  BY <1>1, <1>3
<1>5. \A i \in 1..Len(seq) : Reverse(seq)[i] = seq[Len(seq) - i + 1]
  BY DEF Reverse
<1>6. seq = <<>> => Len(seq) = 0
  OBVIOUS
<1>7. seq = <<>> => Reverse(seq) = <<>>
  BY <1>4, <1>6, EmptySeq
<1> QED BY <1>4, <1>5, <1>7

\* The same, with one more member.
LEMMA ReverseNext ==
    ASSUME NEW set, NEW seq \in Seq(set), NEW x \in set
    PROVE  Reverse(Append(seq, x)) = <<x>> \o Reverse(seq)
<1> DEFINE more == Append(seq, x)
           n == Len(seq)
           left == Reverse(more)
           back == Reverse(seq)
           first == <<x>>
           right == first \o back
<1>1. n \in Nat
  BY LenProperties
<1>2. /\ more \in Seq(set) /\ Len(more) = n + 1 /\ more[n + 1] = x
      /\ \A i \in 1..n : more[i] = seq[i]
  BY AppendProperties
<1>3. /\ back \in Seq(set) /\ Len(back) = n
      /\ \A i \in 1..n : back[i] = seq[n - i + 1]
  BY ReverseIs
<1> HIDE DEF more, back
<1>4. /\ left \in Seq(set) /\ Len(left) = n + 1
      /\ \A i \in 1..(n + 1) : left[i] = more[(n + 1) - i + 1]
  BY <1>2, ReverseIs
<1>5. first \in Seq(set) /\ Len(first) = 1 /\ first[1] = x
  OBVIOUS
<1> HIDE DEF left, first
<1>6. /\ right \in Seq(set) /\ Len(right) = 1 + n
      /\ \A i \in 1..(1 + n) : right[i] = IF i <= 1 THEN first[i] ELSE back[i - 1]
  <2>0. first \in Seq(set) /\ back \in Seq(set)
    BY <1>3, <1>5
  <2>1. /\ right \in Seq(set) /\ Len(right) = Len(first) + Len(back)
        /\ \A i \in 1..(Len(first) + Len(back)) :
                right[i] = IF i <= Len(first) THEN first[i] ELSE back[i - Len(first)]
    <3> HIDE DEF n
    <3> QED BY <2>0, ConcatProperties, Zenon
  <2> HIDE DEF right, n
  <2> QED BY <2>1, <1>3, <1>5
<1> HIDE DEF right, n
<1>7. ASSUME NEW i \in 1..(n + 1) PROVE left[i] = right[i]
  <2>1. CASE i = 1
    <3>1. (n + 1) - 1 + 1 = n + 1 /\ i \in 1..(1 + n)
      BY <1>1, <2>1
    <3>2. left[1] = more[n + 1] /\ right[1] = first[1]
      BY <1>4, <1>6, <2>1, <3>1
    <3> QED BY <2>1, <3>2, <1>2, <1>5
  <2>2. CASE i # 1
    <3>1. /\ i - 1 \in 1..n /\ (n + 1) - i + 1 \in 1..n
          /\ n - (i - 1) + 1 = (n + 1) - i + 1 /\ ~(i <= 1) /\ i \in 1..(1 + n)
      BY <1>1, <2>2
    <3>2. left[i] = seq[(n + 1) - i + 1]
      BY <1>2, <1>4, <3>1
    <3>3. right[i] = seq[(n + 1) - i + 1]
      BY <1>3, <1>6, <3>1
    <3> QED BY <3>2, <3>3
  <2> QED BY <2>1, <2>2
<1>8. Len(left) = Len(right)
  BY <1>1, <1>4, <1>6
<1>9. left = right
  BY <1>4, <1>6, <1>7, <1>8, SeqEqual
<1> QED BY <1>9 DEF left, right, first, back, more

\* The text that words are added to, with the words.
LEMMA JoinedText ==
    ASSUME NEW keyword, NEW value \in {None} \cup Seq(STRING), NEW words \in Seq(STRING)
    PROVE  LET old == IF value = None THEN <<>> ELSE value
               now == Joined(keyword, value, words)
               text == IF now = None THEN <<>> ELSE now
           IN /\ old \in Seq(STRING) /\ Reverse(words) \in Seq(STRING)
              /\ now \in {None} \cup Seq(STRING)
              /\ text = IF keyword = "_append" THEN old \o words ELSE Reverse(words) \o old
<1> DEFINE S == STRING
           old == IF value = None THEN <<>> ELSE value
           now == Joined(keyword, value, words)
           text == IF now = None THEN <<>> ELSE now
           back == Reverse(words)
<1>1. old \in Seq(S) /\ words \in Seq(S)
  BY EmptySeq
<1> HIDE DEF S
<1>2. back \in Seq(S) /\ (words = <<>> => back = <<>>)
  BY <1>1, ReverseIs
<1> HIDE DEF old, back
<1>3. CASE words = <<>>
  <2>1. now = value
    BY <1>3 DEF Joined
  <2>2. old \o words = old /\ back \o old = old
    BY <1>1, <1>2, <1>3, ConcatEmptySeq
  <2>3. text = old
    BY <2>1 DEF old
  <2> QED BY <1>1, <1>2, <2>1, <2>2, <2>3 DEF S, old, back
<1>4. CASE words # <<>>
  <2>1. now = IF keyword = "_append" THEN old \o words ELSE back \o old
    BY <1>4 DEF Joined, old, back
  <2>2. old \o words \in Seq(S) /\ back \o old \in Seq(S)
    BY <1>1, <1>2, ConcatProperties
  <2> HIDE DEF now
  <2>3. now # None /\ now \in Seq(S)
    BY <2>1, <2>2, ValueAssumption DEF S
  <2> QED BY <1>1, <1>2, <2>1, <2>3 DEF S, old, back, now
<1> QED BY <1>3, <1>4

\* One more word.
LEMMA JoinedNext ==
    ASSUME NEW keyword, NEW value \in {None} \cup Seq(STRING), NEW words \in Seq(STRING),
           NEW word \in STRING
    PROVE  LET now == Joined(keyword, value, words)
               text == IF now = None THEN <<>> ELSE now
           IN /\ Append(words, word) \in Seq(STRING)
              /\ Joined(keyword, value, Append(words, word))
                    = IF keyword = "_append" THEN Append(text, word) ELSE <<word>> \o text
<1> DEFINE S == STRING
           old == IF value = None THEN <<>> ELSE value
           now == Joined(keyword, value, words)
           text == IF now = None THEN <<>> ELSE now
           more == Append(words, word)
           back == Reverse(words)
           one == <<word>>
<1>1. /\ old \in Seq(S) /\ back \in Seq(S) /\ words \in Seq(S) /\ word \in S
      /\ text = IF keyword = "_append" THEN old \o words ELSE back \o old
  BY JoinedText
<1> HIDE DEF S
<1>2. more \in Seq(S) /\ more # <<>> /\ one \in Seq(S) /\ more = words \o one
  BY <1>1, AppendProperties, AppendIsConcat
<1>3. Reverse(more) = one \o back
  BY <1>1, ReverseNext
<1>4. Joined(keyword, value, more)
        = IF keyword = "_append" THEN old \o more ELSE Reverse(more) \o old
  BY <1>2 DEF Joined
<1> HIDE DEF old, back, text, more
<1>5. old \o more = (old \o words) \o one
  BY <1>1, <1>2, ConcatAssociative
<1>6. (one \o back) \o old = one \o (back \o old)
  BY <1>1, <1>2, ConcatAssociative
<1>7. (old \o words) \o one = Append(old \o words, word)
  <2>1. old \o words \in Seq(S)
    BY <1>1, ConcatProperties
  <2> QED BY <1>1, <2>1, AppendIsConcat
<1>8. Joined(keyword, value, more) = IF keyword = "_append" THEN Append(text, word)
                                     ELSE one \o text
  BY <1>1, <1>3, <1>4, <1>5, <1>6, <1>7
<1> QED BY <1>2, <1>8 DEF S, text, more

\* Appended to first, then prepended to.
LEMMA JoinedTwice ==
    ASSUME NEW value \in {None} \cup Seq(STRING), NEW appends \in Seq(STRING),
           NEW prepends \in Seq(STRING)
    PROVE  Joined("_prepend", Joined("_append", value, appends), prepends)
             = IF appends = <<>> /\ prepends = <<>> THEN value
               ELSE Reverse(prepends) \o (IF value = None THEN <<>> ELSE value) \o appends
<1> DEFINE S == STRING
           old == IF value = None THEN <<>> ELSE value
           mid == Joined("_append", value, appends)
           text == IF mid = None THEN <<>> ELSE mid
           back == Reverse(prepends)
           full == (back \o old) \o appends
<1>1. old \in Seq(S) /\ appends \in Seq(S) /\ prepends \in Seq(S) /\ text = old \o appends
  BY JoinedText
<1> HIDE DEF S
<1>2. back \in Seq(S) /\ (prepends = <<>> => back = <<>>)
  BY <1>1, ReverseIs
<1>3. Joined("_prepend", mid, prepends) = IF prepends = <<>> THEN mid ELSE back \o text
  BY DEF Joined
<1>4. mid = IF appends = <<>> THEN value ELSE old \o appends
  BY DEF Joined
<1> HIDE DEF old, back, mid, text
<1>5. back \o (old \o appends) = full
  <2>1. back \in Seq(S) /\ old \in Seq(S) /\ appends \in Seq(S)
    BY <1>1, <1>2
  <2>2. (back \o old) \o appends = back \o (old \o appends)
    BY ONLY <2>1, ConcatAssociative
  <2> QED BY <2>2
<1>6. prepends = <<>> => full = old \o appends
  BY <1>1, <1>2, ConcatEmptySeq
<1> HIDE DEF full
<1>7. Joined("_prepend", mid, prepends) = IF appends = <<>> /\ prepends = <<>> THEN value ELSE full
  BY <1>1, <1>3, <1>4, <1>5, <1>6
<1> QED BY <1>7 DEF mid, full, back, old

\* AppliedWords, as a fold of the indices of the items.
wordOp(i, seq, items, q, m, n) ==
    IF waits(items[i]) THEN seq ELSE Append(seq, items[i].word)

wordInv(done, seq, z) == seq \in Seq(STRING)

W == INSTANCE Folding WITH op <- wordOp, pick <- lastOf, Inv <- wordInv

\* AppliedWords takes one item after the other.
LEMMA WordsInOrder ==
    ASSUME NEW set, NEW items \in Seq(set)
    PROVE  \E c : /\ c[0] = <<>> /\ c[Len(items)] = AppliedWords(items)
                  /\ \A k \in 1..Len(items) : c[k] = wordOp(k, c[k - 1], items, 0, 0, 0)
<1> DEFINE n == Len(items)
<1>1. n \in Nat /\ DOMAIN items = 1..n
  BY LenProperties
<1>2. AppliedWords(items) = W!Iter(DOMAIN items, <<>>, items, 0, 0, 0)
  BY Zenon DEF AppliedWords, FoldLeft, MapThenFoldSet, W!Iter, wordOp, lastOf
<1> HIDE DEF n
<1>3. W!Picks(1..n) /\ \A k \in 1..n : lastOf(1..k) = k
  BY <1>1, Indices DEF F!Picks, W!Picks
<1>4. PICK c : /\ W!Taken(n, <<>>, items, 0, 0, 0, c)
               /\ W!Iter(1..n, <<>>, items, 0, 0, 0) = c[n]
  BY <1>1, <1>3, W!InOrder
<1>5. c = [k \in 0..n |-> IF k = 0 THEN <<>> ELSE wordOp(k, c[k-1], items, 0, 0, 0)]
  BY <1>4 DEF W!Taken
<1>6. c[0] = <<>> /\ \A k \in 1..n : c[k] = wordOp(k, c[k - 1], items, 0, 0, 0)
  <2>1. 0 \in 0..n /\ \A k \in 1..n : k \in 0..n /\ k # 0
    BY <1>1
  <2> QED BY <1>5, <2>1
<1> QED BY <1>1, <1>2, <1>4, <1>6 DEF n

\* The words of texts are strings.
LEMMA WordsIn ==
    ASSUME NEW v \in Var, NEW items \in Seq(Item(v))
    PROVE  AppliedWords(items) \in Seq(STRING)
<1> DEFINE n == Len(items)
<1>1. n \in Nat /\ DOMAIN items = 1..n
  BY LenProperties
<1>2. AppliedWords(items) = W!Iter(DOMAIN items, <<>>, items, 0, 0, 0)
  BY Zenon DEF AppliedWords, FoldLeft, MapThenFoldSet, W!Iter, wordOp, lastOf
<1> HIDE DEF n
<1>3. W!Picks(1..n) /\ \A k \in 1..n : lastOf(1..k) = k
  BY <1>1, Indices DEF F!Picks, W!Picks
<1>4. wordInv({}, <<>>, 0)
  BY EmptySeq DEF wordInv
<1>5. ASSUME NEW k \in 1..n, NEW r, wordInv(1..(k - 1), r, 0)
      PROVE  wordInv(1..k, wordOp(k, r, items, 0, 0, 0), 0)
  <2>1. items[k] \in Item(v)
    BY <1>1
  <2>2. items[k].word \in STRING
    BY <2>1, DataAssumption DEF Item, Words
  <2>3. Append(r, items[k].word) \in Seq(STRING)
    <3> DEFINE S == STRING
               word == items[k].word
    <3>1. r \in Seq(S) /\ word \in S
      BY <1>5, <2>2 DEF wordInv
    <3> HIDE DEF S, word
    <3>2. Append(r, word) \in Seq(S)
      BY <3>1, AppendProperties
    <3> QED BY <3>2 DEF S, word
  <2> QED BY <1>5, <2>3 DEF wordInv, wordOp
<1>6. wordInv(1..n, W!Iter(1..n, <<>>, items, 0, 0, 0), 0)
  BY <1>1, <1>3, <1>4, <1>5, W!FoldedLeft
<1> QED BY <1>1, <1>2, <1>6 DEF wordInv

\* The word of an item is added to a variable's value, unless the item waits.
AddsWord(t, u, d, v, keyword, item) ==
    LET value == IF getVar(t, d, v) = None THEN <<>> ELSE getVar(t, d, v)
    IN /\ item.word \in STRING
       /\ \A w \in Var \ {v} : SameVar(t, u, d, w)
       /\ waits(item) => u = t
       /\ ~waits(item) => getVar(u, d, v) = IF keyword = "_append" THEN Append(value, item.word)
                                            ELSE <<item.word>> \o value

\* What is done with one pending text.
LEMMA addOpGives ==
    ASSUME Linked, NEW d \in Store, NEW t, Good(t), NEW v \in Var, NEW keyword,
           NEW items \in Seq(Item(v)), NEW i \in DOMAIN items
    PROVE  AddsWord(t, addOp(i, t, d, v, keyword, items), d, v, keyword, items[i])
<1> DEFINE item == items[i]
           value == IF getVar(t, d, v) = None THEN <<>> ELSE getVar(t, d, v)
           text == IF keyword = "_append" THEN Append(value, item.word)
                   ELSE <<item.word>> \o value
           u == addOp(i, t, d, v, keyword, items)
<1>1. item.word \in Words(v) /\ item.word \in STRING
  <2>1. item \in Item(v)
    OBVIOUS
  <2>2. item.word \in Words(v)
    BY <2>1 DEF Item
  <2> QED BY <2>2, DataAssumption DEF Words
<1>2. CASE waits(item)
  <2>1. u = t
    BY <1>2 DEF addOp
  <2>2. \A w \in Var \ {v} : SameVar(t, t, d, w)
    BY DEF SameVar
  <2> HIDE DEF u
  <2> QED BY <1>1, <1>2, <2>1, <2>2 DEF u, AddsWord
<1>3. CASE ~waits(item)
  <2>1. u = setVar(t, d, v, text)
    BY <1>3 DEF addOp
  <2>2. text \in Text(v)
    <3> DEFINE set == Words(v)
               word == item.word
    <3>1. value \in Seq(set) /\ word \in set
      BY <1>1, ValueIn DEF Text
    <3> HIDE DEF set, value, word
    <3>2. Append(value, word) \in Seq(set) \ {<<>>} /\ <<word>> \o value \in Seq(set) \ {<<>>}
      BY <3>1, AppendIn
    <3> QED BY <3>2 DEF Text, set, word
  <2>3. text \in Value(v) /\ text # Unset
    BY <2>2, TextIn, ValueAssumption DEF Value
  <2> HIDE DEF text, u
  <2>4. SetsContent(t, u, d, v, text)
    BY <2>1, <2>3, setVarDoes
  <2>5. getVar(u, d, v) = text
    BY <2>3, <2>4 DEF SetsContent, getVar
  <2> USE DEF text
  <2>6. \A w \in Var \ {v} : SameVar(t, u, d, w)
    BY <2>4 DEF SetsContent
  <2> QED BY <1>1, <1>3, <2>5, <2>6 DEF u, AddsWord
<1> QED BY <1>2, <1>3

valueInv(done, t, z) ==
    /\ Good(t) /\ \A w \in Var \ {z.var} : SameVar(z.from, t, z.store, w)
    /\ \A k \in Keyword : pending(t, z.store, z.var, k) = pending(z.from, z.store, z.var, k)
    /\ \A k \in 0..Len(z.items) : done = 1..k =>
            /\ z.words[k] \in Seq(STRING)
            /\ getVar(t, z.store, z.var)
                    = Joined(z.keyword, getVar(z.from, z.store, z.var), z.words[k])

V == INSTANCE Folding WITH op <- addOp, pick <- lastOf, Inv <- valueInv

\* applyPending adds to the value all that does not wait, which stays pending.
LEMMA applyPendingGives ==
    ASSUME Linked, NEW d \in Store, NEW s, Good(s), NEW keyword \in Keyword, NEW v \in Var
    PROVE  LET t == applyPending(s, d, keyword, v)
               items == pending(s, d, v, keyword)
           IN /\ Good(t) /\ \A w \in Var \ {v} : SameVar(s, t, d, w)
              /\ getVar(t, d, v) = Joined(keyword, getVar(s, d, v), AppliedWords(items))
              /\ \A k \in Keyword : pending(t, d, v, k)
                    = IF k = keyword THEN Waiting(items) ELSE pending(s, d, v, k)
<1> DEFINE items == pending(s, d, v, keyword)
           keep == Waiting(items)
           n == Len(items)
           value == getVar(s, d, v)
           added == V!Iter(DOMAIN items, s, d, v, keyword, items)
           t == applyPending(s, d, keyword, v)
<1>1. t = keptPending(added, d, keyword, v, keep)
  BY Zenon DEF applyPending, FoldLeft, MapThenFoldSet, V!Iter, addOp, lastOf
<1>2. items \in Seq(Item(v)) /\ value \in {None} \cup Seq(STRING)
  BY PendingIn, ValueIn, TextIn
<1>3. n \in Nat /\ DOMAIN items = 1..n
  BY <1>2
<1> HIDE DEF items, t, value, keep
<1>4. PICK c : /\ c[0] = <<>> /\ c[n] = AppliedWords(items)
               /\ \A k \in 1..n : c[k] = wordOp(k, c[k - 1], items, 0, 0, 0)
  BY <1>2, WordsInOrder
<1> DEFINE z == [from |-> s, store |-> d, var |-> v, keyword |-> keyword, items |-> items,
                 words |-> c]
<1>5. /\ z.from = s /\ z.store = d /\ z.var = v /\ z.keyword = keyword /\ z.items = items
      /\ z.words = c
  OBVIOUS
<1> HIDE DEF z, n
<1>6. valueInv({}, s, z)
  <2>1. \A k \in 0..n : {} = 1..k => k = 0
    BY <1>3
  <2>2. <<>> \in Seq(STRING) /\ value = Joined(keyword, value, <<>>)
    BY EmptySeq DEF Joined
  <2>3. \A w \in Var \ {v} : SameVar(s, s, d, w)
    BY DEF SameVar
  <2> QED BY <1>4, <1>5, <2>1, <2>2, <2>3 DEF valueInv, n, value
<1>7. \A k \in 1..n : \A r :
            valueInv(1..(k - 1), r, z) => valueInv(1..k, addOp(k, r, d, v, keyword, items), z)
  <2> TAKE k \in 1..n
  <2> TAKE r
  <2> DEFINE u == addOp(k, r, d, v, keyword, items)
             now == getVar(r, d, v)
             text == IF now = None THEN <<>> ELSE now
             word == items[k].word
  <2> HAVE valueInv(1..(k - 1), r, z)
  <2>0. k - 1 \in 0..n /\ k \in DOMAIN items
    BY <1>3
  <2>1. /\ Good(r) /\ \A w \in Var \ {v} : SameVar(s, r, d, w)
        /\ \A kw \in Keyword : pending(r, d, v, kw) = pending(s, d, v, kw)
    BY <1>5 DEF valueInv
  <2>2. c[k - 1] \in Seq(STRING) /\ now = Joined(keyword, value, c[k - 1])
    BY <1>5, <2>0 DEF valueInv, n, value
  <2>3. /\ Applied(r, u, d)
        /\ \A kw \in Keyword : pending(u, d, v, kw) = pending(r, d, v, kw)
    BY <1>2, <2>0, <2>1, addOpDoes
  <2>4. /\ word \in STRING
        /\ \A w \in Var \ {v} : SameVar(r, u, d, w)
        /\ waits(items[k]) => u = r
        /\ ~waits(items[k]) => getVar(u, d, v) = IF keyword = "_append" THEN Append(text, word)
                                                 ELSE <<word>> \o text
    <3>1. AddsWord(r, u, d, v, keyword, items[k])
      BY <1>2, <2>0, <2>1, addOpGives
    <3> HIDE DEF u
    <3> QED BY <3>1 DEF AddsWord
  <2>5. c[k] = IF waits(items[k]) THEN c[k - 1] ELSE Append(c[k - 1], word)
    BY <1>4 DEF wordOp
  <2> HIDE DEF u, word
  <2>6. c[k] \in Seq(STRING) /\ getVar(u, d, v) = Joined(keyword, value, c[k])
    <3>1. CASE waits(items[k])
      BY <2>2, <2>4, <2>5, <3>1
    <3>2. CASE ~waits(items[k])
      <4> DEFINE old == c[k - 1]
      <4>1. /\ Append(old, word) \in Seq(STRING)
            /\ Joined(keyword, value, Append(old, word))
                 = IF keyword = "_append" THEN Append(text, word) ELSE <<word>> \o text
        <5>1. old \in Seq(STRING) /\ now = Joined(keyword, value, old) /\ word \in STRING
          BY <2>2, <2>4
        <5> HIDE DEF old, now
        <5> QED BY <1>2, <5>1, JoinedNext, Zenon
      <4> QED BY <2>4, <2>5, <3>2, <4>1
    <3> QED BY <3>1, <3>2
  <2>7. \A j \in 0..n : 1..k = 1..j => j = k
    BY <1>3
  <2>8. \A w \in Var \ {v} : SameVar(s, u, d, w)
    BY <2>1, <2>4, SameAgain
  <2>9. Good(u) /\ \A kw \in Keyword : pending(u, d, v, kw) = pending(s, d, v, kw)
    BY <2>1, <2>3 DEF Applied, Done
  <2> QED BY <1>5, <2>6, <2>7, <2>8, <2>9 DEF valueInv, n, u, value
<1>8. valueInv(1..n, V!Iter(1..n, s, d, v, keyword, items), z)
  <2>1. V!Picks(1..n) /\ \A k \in 1..n : lastOf(1..k) = k
    BY <1>3, Indices DEF F!Picks, V!Picks
  <2> QED BY <1>3, <1>6, <1>7, <2>1, V!FoldedLeft
<1>9. /\ Good(added) /\ \A w \in Var \ {v} : SameVar(s, added, d, w)
      /\ \A k \in Keyword : pending(added, d, v, k) = pending(s, d, v, k)
      /\ getVar(added, d, v) = Joined(keyword, value, AppliedWords(items))
  <2>1. n \in 0..n /\ n = Len(items)
    BY <1>3 DEF n
  <2> QED BY <1>3, <1>4, <1>5, <1>8, <2>1 DEF valueInv, value
<1> HIDE DEF added
<1>10. SetsPending(added, t, d, v, keyword, keep) /\ Good(t)
  <2>1. CASE keep # <<>>
    <3>1. keep \in Seq(Item(v))
      BY <1>2, WaitingIn DEF keep
    <3>2. t = setPending(added, d, v, keyword, keep) /\ keep \in Pending(v)
      BY <1>1, <3>1, <2>1 DEF keptPending, Pending
    <3> QED BY <3>2, <1>9, setPendingDoes DEF Done
  <2>2. CASE keep = <<>>
    <3>1. t = delVarFlag(added, d, v, keyword)
      BY <1>1, <2>2 DEF keptPending
    <3> QED BY <3>1, <2>2, <1>9, delVarFlagDoes DEF Done
  <2> QED BY <2>1, <2>2
<1>11. getVar(t, d, v) = getVar(added, d, v)
  BY <1>10 DEF SetsPending, getVar
<1>12. \A w \in Var \ {v} : SameVar(s, t, d, w)
  BY <1>9, <1>10, SameAgain DEF SetsPending
<1>13. \A k \in Keyword : pending(t, d, v, k) = IF k = keyword THEN keep ELSE pending(s, d, v, k)
  BY <1>9, <1>10 DEF SetsPending
<1> QED BY <1>9, <1>10, <1>11, <1>12, <1>13 DEF t, value, items, keep

\* A variable with what was pending under a keyword in its value.
Combined(s, t, d, keyword, v) ==
    /\ getVar(t, d, v) = Joined(keyword, getVar(s, d, v), AppliedWords(pending(s, d, v, keyword)))
    /\ \A k \in Keyword : pending(t, d, v, k)
            = IF k = keyword THEN Waiting(pending(s, d, v, keyword)) ELSE pending(s, d, v, k)

combinedInv(done, t, z) ==
    /\ Good(t)
    /\ IF z.var \in done THEN Combined(z.from, t, z.store, z.keyword, z.var)
       ELSE SameVar(z.from, t, z.store, z.var)

C == INSTANCE Folding WITH op <- keywordOp, pick <- anyOf, Inv <- combinedInv

\* Nothing is appended or prepended where nothing is pending.
LEMMA CombinedNone ==
    ASSUME NEW s, NEW t, NEW d, NEW keyword \in Keyword, NEW v, SameVar(s, t, d, v),
           pending(s, d, v, keyword) = <<>>
    PROVE  Combined(s, t, d, keyword, v)
<1> DEFINE none == <<>>
<1>1. none \in Seq({}) /\ Len(none) = 0
  BY EmptySeq
<1> HIDE DEF none
<1>2. Waiting(none) = <<>>
  <2>1. Waiting(none) \in Seq({})
    BY <1>1, WaitingIn
  <2>2. \A seq \in Seq({}) : seq = <<>>
    OBVIOUS
  <2> QED BY <2>1, <2>2
<1>3. AppliedWords(none) = <<>>
  BY <1>1, WordsInOrder
<1>4. pending(s, d, v, keyword) = none
  BY DEF none
<1>5. getVar(t, d, v) = getVar(s, d, v)
  BY SameValues
<1> QED BY <1>2, <1>3, <1>4, <1>5 DEF Combined, Joined, SameVar, none

\* applyKeyword combines each variable with what was pending for it.
LEMMA applyKeywordGives ==
    ASSUME Linked, NEW d \in Store, NEW s, Good(s), NEW keyword \in Keyword, NEW v \in Var,
           SpecialRight(s, d, v)
    PROVE  Combined(s, applyKeyword(s, d, keyword), d, keyword, v)
<1> DEFINE all == Registered(s.special, d, keyword)
           taken == WithSpecial(s, d, keyword, all)
           z == [from |-> s, store |-> d, keyword |-> keyword, var |-> v]
           t == applyKeyword(s, d, keyword)
<1>0. v \notin all => pending(s, d, v, keyword) = <<>>
  BY DEF SpecialRight, KeywordRight
<1>1. CASE ~has_key(s.special, sources, d, keyword)
  <2>1. t = s /\ v \notin all
    BY <1>1 DEF applyKeyword, Registered
  <2>2. SameVar(s, s, d, v)
    BY DEF SameVar
  <2> HIDE DEF t
  <2> QED BY <1>0, <2>1, <2>2, CombinedNone DEF t
<1>2. CASE has_key(s.special, sources, d, keyword)
  <2>1. t = C!Iter(all, taken, d, keyword, 0, 0)
    BY <1>2, Zenon
       DEF applyKeyword, FoldSet, MapThenFoldSet, C!Iter, keywordOp, anyOf, WithSpecial
  <2>2. all \in SUBSET Var
    BY RegisteredIn
  <2>3. Good(taken) /\ SameVar(s, taken, d, v)
    <3> HIDE DEF all
    <3> QED BY <2>2, SpecialWritten
  <2> HIDE DEF taken, t
  <2>4. z.from = s /\ z.store = d /\ z.keyword = keyword /\ z.var = v
    OBVIOUS
  <2>5. IsFiniteSet(all)
    <3> HIDE DEF all
    <3> QED BY <2>2, DataAssumption, FS_Subset
  <2> HIDE DEF all, z
  <2>6. C!Picks(all)
    BY DEF C!Picks, anyOf
  <2>7. combinedInv({}, taken, z)
    BY <2>3, <2>4 DEF combinedInv
  <2>8. \A part \in SUBSET all : part # {} => \A r :
            combinedInv(part \ {anyOf(part)}, r, z)
                => combinedInv(part, keywordOp(anyOf(part), r, d, keyword, 0, 0), z)
    <3> TAKE part \in SUBSET all
    <3> HAVE part # {}
    <3> TAKE r
    <3> DEFINE x == anyOf(part)
               u == keywordOp(x, r, d, keyword, 0, 0)
    <3> HAVE combinedInv(part \ {x}, r, z)
    <3>1. x \in part /\ x \in Var
      BY <2>2, <2>6 DEF C!Picks
    <3> HIDE DEF x
    <3>2. Good(r) /\ u = applyPending(r, d, keyword, x)
      BY DEF combinedInv, keywordOp
    <3>3. /\ Good(u) /\ \A w \in Var \ {x} : SameVar(r, u, d, w)
          /\ Combined(r, u, d, keyword, x)
      <4> HIDE DEF u
      <4> QED BY <3>1, <3>2, applyPendingGives DEF Combined
    <3> HIDE DEF u
    <3>4. CASE x = v
      <4>1. SameVar(s, r, d, v)
        BY <2>4, <3>4 DEF combinedInv
      <4>2. getVar(r, d, v) = getVar(s, d, v)
        BY <4>1, SameValues
      <4>3. Combined(s, u, d, keyword, v)
        BY <3>3, <3>4, <4>1, <4>2 DEF Combined, SameVar
      <4> QED BY <2>4, <3>1, <3>3, <3>4, <4>3 DEF combinedInv, u, x
    <3>5. CASE x # v
      <4>1. SameVar(r, u, d, v) /\ getVar(u, d, v) = getVar(r, d, v)
        BY <3>3, <3>5, SameValues
      <4>2. CASE v \in part
        <5>1. Combined(s, r, d, keyword, v)
          BY <2>4, <3>5, <4>2 DEF combinedInv
        <5>2. Combined(s, u, d, keyword, v)
          BY <4>1, <5>1 DEF Combined, SameVar
        <5> QED BY <2>4, <3>3, <4>2, <5>2 DEF combinedInv, u, x
      <4>3. CASE v \notin part
        <5>1. SameVar(s, r, d, v)
          BY <2>4, <4>3 DEF combinedInv
        <5>2. SameVar(s, u, d, v)
          BY <4>1, <5>1, SameAgain
        <5> QED BY <2>4, <3>3, <4>3, <5>2 DEF combinedInv, u, x
      <4> QED BY <4>2, <4>3
    <3> QED BY <3>4, <3>5
  <2>9. combinedInv(all, C!Iter(all, taken, d, keyword, 0, 0), z)
    BY <2>5, <2>6, <2>7, <2>8, C!Folded DEF IsFiniteSet, C!IsFiniteSet
  <2>10. IF v \in all THEN Combined(s, t, d, keyword, v) ELSE SameVar(s, t, d, v)
    BY <2>1, <2>4, <2>9 DEF combinedInv
  <2> QED BY <1>0, <2>10, CombinedNone DEF t, all
<1> QED BY <1>1, <1>2
-----------------------------------------------------------------------------
(* Overrides                                                               *)

\* The variables that override v, where theirs is active.
Over(v) == {w \in Var : OverrideOf[w] # NoOverride /\ BaseOf[w] = v}

HasValue(s, d, w) == findVar(s, d, w)["content"] \notin {Unset, None}

\* The one variable of an override that overrides v is taken, if it has a value.
takenInv(done, t, z) ==
    /\ Good(t)
    /\ \A k \in Keyword : pending(t, z.store, z.var, k) = pending(z.from, z.store, z.var, k)
    /\ \A w \in Over(z.var) : IF w \in done THEN ~HasValue(t, z.store, w)
                              ELSE SameVar(z.from, t, z.store, w)
    /\ \A w \in Over(z.var) \cap done :
            getVar(t, z.store, z.var) = getVar(z.from, z.store, w)
    /\ Over(z.var) \cap done = {} =>
            getVar(t, z.store, z.var) = getVar(z.from, z.store, z.var)

T == INSTANCE Folding WITH op <- overrideOp, pick <- anyOf, Inv <- takenInv

\* A variable with a value is not None.
LEMMA HasValueIs ==
    ASSUME Linked, NEW d \in Store, NEW s, Good(s), NEW w \in Var
    PROVE  HasValue(s, d, w) => getVar(s, d, w) = findVar(s, d, w)["content"]
BY DEF HasValue, getVar

\* applyOverride, of a variable that no other is in the name of.
LEMMA applyOverrideGives ==
    ASSUME Linked, NEW d \in Store, NEW s, Good(s), SeenRight(s, d), NEW o \in Override,
           NEW v \in Overridden
    PROVE  LET t == applyOverride(s, d, o)
               over == {w \in Over(v) : OverrideOf[w] = o /\ HasValue(s, d, w)}
           IN /\ \A k \in Keyword : pending(t, d, v, k) = pending(s, d, v, k)
              /\ \A w \in Over(v) : IF w \in over THEN ~HasValue(t, d, w)
                                    ELSE SameVar(s, t, d, w)
              /\ \A w \in over : getVar(t, d, v) = getVar(s, d, w)
              /\ over = {} => getVar(t, d, v) = getVar(s, d, v)
<1> DEFINE all == Registered(s.seen, d, o)
           taken == WithSeen(s, d, o, all)
           z == [from |-> s, store |-> d, var |-> v]
           t == applyOverride(s, d, o)
           over == {w \in Over(v) : OverrideOf[w] = o /\ HasValue(s, d, w)}
<1>0. /\ v \in Var /\ OverrideOf[v] = NoOverride /\ o # NoOverride
      /\ \A w \in Over(v) : w \in Var /\ \A x \in Var : OverrideOf[x] # NoOverride => BaseOf[x] # w
  BY DEF Overridden, Over, Override
<1>1. all \subseteq {w \in Var : OverrideOf[w] = o}
  BY RegisteredIn
<1>2. over = Over(v) \cap all
  <2>1. \A w \in Over(v) : w \in all <=> OverrideOf[w] = o /\ HasValue(s, d, w)
    <3> TAKE w \in Over(v)
    <3>1. w \in Var /\ OverrideOf[w] # NoOverride
      BY DEF Over
    <3>2. CASE OverrideOf[w] = o
      BY <3>1, <3>2 DEF SeenRight, HasValue
    <3>3. CASE OverrideOf[w] # o
      BY <1>1, <3>3
    <3> QED BY <3>2, <3>3
  <2> QED BY <2>1
<1> HIDE DEF over
<1>3. CASE ~has_key(s.seen, sources, d, o)
  <2>1. t = s /\ all = {}
    BY <1>3 DEF applyOverride, Registered
  <2>2. \A w \in Over(v) : SameVar(s, s, d, w)
    BY DEF SameVar
  <2> HIDE DEF t, all
  <2> QED BY <1>2, <2>1, <2>2 DEF t, over
<1>4. CASE has_key(s.seen, sources, d, o)
  <2>1. t = T!Iter(all, taken, d, 0, 0, 0)
    BY <1>4, Zenon
       DEF applyOverride, FoldSet, MapThenFoldSet, T!Iter, overrideOp, anyOf, WithSeen
  <2>2. Good(taken) /\ \A w \in Var : SameVar(s, taken, d, w)
    <3> HIDE DEF all
    <3> QED BY <1>1, SeenWritten
  <2> HIDE DEF taken, t
  <2>3. z.from = s /\ z.store = d /\ z.var = v
    OBVIOUS
  <2> HIDE DEF z, all
  <2>4. IsFiniteSet(all)
    <3>1. all \in SUBSET Var
      BY <1>1
    <3> QED BY <3>1, DataAssumption, FS_Subset
  <2>5. T!Picks(all)
    BY DEF T!Picks, anyOf
  <2>6. takenInv({}, taken, z)
    <3>1. getVar(taken, d, v) = getVar(s, d, v)
      BY <1>0, <2>2, SameValues
    <3> QED BY <1>0, <2>2, <2>3, <3>1 DEF takenInv, SameVar
  <2>7. \A part \in SUBSET all : part # {} => \A r :
            takenInv(part \ {anyOf(part)}, r, z)
                => takenInv(part, overrideOp(anyOf(part), r, d, 0, 0, 0), z)
    <3> TAKE part \in SUBSET all
    <3> HAVE part # {}
    <3> TAKE r
    <3> DEFINE x == anyOf(part)
               b == BaseOf[x]
               value == getVar(r, d, x)
               y == setVar(r, d, b, value)
               u == delVar(y, d, x)
    <3> HAVE takenInv(part \ {x}, r, z)
    <3>0. overrideOp(x, r, d, 0, 0, 0) = u
      BY DEF overrideOp
    <3>1. x \in part /\ x \in all /\ x \in Var /\ OverrideOf[x] = o
      BY <1>1, <2>5 DEF T!Picks
    <3>2. b \in Var /\ (b \in Plain => x \in Plain) /\ (b = v <=> x \in Over(v)) /\ x # v
          /\ b \notin Over(v)
      BY <1>0, <3>1, DataAssumption DEF Over
    <3> HIDE DEF x
    <3>3. /\ Good(r)
          /\ \A k \in Keyword : pending(r, d, v, k) = pending(s, d, v, k)
          /\ \A w \in Over(v) : IF w \in part \ {x} THEN ~HasValue(r, d, w)
                                ELSE SameVar(s, r, d, w)
          /\ \A w \in Over(v) \cap (part \ {x}) : getVar(r, d, v) = getVar(s, d, w)
          /\ Over(v) \cap (part \ {x}) = {} => getVar(r, d, v) = getVar(s, d, v)
      BY <2>3 DEF takenInv, x
    <3>4. value \in Value(b)
      <4>1. Text(x) \subseteq Text(b) /\ value \in {None} \cup Text(x)
        BY <3>1, <3>2, <3>3, WordsMore, ValueIn
      <4> QED BY <4>1 DEF Value
    <3> HIDE DEF b, value
    <3>5. Done(r, y, d) /\ SetsContent(r, y, d, b, value)
      BY <3>2, <3>3, <3>4, setVarDoes
    <3> HIDE DEF y
    <3>6. Done(y, u, d) /\ Deletes(y, u, d, x)
      BY <3>1, <3>5, delVarDoes DEF Done
    <3> HIDE DEF u
    <3>7. Good(u) /\ SameVar(y, u, d, v) /\ getVar(u, d, v) = getVar(y, d, v)
      BY <1>0, <3>2, <3>6, SameValues DEF Deletes, Done
    <3>8. \A k \in Keyword : pending(u, d, v, k) = pending(s, d, v, k)
      BY <1>0, <3>3, <3>5, <3>7 DEF SetsContent, SameVar
    <3>9. ASSUME NEW w \in Over(v)
          PROVE  IF w \in part THEN ~HasValue(u, d, w) ELSE SameVar(s, u, d, w)
      <4>1. CASE w = x
        BY <3>1, <3>6, <4>1 DEF Deletes, HasValue, Empty, Flag
      <4>2. CASE w # x
        <5>1. w \in Var /\ w # b
          BY <1>0, <3>2
        <5>2. w \in part <=> w \in part \ {x}
          BY <4>2
        <5>3. CASE w \notin part
          <6>1. SameVar(r, y, d, w) /\ SameVar(y, u, d, w) /\ SameVar(s, r, d, w)
            BY <3>3, <3>5, <3>6, <4>2, <5>1, <5>3 DEF SetsContent, Deletes
          <6> QED BY <5>3, <6>1, SameAgain
        <5>4. CASE w \in part
          <6>1. SameVar(r, y, d, w) /\ SameVar(y, u, d, w) /\ ~HasValue(r, d, w)
            BY <3>3, <3>5, <3>6, <4>2, <5>1, <5>4 DEF SetsContent, Deletes
          <6> QED BY <5>4, <6>1 DEF SameVar, HasValue
        <5> QED BY <5>3, <5>4
      <4> QED BY <4>1, <4>2
    <3>10. CASE x \in Over(v)
      <4>1. \A w \in Over(v) \cap part : w = x
        <5> TAKE w \in Over(v) \cap part
        <5>1. /\ w \in Var /\ OverrideOf[w] = OverrideOf[x] /\ OverrideOf[w] # NoOverride
              /\ BaseOf[w] = BaseOf[x]
          BY <1>1, <3>1, <3>10 DEF Over
        <5> QED BY <5>1, <3>1, NameAssumption
      <4>2. b = v /\ SameVar(s, r, d, x)
        BY <3>2, <3>3, <3>10
      <4>3. value = getVar(s, d, x)
        BY <4>2, SameValues DEF value
      <4>4. value # Unset
        BY <3>1, <3>3, ValueIn, TextIn, ValueAssumption DEF value
      <4>5. getVar(y, d, v) = value
        BY <3>5, <4>2, <4>4 DEF SetsContent, getVar
      <4>6. /\ \A w \in Over(v) \cap part : getVar(u, d, v) = getVar(s, d, w)
            /\ Over(v) \cap part # {}
        BY <3>1, <3>7, <3>10, <4>1, <4>3, <4>5
      <4> QED BY <2>3, <3>0, <3>7, <3>8, <3>9, <4>6 DEF takenInv, x
    <3>11. CASE x \notin Over(v)
      <4>1. SameVar(r, y, d, v) /\ getVar(y, d, v) = getVar(r, d, v)
        BY <1>0, <3>2, <3>5, <3>11, SameValues DEF SetsContent
      <4>2. Over(v) \cap part = Over(v) \cap (part \ {x})
        BY <3>11
      <4>3. /\ \A w \in Over(v) \cap part : getVar(u, d, v) = getVar(s, d, w)
            /\ Over(v) \cap part = {} => getVar(u, d, v) = getVar(s, d, v)
        BY <3>3, <3>7, <4>1, <4>2
      <4> QED BY <2>3, <3>0, <3>7, <3>8, <3>9, <4>3 DEF takenInv, x
    <3> QED BY <3>10, <3>11
  <2>8. takenInv(all, T!Iter(all, taken, d, 0, 0, 0), z)
    BY <2>4, <2>5, <2>6, <2>7, T!Folded DEF IsFiniteSet, T!IsFiniteSet
  <2>9. /\ \A k \in Keyword : pending(t, d, v, k) = pending(s, d, v, k)
        /\ \A w \in Over(v) : IF w \in all THEN ~HasValue(t, d, w) ELSE SameVar(s, t, d, w)
        /\ \A w \in Over(v) \cap all : getVar(t, d, v) = getVar(s, d, w)
        /\ Over(v) \cap all = {} => getVar(t, d, v) = getVar(s, d, v)
    BY <2>1, <2>3, <2>8 DEF takenInv
  <2> QED BY <1>2, <2>9 DEF t, over
<1> QED BY <1>3, <1>4

\* A variable's value when some of the overrides have been applied.
ValueAfter(s, d, v, indices) ==
    LET active == Overrides(s, d, v, indices)
    IN IF active = {} THEN getVar(s, d, v)
       ELSE getVar(s, d, CHOOSE w \in Var : w \in Overriding(s, d, v, overrides[Max(active)]))

overInv(done, t, z) ==
    /\ Applied(z.from, t, z.store)
    /\ \A k \in Keyword : pending(t, z.store, z.var, k) = pending(z.from, z.store, z.var, k)
    /\ \A w \in Over(z.var) : IF \E j \in done : overrides[j] = OverrideOf[w]
                              THEN ~HasValue(t, z.store, w)
                              ELSE SameVar(z.from, t, z.store, w)
    /\ getVar(t, z.store, z.var) = ValueAfter(z.from, z.store, z.var, done)

D == INSTANCE Folding WITH op <- finalOp, pick <- lastOf, Inv <- overInv

\* The greatest of numbers up to one of them.
LEMMA MaxIs ==
    ASSUME NEW k \in Nat, NEW S \in SUBSET (1..k), k \in S
    PROVE  Max(S) = k
<1>1. \A y \in S : k >= y
  OBVIOUS
<1>2. \A x \in S : (\A y \in S : x >= y) => x = k
  OBVIOUS
<1> QED BY <1>1, <1>2 DEF Max

\* The variables with a value that override v under an override.
LEMMA OverridingIs ==
    ASSUME NEW s, NEW d, NEW v, NEW o \in Override
    PROVE  Overriding(s, d, v, o) = {w \in Over(v) : OverrideOf[w] = o /\ HasValue(s, d, w)}
BY DEF Overriding, Over, HasValue, Override

\* One more override.
LEMMA OverrideNext ==
    ASSUME Linked, NEW d \in Store, NEW s, Right(s, d), overrides \in Seq(Override),
           NEW v \in Overridden, NEW k \in 1..Len(overrides), NEW r,
           NEW z, z.from = s, z.store = d, z.var = v, overInv(1..(k - 1), r, z)
    PROVE  overInv(1..k, applyOverride(r, d, overrides[k]), z)
<1> DEFINE o == overrides[k]
           u == applyOverride(r, d, o)
           over == {w \in Over(v) : OverrideOf[w] = o /\ HasValue(r, d, w)}
           before == Overrides(s, d, v, 1..(k - 1))
           now == Overrides(s, d, v, 1..k)
<1>1. /\ Applied(s, r, d) /\ getVar(r, d, v) = ValueAfter(s, d, v, 1..(k - 1))
      /\ \A kw \in Keyword : pending(r, d, v, kw) = pending(s, d, v, kw)
      /\ \A w \in Over(v) : IF \E j \in 1..(k - 1) : overrides[j] = OverrideOf[w]
                            THEN ~HasValue(r, d, w) ELSE SameVar(s, r, d, w)
  BY DEF overInv
<1>2. Good(r) /\ SeenRight(r, d) /\ o \in Override /\ k \in Nat
  BY <1>1 DEF Applied, Done, Right
<1> HIDE DEF o
<1>3. Applied(r, u, d)
  BY <1>2, applyOverrideDoes
<1>4. /\ \A kw \in Keyword : pending(u, d, v, kw) = pending(r, d, v, kw)
      /\ \A w \in Over(v) : IF w \in over THEN ~HasValue(u, d, w) ELSE SameVar(r, u, d, w)
      /\ \A w \in over : getVar(u, d, v) = getVar(r, d, w)
      /\ over = {} => getVar(u, d, v) = getVar(r, d, v)
  BY <1>2, applyOverrideGives
<1> HIDE DEF u
<1>5. Applied(s, u, d)
  BY <1>1, <1>3, AppliedAgain
<1>6. \A kw \in Keyword : pending(u, d, v, kw) = pending(s, d, v, kw)
  BY <1>1, <1>4
<1>7. ASSUME NEW w \in Over(v)
      PROVE  IF \E j \in 1..k : overrides[j] = OverrideOf[w]
             THEN ~HasValue(u, d, w) ELSE SameVar(s, u, d, w)
  <2>1. (\E j \in 1..k : overrides[j] = OverrideOf[w])
            <=> (OverrideOf[w] = o \/ \E j \in 1..(k - 1) : overrides[j] = OverrideOf[w])
    <3>1. \A j : j \in 1..k <=> j = k \/ j \in 1..(k - 1)
      BY <1>2
    <3> QED BY <3>1 DEF o
  <2>2. CASE OverrideOf[w] = o
    <3>1. CASE w \in over
      BY <1>4, <2>1, <2>2, <3>1
    <3>2. CASE w \notin over
      <4>1. ~HasValue(r, d, w) /\ SameVar(r, u, d, w)
        BY <1>4, <2>2, <3>2
      <4> QED BY <2>1, <2>2, <4>1 DEF SameVar, HasValue
    <3> QED BY <3>1, <3>2
  <2>3. CASE OverrideOf[w] # o
    <3>1. SameVar(r, u, d, w)
      BY <1>4, <2>3
    <3>2. CASE \E j \in 1..(k - 1) : overrides[j] = OverrideOf[w]
      BY <1>1, <2>1, <3>1, <3>2 DEF SameVar, HasValue
    <3>3. CASE ~\E j \in 1..(k - 1) : overrides[j] = OverrideOf[w]
      <4>1. SameVar(s, r, d, w)
        BY <1>1, <3>3
      <4>2. SameVar(s, u, d, w)
        BY <3>1, <4>1, SameAgain
      <4> QED BY <2>1, <2>3, <3>3, <4>2
    <3> QED BY <3>2, <3>3
  <2> QED BY <2>2, <2>3
<1>8. getVar(u, d, v) = ValueAfter(s, d, v, 1..k)
  <2> DEFINE first == \A j \in 1..(k - 1) : overrides[j] # o
  <2>1. now = IF first /\ Overriding(s, d, v, o) # {} THEN before \cup {k} ELSE before
    <3>1. \A j : j \in 1..k <=> j = k \/ j \in 1..(k - 1)
      BY <1>2
    <3> DEFINE Takes(i) == /\ Overriding(s, d, v, overrides[i]) # {}
                           /\ \A j \in 1..(i - 1) : overrides[j] # overrides[i]
    <3>2. now = {i \in 1..k : Takes(i)} /\ before = {i \in 1..(k - 1) : Takes(i)}
      BY DEF Overrides
    <3>3. Takes(k) <=> first /\ Overriding(s, d, v, o) # {}
      BY DEF o
    <3> HIDE DEF now, before, first, Takes
    <3> QED BY <3>1, <3>2, <3>3
  <2>2. CASE ~first
    <3>1. over = {}
      BY <1>1, <2>2
    <3>2. now = before
      BY <2>1, <2>2
    <3> HIDE DEF over, now, before
    <3> QED BY <1>1, <1>4, <3>1, <3>2 DEF ValueAfter, now, before
  <2>3. CASE first
    <3>1. over = Overriding(s, d, v, o)
      <4>1. \A w \in Over(v) : OverrideOf[w] = o => SameVar(s, r, d, w)
        BY <1>1, <2>3
      <4>2. \A w \in Over(v) : OverrideOf[w] = o => (HasValue(s, d, w) <=> HasValue(r, d, w))
        BY <4>1 DEF SameVar, HasValue
      <4> QED BY <1>2, <4>2, OverridingIs
    <3>2. CASE over = {}
      <4>1. now = before
        BY <2>1, <3>1, <3>2
      <4> HIDE DEF over, now, before
      <4> QED BY <1>1, <1>4, <3>2, <4>1 DEF ValueAfter, now, before
    <3>3. CASE over # {}
      <4>1. k \in now /\ now \in SUBSET (1..k)
        BY <2>1, <2>3, <3>1, <3>3 DEF Overrides
      <4>2. Max(now) = k
        <5> HIDE DEF now
        <5> QED BY <1>2, <4>1, MaxIs
      <4> DEFINE w == CHOOSE x \in Var : x \in Overriding(s, d, v, o)
      <4>3. w \in over
        <5>1. \E x \in Var : x \in Overriding(s, d, v, o)
          BY <3>1, <3>3 DEF Overriding
        <5> QED BY <3>1, <5>1
      <4>4. ValueAfter(s, d, v, 1..k) = getVar(s, d, w)
        BY <4>1, <4>2 DEF ValueAfter, o
      <4>5. SameVar(s, r, d, w)
        <5>1. w \in Over(v) /\ OverrideOf[w] = o
          BY <4>3
        <5> HIDE DEF w
        <5> QED BY <1>1, <2>3, <5>1
      <4> HIDE DEF w, over
      <4> QED BY <1>4, <4>3, <4>4, <4>5, SameValues
    <3> QED BY <3>2, <3>3
  <2> QED BY <2>2, <2>3
<1> QED BY <1>5, <1>6, <1>7, <1>8 DEF overInv, u, o

\* finalize gives each variable that no other is in the name of its final value.
LEMMA finalizeGives ==
    ASSUME Linked, NEW d \in Store, Good(data), Right(data, d), overrides \in Seq(Override),
           NEW v \in Overridden
    PROVE  LET t == finalize(data, d)
           IN /\ getVar(t, d, v) = FinalValue(d, v)
              /\ \A k \in Keyword : pending(t, d, v, k) = Waiting(pending(data, d, v, k))
<1> DEFINE n == Len(overrides)
           z == [from |-> data, store |-> d, var |-> v]
           overridden == D!Iter(DOMAIN overrides, data, d, overrides, 0, 0)
           appended == applyKeyword(overridden, d, "_append")
           t == finalize(data, d)
           value == ValueAfter(data, d, v, DOMAIN overrides)
           appends == AppliedWords(pending(data, d, v, "_append"))
           prepends == AppliedWords(pending(data, d, v, "_prepend"))
<1>1. t = applyKeyword(appended, d, "_prepend")
  BY Zenon DEF finalize, FoldLeft, MapThenFoldSet, D!Iter, finalOp, lastOf
<1>2. n \in Nat /\ DOMAIN overrides = 1..n
  BY LenProperties
<1>3. z.from = data /\ z.store = d /\ z.var = v
  OBVIOUS
<1> HIDE DEF n, z, t
<1>4. overInv({}, data, z)
  <2>1. Overrides(data, d, v, {}) = {}
    BY DEF Overrides
  <2>2. getVar(data, d, v) = ValueAfter(data, d, v, {})
    BY <2>1 DEF ValueAfter
  <2>3. \A w : SameVar(data, data, d, w)
    BY DEF SameVar
  <2> QED BY <1>3, <2>2, <2>3, AppliedSame DEF overInv
<1>5. \A k \in 1..n : \A r :
            overInv(1..(k - 1), r, z) => overInv(1..k, finalOp(k, r, d, overrides, 0, 0), z)
  <2> TAKE k \in 1..n
  <2> TAKE r
  <2> HAVE overInv(1..(k - 1), r, z)
  <2>1. overInv(1..k, applyOverride(r, d, overrides[k]), z)
    BY <1>3, OverrideNext DEF n
  <2> QED BY <2>1 DEF finalOp
<1>6. D!Picks(1..n) /\ \A k \in 1..n : lastOf(1..k) = k
  BY <1>2, Indices DEF F!Picks, D!Picks
<1>7. overInv(1..n, D!Iter(1..n, data, d, overrides, 0, 0), z)
  BY <1>2, <1>4, <1>5, <1>6, D!FoldedLeft
<1>8. /\ Applied(data, overridden, d) /\ getVar(overridden, d, v) = value
      /\ \A k \in Keyword : pending(overridden, d, v, k) = pending(data, d, v, k)
  BY <1>2, <1>3, <1>7 DEF overInv
<1> HIDE DEF overridden
<1>9. v \in Var /\ Good(overridden) /\ Right(overridden, d)
  BY <1>8 DEF Applied, Done, Overridden
<1>10. Applied(overridden, appended, d) /\ Combined(overridden, appended, d, "_append", v)
  BY <1>9, applyKeywordDoes, applyKeywordGives DEF Right, Keyword
<1> HIDE DEF appended
<1>11. Good(appended) /\ Right(appended, d)
  BY <1>9, <1>10 DEF Applied, Done
<1>12. Combined(appended, t, d, "_prepend", v)
  BY <1>1, <1>9, <1>11, applyKeywordGives DEF Right, Keyword
<1>13. \A k \in Keyword : pending(t, d, v, k) = Waiting(pending(data, d, v, k))
  BY <1>8, <1>10, <1>12 DEF Combined, Keyword
<1>14. getVar(t, d, v) = Joined("_prepend", Joined("_append", value, appends), prepends)
  BY <1>8, <1>10, <1>12 DEF Combined, Keyword
<1>15. /\ value \in {None} \cup Seq(STRING)
       /\ appends \in Seq(STRING) /\ prepends \in Seq(STRING)
  <2>1. value \in {None} \cup Seq(STRING)
    BY <1>8, <1>9, ValueIn, TextIn
  <2>2. \A k \in Keyword : pending(data, d, v, k) \in Seq(Item(v))
    BY <1>9, PendingIn
  <2> HIDE DEF value
  <2> QED BY <1>9, <2>1, <2>2, WordsIn DEF Keyword
<1>16. FinalValue(d, v) = IF appends = <<>> /\ prepends = <<>> THEN value
                          ELSE Reverse(prepends) \o (IF value = None THEN <<>> ELSE value)
                                    \o appends
  BY Zenon DEF FinalValue, ValueAfter
<1>17. Joined("_prepend", Joined("_append", value, appends), prepends) = FinalValue(d, v)
  <2> HIDE DEF value, appends, prepends
  <2> QED BY <1>15, <1>16, JoinedTwice
<1> QED BY <1>13, <1>14, <1>17 DEF t

\* FinalRight: finalize, called on any store of which the source has not been
\* changed, gives each variable the value that its active overrides and what is
\* pending for it call for, unless something is pending for an active override
\* of it as well, and leaves pending what waits for an override.
THEOREM SpecFinalRight == Spec => []FinalRight
<1>1. DataInv /\ RegisteredRight => FinalRight
  <2> SUFFICES ASSUME DataInv, RegisteredRight, NEW d \in (1..made) \ late, NEW v \in Overridden
               PROVE  /\ ~PendingOverride(d, v)
                            => getVar(finalize(data, d), d, v) = FinalValue(d, v)
                      /\ \A k \in Keyword : pending(finalize(data, d), d, v, k)
                                               = Waiting(pending(data, d, v, k))
    BY DEF FinalRight
  <2>1. d \in Store /\ Linked /\ Good(data) /\ overrides \in Seq(Override)
    BY MadeStores DEF DataInv
  <2>2. Right(data, d)
    BY RegisteredIs
  <2> QED BY <2>1, <2>2, finalizeGives
<1> QED BY <1>1, SpecDataInv, SpecRegisteredRight, PTL
=============================================================================
