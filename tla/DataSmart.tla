----------------------------- MODULE DataSmart -----------------------------
(***************************************************************************)
(* The metadata store, DataSmart of bitbake/lib/bb/data_smart.py: stores   *)
(* of variables with flags, each store a copy that is linked to the one it *)
(* was made from, with overrides and pending appends that finalize()       *)
(* applies, and a cache of expanded values.                                *)
(*                                                                         *)
(* A text is a sequence of words; a word that is a variable stands for     *)
(* ${variable}, and is a plain one, of which the value refers to no other. *)
(* The lists of pending appends are objects of their own, which a shallow  *)
(* copy of a variable's flags shares.                                      *)
(***************************************************************************)
EXTENDS Naturals, Sequences, FiniteSets, FiniteSetsExt, SequencesExt, COW

CONSTANTS
    Var,            \* names of variables
    Plain,          \* variables of which the value refers to no other
    OverrideOf,     \* maps a variable to what its name has after the last "_"
    BaseOf,         \* maps a variable to its name before that
    NoOverride,     \* an override that is not there
    None,           \* Python's None
    Unset,          \* a flag that is not in a variable's dictionary
    MaxStores,      \* stores there may be
    MaxCalls,       \* calls that change or copy a store
    OverridesSet,   \* the sequences of overrides that OVERRIDES may hold
    SetVarInputs,   \* pairs of a variable and a text
    KeywordInputs,  \* triples of a variable, a keyword and a pending text
    DefaultInputs,  \* pairs of a variable and a text
    DelVarInputs, RenameInputs, GetVarInputs

Store == 1..MaxStores

Keyword == {"_append", "_prepend"}

Flag == {"content", "defaultval"} \cup Keyword

\* A list of pending appends for each place that may hold one, and one to make.
Place == Store \X Var \X Keyword

List == 1..(1 + Cardinality(Place))

Override == {OverrideOf[v] : v \in Var} \ {NoOverride}

\* Words that the texts of a variable have: those it may refer to are plain.
Words(v) == (STRING \ Var) \cup (IF v \in Plain THEN {} ELSE Plain)

Text(v) == Seq(Words(v)) \ {<<>>}

\* What "content" and "defaultval" may be.
Value(v) == {Unset, None} \cup Text(v)

\* A text to append or prepend, perhaps where an override is active.
Item(v) == [word : Words(v), override : {NoOverride} \cup STRING]

\* A variable's dictionary of flags.
Dict(v) == [content : Value(v), defaultval : Value(v),
            _append : {Unset} \cup List, _prepend : {Unset} \cup List]

ASSUME DataAssumption ==
    /\ IsFiniteSet(Var) /\ Var \subseteq STRING /\ Plain \subseteq Var
    /\ MaxStores \in Nat \ {0} /\ MaxCalls \in Nat
    /\ OverridesSet \subseteq Seq(Override)
    /\ DOMAIN OverrideOf = Var
    /\ \A v \in Var : OverrideOf[v] # NoOverride =>
            BaseOf[v] \in Var /\ (BaseOf[v] \in Plain => v \in Plain)
    /\ \A i \in SetVarInputs \cup DefaultInputs : i[1] \in Var /\ i[2] \in Text(i[1])
    /\ \A i \in KeywordInputs : i[1] \in Var /\ i[2] \in Keyword /\ i[3] \in Item(i[1])
    /\ DelVarInputs \cup GetVarInputs \subseteq Var
    /\ \A i \in RenameInputs : /\ i[1] \in Var /\ i[2] \in Var
                               /\ i[2] \in Plain => i[1] \in Plain

\* A variable's name is made up of its base's and its override's.
ASSUME NameAssumption ==
    \A v, w \in Var : OverrideOf[v] # NoOverride
        /\ OverrideOf[v] = OverrideOf[w] /\ BaseOf[v] = BaseOf[w] => v = w

\* Values that are none of the others.
ASSUME ValueAssumption ==
    /\ None # Unset /\ None \notin Seq(STRING) /\ Unset \notin Seq(STRING)
    /\ Unset \notin List
    /\ \A v \in Var : Absent \notin Dict(v)
    /\ \A vs \in SUBSET Var : Absent # vs

VARIABLES
    data,       \* the stores' dict, _seen_overrides, _special_values and
                \* expand_cache, and the lists
    sources,    \* each store and those it is linked to by "_data", which are
                \* also the bases of its _seen_overrides and _special_values
    made,       \* how many stores there are
    overrides,  \* the expanded value of OVERRIDES, split
    calls,      \* how many calls have changed or copied a store
    late,       \* the copies of which a source has been changed since
    flagged     \* the stores with a flag changed since expand_cache was empty

vars == <<data, sources, made, overrides, calls, late, flagged>>

Empty == [f \in Flag |-> Unset]

NoCache == [v \in Var |-> None]

Init ==
    /\ data = [ dict |-> [d \in Store |-> [v \in Var |-> Absent]],
                seen |-> [d \in Store |-> [o \in Override |-> Absent]],
                special |-> [d \in Store |-> [k \in Keyword |-> Absent]],
                cache |-> [d \in Store |-> NoCache],
                lists |-> [l \in List |-> <<>>] ]
    /\ sources = [d \in Store |-> {d}]
    /\ made = 1
    /\ overrides \in OverridesSet
    /\ calls = 0 /\ late = {} /\ flagged = {}
-----------------------------------------------------------------------------
(* Reading a store; s is a value of data                                   *)

\* A variable that has been deleted has an empty dictionary, which is found but
\* counts for none.
findVar(s, d, v) ==
    IF Holder(s.dict, sources, d, v) = 0 THEN Empty
    ELSE getreadonly(s.dict, sources, d, v)

getVar(s, d, v) ==
    LET local_var == findVar(s, d, v) IN
    CASE local_var["content"] # Unset -> local_var["content"]
      [] local_var["content"] = Unset /\ local_var["defaultval"] # Unset ->
            local_var["defaultval"]
      [] OTHER -> None

\* A variable's pending appends or prepends, copied.
pending(s, d, v, keyword) ==
    LET list == findVar(s, d, v)[keyword] IN IF list = Unset THEN <<>> ELSE s.lists[list]

\* A text in which each reference to a variable that has a value is resolved.
Resolved(s, d, text, values) ==
    LET words == [word \in ToSet(text) |->
                    IF word \in Var /\ getVar(s, d, word) # None THEN values[word] ELSE <<word>>]
    IN FoldLeft(LAMBDA seq, word : seq \o words[word], <<>>, text)

\* getVar(v, True): the value of a reference comes from the cache as well.
expand(s, d, v) ==
    LET cached == [w \in Var |-> IF s.cache[d][w] # None THEN s.cache[d][w]
                                 ELSE getVar(s, d, w)]
    IN IF s.cache[d][v] # None THEN s.cache[d][v]
       ELSE Resolved(s, d, getVar(s, d, v), cached)
-----------------------------------------------------------------------------
(* Changing a store                                                        *)

Uncached(s, d) == [s EXCEPT !.cache[d] = NoCache]

\* A variable gets a dictionary of its own before it is changed; initVar, for a
\* variable without any, clears the cache.
makeShadowCopy(s, d, v) ==
    LET local_var == findVar(s, d, v) IN
    CASE s.dict[d][v] # Absent -> s
      [] s.dict[d][v] = Absent /\ local_var # Empty ->
            [s EXCEPT !.dict[d][v] = local_var]
      [] OTHER -> [Uncached(s, d) EXCEPT !.dict[d][v] = Empty]

setVarFlag(s, d, v, flag, value) ==
    [makeShadowCopy(s, d, v) EXCEPT !.dict[d][v][flag] = value]

delVarFlag(s, d, v, flag) ==
    IF findVar(s, d, v) = Empty THEN s ELSE setVarFlag(s, d, v, flag, Unset)

\* The lists that variables hold, of all stores.
Held(s) ==
    {s.dict[p[1]][p[2]][p[3]] : p \in {q \in Place : s.dict[q[1]][q[2]] # Absent}} \ {Unset}

Collected(s) ==
    LET held == Held(s) IN [s EXCEPT !.lists = [l \in List |-> IF l \in held THEN @[l] ELSE <<>>]]

\* For a mutant: the list that was found is extended, and not a copy of it.
setPending_InPlace(s, d, v, keyword, items) ==
    LET found == findVar(s, d, v)[keyword]
        list == IF found = Unset THEN (CHOOSE l \in List \ Held(s) : TRUE) ELSE found
    IN [setVarFlag(s, d, v, keyword, list) EXCEPT !.lists[list] = items]

\* The flag is set to a list that has just been made.
setPending(s, d, v, keyword, items) ==
    LET list == CHOOSE l \in List \ Held(s) : TRUE
    IN [setVarFlag(s, d, v, keyword, list) EXCEPT !.lists[list] = items]

\* The variables registered under an override or a keyword: what is added to is
\* taken, or made.
Registered(own, d, key) ==
    IF has_key(own, sources, d, key) THEN getreadonly(own, sources, d, key) ELSE {}

register(own, d, key, v) ==
    Changed(own, sources, d, key, Registered(own, d, key) \cup {v})

\* setVar of a name without a keyword.
setVar(s, d, v, value) ==
    LET t == setVarFlag(Uncached(s, d), d, v, "content", value) IN
    IF OverrideOf[v] = NoOverride THEN t
    ELSE [t EXCEPT !.seen = register(@, d, OverrideOf[v], v)]

\* setVar of v_append or v_prepend, perhaps with an override after it.
setVarKeyword(s, d, v, keyword, item) ==
    LET items == Append(pending(s, d, v, keyword), item) IN
    [setPending(Uncached(s, d), d, v, keyword, items) EXCEPT
        !.special = register(@, d, keyword, v)]

\* A variable that is deleted is registered under its override no more.
Unregistered(s, d, v) ==
    LET override == OverrideOf[v] IN
    IF override = NoOverride \/ ~has_key(s.seen, sources, d, override) THEN s
    ELSE [s EXCEPT !.seen =
            Changed(@, sources, d, override, Registered(@, d, override) \ {v})]

\* For a mutant: the expanded values stay.
delVar_Cached(s, d, v) == Unregistered([s EXCEPT !.dict[d][v] = Empty], d, v)

delVar(s, d, v) == Unregistered([Uncached(s, d) EXCEPT !.dict[d][v] = Empty], d, v)

renameVar(s, d, key, newkey) ==
    LET value == getVar(s, d, key)
        move(t, keyword) ==
            IF findVar(t, d, key)[keyword] = Unset THEN t
            ELSE LET items == pending(t, d, newkey, keyword) \o pending(t, d, key, keyword)
                     u == setPending(t, d, newkey, keyword, items)
                     appends == Registered(u.special, d, keyword)
                 IN IF ~has_key(u.special, sources, d, keyword) THEN u
                    ELSE [u EXCEPT !.special = Changed(@, sources, d, keyword,
                            IF key \in appends THEN (appends \ {key}) \cup {newkey}
                                               ELSE appends)]
        set == IF value = None THEN s ELSE setVar(s, d, newkey, value)
    IN delVar(move(move(set, "_append"), "_prepend"), d, key)

\* An override that is active: each variable seen with it becomes the value of
\* the one it overrides.
applyOverride(s, d, override) ==
    IF ~has_key(s.seen, sources, d, override) THEN s
    ELSE LET seen == Registered(s.seen, d, override)
             taken == [s EXCEPT !.seen = Changed(@, sources, d, override, seen)]
         IN FoldSet(LAMBDA v, t : delVar(setVar(t, d, BaseOf[v], getVar(t, d, v)), d, v),
                    taken, seen)

\* For a mutant: an empty list is kept.
keptPending_Always(s, d, keyword, v, keep) == setPending(s, d, v, keyword, keep)

keptPending(s, d, keyword, v, keep) ==
    IF keep # <<>> THEN setPending(s, d, v, keyword, keep)
    ELSE delVarFlag(s, d, v, keyword)

\* A pending text waits when its override is not active.
waits(item) == item.override # NoOverride /\ item.override \notin ToSet(overrides)

Waiting(items) ==
    FoldLeft(LAMBDA kept, item : IF waits(item) THEN Append(kept, item) ELSE kept, <<>>, items)

\* What is pending for a variable under a keyword, but for what waits.
applyPending(s, d, keyword, v) ==
    LET items == pending(s, d, v, keyword)
        add(t, item) ==
            LET value == IF getVar(t, d, v) = None THEN <<>> ELSE getVar(t, d, v)
            IN IF waits(item) THEN t
               ELSE setVar(t, d, v, IF keyword = "_append" THEN Append(value, item.word)
                                    ELSE <<item.word>> \o value)
    IN keptPending(FoldLeft(add, s, items), d, keyword, v, Waiting(items))

applyKeyword(s, d, keyword) ==
    IF ~has_key(s.special, sources, d, keyword) THEN s
    ELSE LET appends == Registered(s.special, d, keyword)
             taken == [s EXCEPT !.special = Changed(@, sources, d, keyword, appends)]
         IN FoldSet(LAMBDA v, t : applyPending(t, d, keyword, v), taken, appends)

\* For a mutant: appends are applied before overrides.
finalize_PendingFirst(s, d) ==
    FoldLeft(LAMBDA t, o : applyOverride(t, d, o),
             applyKeyword(applyKeyword(s, d, "_append"), d, "_prepend"), overrides)

finalize(s, d) ==
    LET overridden == FoldLeft(LAMBDA t, o : applyOverride(t, d, o), s, overrides)
    IN applyKeyword(applyKeyword(overridden, d, "_append"), d, "_prepend")
-----------------------------------------------------------------------------
(* Steps                                                                   *)

\* The copies of a store, and theirs.
Below(d) == {e \in (1..made) \ {d} : d \in sources[e]}

\* Store d becomes what s says.
Becomes(d, s, unseen) ==
    /\ calls < MaxCalls /\ calls' = calls + 1
    /\ data' \in {Collected(s)}
    /\ late' = late \cup Below(d)
    /\ flagged' = {e \in flagged \cup unseen : data'.cache[e] # NoCache}
    /\ UNCHANGED <<sources, made, overrides>>

SetVar(d) ==
    \E i \in SetVarInputs : Becomes(d, setVar(data, d, i[1], i[2]), {})

SetVarKeyword(d) ==
    \E i \in KeywordInputs : Becomes(d, setVarKeyword(data, d, i[1], i[2], i[3]), {})

SetDefault(d) ==
    \E i \in DefaultInputs :
        Becomes(d, setVarFlag(data, d, i[1], "defaultval", i[2]), {d})

DelVar(d) == \E v \in DelVarInputs : Becomes(d, delVar(data, d, v), {})

RenameVar(d) ==
    \E i \in RenameInputs : Becomes(d, renameVar(data, d, i[1], i[2]), {})

Finalize(d) == Becomes(d, finalize(data, d), {})

\* getVar(v, True), whose expanded value is cached, as are those of what it
\* refers to.
GetVar(d) ==
    \E v \in GetVarInputs :
        LET text == getVar(data, d, v)
            read == IF text = None \/ data.cache[d][v] # None THEN {}
                    ELSE {v} \cup {w \in Var : w \in ToSet(text) /\ getVar(data, d, w) # None}
        IN /\ data' = [data EXCEPT !.cache[d] =
                [w \in Var |-> IF w \in read THEN expand(data, d, w) ELSE @[w]]]
           /\ UNCHANGED <<sources, made, overrides, calls, late, flagged>>

CreateCopy(d) ==
    /\ calls < MaxCalls /\ calls' = calls + 1
    /\ made < MaxStores /\ made' = made + 1
    /\ sources' = [sources EXCEPT ![made + 1] = {made + 1} \cup sources[d]]
    /\ late' = IF d \in late THEN late \cup {made + 1} ELSE late
    /\ UNCHANGED <<data, overrides, flagged>>

Step(d) ==
    \/ SetVar(d) \/ SetVarKeyword(d) \/ SetDefault(d) \/ DelVar(d) \/ RenameVar(d)
    \/ Finalize(d) \/ GetVar(d) \/ CreateCopy(d)

Next == \E d \in 1..made : Step(d)

Spec == Init /\ [][Next]_vars
-----------------------------------------------------------------------------
(* Properties                                                              *)

\* The values are of their types; a list of pending texts that a variable holds
\* is not empty, and the others are.
TypeOK ==
    /\ made \in Store /\ late \subseteq 2..made /\ flagged \subseteq 1..made
    /\ \A d \in Store : d \in sources[d] /\ sources[d] \subseteq 1..d
    /\ \A d \in Store, v \in Var :
            data.dict[d][v] # Absent => d <= made /\ data.dict[d][v] \in Dict(v)
    /\ Held(data) = {l \in List : data.lists[l] # <<>>}

\* What finalize goes by agrees with the variables, in every copy whose source
\* has not been changed: all that have a value under an override are registered
\* with it, and no others, as finalize would take None from them; and all with
\* something pending are registered with its keyword.
RegisteredRight ==
    \A d \in (1..made) \ late, v \in Var :
        /\ OverrideOf[v] # NoOverride =>
            (v \in Registered(data.seen, d, OverrideOf[v])
                <=> findVar(data, d, v)["content"] \notin {Unset, None})
        /\ \A k \in Keyword : pending(data, d, v, k) # <<>>
                                => v \in Registered(data.special, d, k)

\* A cached value is what expanding the variable anew would give, unless a flag
\* of the store has been set or its source changed: neither clears the cache.
CacheFresh ==
    \A d \in (1..made) \ (late \cup flagged), v \in Var :
        data.cache[d][v] # None =>
            /\ getVar(data, d, v) # None
            /\ data.cache[d][v] = Resolved(data, d, getVar(data, d, v),
                                           [w \in Var |-> getVar(data, d, w)])

\* All that a store answers.
View(s, d) ==
    << [v \in Var |-> <<getVar(s, d, v), findVar(s, d, v)["defaultval"],
                        [k \in Keyword |-> pending(s, d, v, k)]>>],
       [o \in Override |-> Registered(s.seen, d, o)],
       [k \in Keyword |-> Registered(s.special, d, k)] >>

\* "Value from source are copy-on-write" (data.py, createCopy): nothing done to
\* a store changes what its source answers, or any store that is not a copy of
\* it.
Isolation ==
    [][\A d \in 1..made :
            (\E e \in (1..made) \ ({d} \cup Below(d)) : View(data, e)' # View(data, e))
                => ~Step(d)]_vars

\* The variable that has v's value where an override is active, if there is one.
Overriding(s, d, v, override) ==
    {w \in Var : /\ BaseOf[w] = v /\ OverrideOf[w] = override
                 /\ findVar(s, d, w)["content"] \notin {Unset, None}}

\* What overrides v is taken where its override is listed first.
Overrides(s, d, v, indices) ==
    {i \in indices : /\ Overriding(s, d, v, overrides[i]) # {}
                     /\ \A j \in 1..(i - 1) : overrides[j] # overrides[i]}

\* The words to append or prepend now.
AppliedWords(items) ==
    FoldLeft(LAMBDA seq, item : IF waits(item) THEN seq ELSE Append(seq, item.word), <<>>, items)

\* A variable's value once finalize is done: that of its last active override,
\* or its own, between what was to be prepended, the last first, and appended.
FinalValue(d, v) ==
    LET active == Overrides(data, d, v, DOMAIN overrides)
        value == IF active = {} THEN getVar(data, d, v)
                 ELSE getVar(data, d, CHOOSE w \in Var :
                                        w \in Overriding(data, d, v, overrides[Max(active)]))
        appends == AppliedWords(pending(data, d, v, "_append"))
        prepends == AppliedWords(pending(data, d, v, "_prepend"))
    IN IF appends = <<>> /\ prepends = <<>> THEN value
       ELSE Reverse(prepends) \o (IF value = None THEN <<>> ELSE value) \o appends

\* Variables that no override is in the name of, nor two in that of one that
\* overrides them.
Overridden ==
    {v \in Var : /\ OverrideOf[v] = NoOverride
                 /\ \A w, x \in Var : BaseOf[w] = v /\ BaseOf[x] = w
                        => OverrideOf[w] = NoOverride \/ OverrideOf[x] = NoOverride}

\* Something is pending, and to be applied now, for a variable of which the name
\* is v's and an active override.
PendingOverride(d, v) ==
    \E w \in Var, k \in Keyword :
        /\ BaseOf[w] = v /\ OverrideOf[w] \in ToSet(overrides)
        /\ AppliedWords(pending(data, d, w, k)) # <<>>

\* Whenever finalize is called, it gives each variable without an override its
\* final value, where nothing is pending for what overrides it (see
\* OverrideAppended), and leaves pending what waits for an override.
FinalRight ==
    \A d \in (1..made) \ late : \A final \in {finalize(data, d)} : \A v \in Overridden :
        /\ ~PendingOverride(d, v) => getVar(final, d, v) = FinalValue(d, v)
        /\ \A k \in Keyword : pending(final, d, v, k) = Waiting(pending(data, d, v, k))

\* "X is unconditionally appended to the variable A_foo. Since foo is an override,
\* A_foo would then replace A" (usermanual.xml:276): where OVERRIDES is one
\* override, what is pending to be appended to a variable with it is in the value
\* of the one it overrides, once finalize has been called twice as it is for a
\* recipe (ast.py:319, 324).
OverrideAppended ==
    \A d \in (1..made) \ late : \A final \in {finalize(finalize(data, d), d)} :
        \A v \in Overridden, w \in Var :
            LET appends == ToSet(AppliedWords(pending(data, d, w, "_append"))) IN
            BaseOf[w] = v /\ overrides = <<OverrideOf[w]>> /\ appends # {}
                => getVar(final, d, v) # None /\ appends \subseteq ToSet(getVar(final, d, v))
=============================================================================
