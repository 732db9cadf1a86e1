------------------------------ MODULE TaskGraph ------------------------------
(***************************************************************************)
(* RunQueueData.prepare (bitbake/lib/bb/runqueue.py): how the metadata of  *)
(* the recipes becomes the graph of tasks that a build runs, with weights, *)
(* and the order in which the schedulers prefer them.                      *)
(*                                                                         *)
(* td is taskData and what prepare looks up for it: tasks are numbered     *)
(* from 1, fnid and name are a task's recipe and name, tdepends the tasks  *)
(* of the recipe it comes after, idepends the tasks it names, deptask,     *)
(* rdeptask and recrdeptask its flags, depids and rdepids the recipes that *)
(* provide a recipe's DEPENDS and RDEPENDS, failed the failed_fnids,       *)
(* targets the tasks asked for, and variant maps some tasks to their       *)
(* setscene variants.                                                      *)
(***************************************************************************)
EXTENDS Integers, FiniteSets, Sequences, FiniteSetsExt

Tasks(td) == DOMAIN td.fnid

\* prepare meets no task that it does not know: it ends where a name stands for
\* none.
TaskData(td) ==
    /\ IsFiniteSet(Tasks(td)) /\ Tasks(td) = 1..Cardinality(Tasks(td))
    /\ \A t \in Tasks(td) : td.tdepends[t] \cup td.idepends[t] \subseteq Tasks(td)
    /\ td.targets \subseteq Tasks(td)

\* add_build_dependencies and add_runtime_dependencies, for the recipes that
\* provide what they are given.
add_dependencies(td, recipes, names) ==
    {t \in Tasks(td) : td.fnid[t] \in recipes /\ td.name[t] \in names}

\* Step A: dependencies task by task, none of itself and none of a failed
\* recipe's task.
Direct(td, t) ==
    LET f == td.fnid[t] IN
    IF f \in td.failed THEN {}
    ELSE (td.tdepends[t] \cup td.idepends[t]
            \cup add_dependencies(td, td.depids[f], td.deptask[t])
            \cup add_dependencies(td, td.rdepids[f], td.rdeptask[t])
            \cup add_dependencies(td, td.depids[f] \cup td.rdepids[f],
                                  td.recrdeptask[t])) \ {t}

\* One pass over the tasks: a recipe that depends on a task depends on all that
\* the task's recipe depends on.
reccumdepends(td) ==
    LET Recipes == {td.fnid[t] : t \in Tasks(td)}
        first == [f \in Recipes |->
                    UNION {Direct(td, t) : t \in {u \in Tasks(td) : td.fnid[u] = f}}]
        pass[k \in 0..Cardinality(Tasks(td))] ==
            IF k = 0 THEN first
            ELSE LET last == pass[k-1]
                 IN [f \in Recipes |-> IF k \in last[f]
                                       THEN last[f] \cup last[td.fnid[k]]
                                       ELSE last[f]]
    IN pass[Cardinality(Tasks(td))]

\* For a mutant: only what the recipe's own tasks depend on is looked at.
Recursive_OneLevel(td, cum, t) ==
    {d \in UNION {Direct(td, u) : u \in {v \in Tasks(td) : td.fnid[v] = td.fnid[t]}} :
        d # t /\ td.name[d] \in td.recrdeptask[t]}

Recursive(td, cum, t) ==
    IF td.fnid[t] \in td.failed THEN {}
    ELSE {d \in cum[td.fnid[t]] : d # t /\ td.name[d] \in td.recrdeptask[t]}

runq_depends(td) ==
    LET cum == reccumdepends(td)
    IN [t \in Tasks(td) |-> Direct(td, t) \cup Recursive(td, cum, t)]

\* Step B: what the targets need, directly or not.
mark_active(td, depends) ==
    LET grow[k \in 0..Cardinality(Tasks(td))] ==
            IF k = 0 THEN {t \in td.targets : td.fnid[t] \notin td.failed}
            ELSE LET last == grow[k-1] IN last \cup UNION {depends[t] : t \in last}
    IN grow[Cardinality(Tasks(td))]

\* Steps C and D: the tasks left are numbered anew, in their order.
maps(active, t) == Cardinality({u \in active : u <= t})

\* One round of calculate_task_weights: each point passes its weight on to those
\* it depends on, which become points when all that depend on them have.
Round(depends, last) ==
    LET Ts == DOMAIN depends
        passed(t) == {r \in last.points : t \in depends[r]}
        deps_left == [t \in Ts |-> last.deps_left[t] - Cardinality(passed(t))]
        points == {t \in Ts : passed(t) # {} /\ deps_left[t] = 0}
    IN [weight |-> [t \in Ts |-> last.weight[t]
                        + MapThenSumSet(LAMBDA p : last.weight[p], passed(t))],
        deps_left |-> deps_left,
        points |-> points, done |-> last.done \cup points]

\* No result means that the build is refused: some task is in a cycle, or below
\* one.
calculate_task_weights(depends) ==
    LET Ts == DOMAIN depends
        revdeps(t) == {r \in Ts : t \in depends[r]}
        endpoints == {t \in Ts : revdeps(t) = {}}
        round[k \in 0..Cardinality(Ts)] ==
            IF k = 0
            THEN [weight |-> [t \in Ts |-> IF t \in endpoints THEN 1 ELSE 0],
                  deps_left |-> [t \in Ts |-> Cardinality(revdeps(t))],
                  points |-> endpoints, done |-> endpoints]
            ELSE Round(depends, round[k-1])
        end == round[Cardinality(Ts)]
    IN IF end.done = Ts /\ \A t \in Ts : end.deps_left[t] = 0
       THEN {end.weight} ELSE {}

\* The build of the tasks left.  ids are these, by the numbers they had.  A
\* variant that is the very first task is overlooked: its number is 0, which "if
\* not setscene" takes for none.
built(td, depends, active) ==
    LET ids == [i \in 1..Cardinality(active) |->
                    CHOOSE t \in active : maps(active, t) = i]
        left == [i \in DOMAIN ids |-> {maps(active, d) : d \in depends[ids[i]]}]
    IN {[ids |-> ids, depends |-> left, weight |-> weight,
         fn |-> [i \in DOMAIN ids |-> td.fnid[ids[i]]],
         taskname |-> [i \in DOMAIN ids |-> td.name[ids[i]]],
         setscene |-> {i \in DOMAIN ids : /\ ids[i] \in DOMAIN td.variant
                                          /\ td.variant[ids[i]] # 1}] :
            weight \in IF active = {} THEN {} ELSE calculate_task_weights(left)}

\* The build that the metadata make, if it is not refused.
prepare(td) ==
    UNION {built(td, depends, mark_active(td, depends)) :
              depends \in {runq_depends(td)}}
-----------------------------------------------------------------------------
(* The orders of preference, prio_map                                      *)

\* RunQueueSchedulerSpeed: the heaviest first, the last of equals first.
speed(weight) ==
    LET before(t) == {s \in DOMAIN weight : \/ weight[s] > weight[t]
                                            \/ weight[s] = weight[t] /\ s > t}
    IN [i \in DOMAIN weight |->
            CHOOSE t \in DOMAIN weight : Cardinality(before(t)) = i - 1]

\* RunQueueSchedulerCompletion: whenever a recipe's first task has been placed,
\* all its others follow.
completion(weight, fn) ==
    LET grouped[base \in Seq(DOMAIN fn)] ==
            IF base = <<>> THEN <<>>
            ELSE LET same(t) == fn[t] = fn[base[1]]
                     other(t) == fn[t] # fn[base[1]]
                 IN SelectSeq(base, same) \o grouped[SelectSeq(base, other)]
    IN grouped[speed(weight)]
-----------------------------------------------------------------------------
(* What these must compute                                                 *)

\* The recipes that a recipe depends on, directly or not, and itself.
Reached(td, f) ==
    LET Recipes == {td.fnid[t] : t \in Tasks(td)}
        closed(R) == \A t \in Tasks(td) : td.fnid[t] \in R =>
                        \A d \in Direct(td, t) : td.fnid[d] \in R
    IN {g \in Recipes : \A R \in SUBSET Recipes : f \in R /\ closed(R) => g \in R}

\* What the tasks of these recipes depend on.
Needed(td, f) ==
    UNION {Direct(td, u) : u \in {v \in Tasks(td) : td.fnid[v] \in Reached(td, f)}}

\* All that a task must come after: also what it names by recrdeptask among all
\* that its recipe needs.
After(td, t) ==
    Direct(td, t) \cup
    IF td.fnid[t] \in td.failed THEN {}
    ELSE {d \in Needed(td, td.fnid[t]) : d # t /\ td.name[d] \in td.recrdeptask[t]}

\* The same of a build, by the numbers that its tasks have there; a task that has
\* been pruned is 0.
Asked(td, made) ==
    LET left == {made.ids[i] : i \in DOMAIN made.ids}
        place(t) == IF t \in left THEN maps(left, t) ELSE 0
    IN [i \in DOMAIN made.ids |-> {place(d) : d \in After(td, made.ids[i])}]

\* A task weighs as much as all that depend on it; a graph is refused when it
\* has a cycle.
WeightsRight(depends) ==
    LET Ts == DOMAIN depends
        above(t) == {r \in Ts : t \in depends[r]}
        cyclic == \E X \in SUBSET Ts : X # {} /\ \A t \in X : depends[t] \cap X # {}
    IN /\ (calculate_task_weights(depends) = {}) <=> cyclic
       /\ \A w \in calculate_task_weights(depends), t \in Ts :
            w[t] = IF above(t) = {} THEN 1
                   ELSE MapThenSumSet(LAMBDA r : w[r], above(t))

\* Each task has one place; a recipe's tasks stand together, each recipe where
\* its heaviest task would stand among the heaviest of the others.
PlacesRight(weight, fn) ==
    LET prio_map == completion(weight, fn)
        heaviest(f) == Max({weight[t] : t \in {u \in DOMAIN fn : fn[u] = f}})
    IN /\ Len(prio_map) = Len(fn) /\ Range(prio_map) = DOMAIN fn
       /\ \A i, j \in DOMAIN fn : i < j =>
            LET s == prio_map[i]
                t == prio_map[j]
            IN IF fn[s] = fn[t] THEN weight[s] >= weight[t]
               ELSE /\ heaviest(fn[s]) >= heaviest(fn[t])
                    /\ \A k \in (j + 1)..Len(fn) : fn[prio_map[k]] # fn[s]
=============================================================================
