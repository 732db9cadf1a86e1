----------------------------- MODULE SceneGraph -----------------------------
(***************************************************************************)
(* The graph between setscene tasks, sq_revdeps, which the constructor of  *)
(* RunQueueExecuteScenequeue derives from the task graph: a setscene task  *)
(* waits for those that depend on it through tasks without a setscene      *)
(* variant, and for those its metadata names.                              *)
(*                                                                         *)
(* depends maps the tasks, which are numbered from 1, to those they depend *)
(* on, setscene is a set of tasks, and idepends maps a setscene task to    *)
(* those it names.  Python's dictionaries are walked in any order, so the  *)
(* walk has a set of possible results.                                     *)
(***************************************************************************)
EXTENDS Integers, FiniteSets

\* The tasks nothing depends on, and those setscene tasks depend on.
endpoints(depends, setscene) ==
    LET above(t) == {s \in setscene : t \in depends[s]}
        none(t) == \A r \in DOMAIN depends : t \notin depends[r]
    IN [t \in {u \in DOMAIN depends :
                    above(u) # {} \/ (none(u) /\ u \notin setscene)} |-> above(t)]

\* The walk's state: what each task is still depended upon by, the setscene
\* tasks it has been reached from, the points of this pass with the set each was
\* stored with, those left of them, and the points of the next pass.
Walk(depends, setscene) ==
    [revdeps |-> [t \in DOMAIN depends |->
                    {r \in DOMAIN depends : t \in depends[r]}],
     new |-> [t \in DOMAIN depends |-> {}],
     points |-> endpoints(depends, setscene),
     left |-> DOMAIN endpoints(depends, setscene),
     next |-> [t \in {} |-> {}]]

\* process_endpoints takes a point: its dependencies have been reached from what
\* it has been reached from.
Point(depends, setscene, walk, point) ==
    LET tasks == walk.points[point] \cup walk.new[point]
        revdeps == [t \in DOMAIN depends |->
                        IF t \in depends[point] THEN walk.revdeps[t] \ {point}
                                                ELSE walk.revdeps[t]]
        new == [t \in DOMAIN depends |->
                    (IF t = point THEN {} ELSE walk.new[t])
                        \cup IF t \in depends[point] THEN tasks ELSE {}]
        reached == {d \in depends[point] \ setscene :
                        revdeps[d] = {} \/ new[d] # {}}
    IN [walk EXCEPT
            !.revdeps = revdeps, !.new = new, !.left = @ \ {point},
            !.next = [t \in DOMAIN @ \cup reached |->
                        IF t \in reached THEN walk.points[point] ELSE @[t]]]

\* It calls itself with the points of the next pass.
Pass(walk) ==
    [walk EXCEPT !.points = walk.next, !.left = DOMAIN walk.next,
                 !.next = [t \in {} |-> {}]]

\* The points of a pass are taken in any order.
process_endpoints(depends, setscene, walk) ==
    IF walk.left # {} THEN {Point(depends, setscene, walk, p) : p \in walk.left}
    ELSE IF DOMAIN walk.next # {} THEN {Pass(walk)} ELSE {walk}

\* The states of the walk after as many steps as it takes at most: each pass is
\* one step further down, and has each task once at most.
Walks(depends, setscene) ==
    LET n == Cardinality(DOMAIN depends)
        walks[k \in 0..((n + 1) * (n + 1))] ==
            IF k = 0 THEN {Walk(depends, setscene)}
            ELSE UNION {process_endpoints(depends, setscene, w) : w \in walks[k-1]}
    IN walks[(n + 1) * (n + 1)]

\* The tasks' sets at the end; those of setscene tasks are their sq_revdeps.
Squashed(depends, setscene) == {w.new : w \in Walks(depends, setscene)}

\* For a mutant: a setscene task does not wait for what it names.
Named_NoWait(sq, idepends, t) ==
    [u \in DOMAIN sq |-> IF t \in DOMAIN sq /\ u \in idepends[t] THEN {} ELSE sq[u]]

\* A setscene task waits for what it names, and what is named forgets what it
\* waited for.
Named(sq, idepends, t) ==
    IF t \notin DOMAIN sq THEN sq
    ELSE [u \in DOMAIN sq |->
            IF u \in idepends[t] THEN {}
            ELSE IF u = t THEN sq[u] \cup idepends[t] ELSE sq[u]]

\* The tasks in the order of their ids.
Explicit(depends, sq, idepends) ==
    LET n == Cardinality(DOMAIN depends)
        named[k \in 0..n] == IF k = 0 THEN sq ELSE Named(named[k-1], idepends, k)
    IN named[n]

sq_revdeps(depends, setscene, idepends) ==
    {Explicit(depends, [t \in setscene |-> new[t]], idepends) :
        new \in Squashed(depends, setscene)}

\* The graph of a build is one that the constructor derives.
Constructed(b) ==
    /\ b.idepends \in [b.setscene -> SUBSET b.setscene]
    /\ b.sq_revdeps \in sq_revdeps(b.depends, b.setscene, b.idepends)
-----------------------------------------------------------------------------
(* What the walk is to compute.                                            *)

\* The tasks on the paths down from t that end with the first setscene task.
Below(depends, setscene, t) ==
    LET Closed == {X \in SUBSET DOMAIN depends :
                      /\ depends[t] \subseteq X
                      /\ \A u \in X \ setscene : depends[u] \subseteq X}
    IN {u \in DOMAIN depends : \A X \in Closed : u \in X}

\* The setscene tasks from which a path down to t meets no other setscene task.
Above(depends, setscene, t) == {s \in setscene : t \in Below(depends, setscene, s)}

\* No setscene task depends directly on another.
Apart(depends, setscene) ==
    \A s \in setscene : depends[s] \cap setscene = {}

\* For these graphs, whatever the order of the walk, each setscene task gets
\* the tasks it is to wait for and nothing is left elsewhere ("Something went
\* badly wrong during scenequeue generation").
Derived(depends, setscene) ==
    Squashed(depends, setscene) =
        {[t \in DOMAIN depends |->
            IF t \in setscene THEN Above(depends, setscene, t) ELSE {}]}

\* For every graph: the walk has ended, nothing is left elsewhere, and a setscene
\* task waits only for tasks that depend on it, directly or not.
WellFormed(depends, setscene) ==
    \A w \in Walks(depends, setscene) :
        /\ w.left = {} /\ DOMAIN w.next = {}
        /\ \A t \in DOMAIN depends :
            w.new[t] \subseteq
                IF t \in setscene
                THEN {s \in setscene : t \in Below(depends, {}, s)} ELSE {}

\* Every set of setscene tasks has one that waits for none of the set.
NoCycle(sq) ==
    \A X \in SUBSET DOMAIN sq : X # {} => \E t \in X : sq[t] \cap X = {}
=============================================================================
