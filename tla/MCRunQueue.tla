---------------------------- MODULE MCRunQueue ----------------------------
(***************************************************************************)
(* Builds for model checking RunQueue.                                     *)
(***************************************************************************)
EXTENDS RunQueueInv, TaskGraph

\* A build without setscene tasks and without special tasks.
Plain(depends, fn, stamp, abort) ==
    LET Ts == DOMAIN depends IN
    [ total |-> Cardinality(Ts), depends |-> depends, fn |-> fn,
      stamp |-> stamp, taskname |-> [t \in Ts |-> "do_task"],
      nostamp |-> {}, noexec |-> {}, forced |-> {}, fulldeptree |-> {},
      setscene |-> {}, idepends |-> <<>>, sq_revdeps |-> <<>>,
      abort |-> abort, after |-> depends,
      hashvalidate |-> FALSE, setsceneverify |-> FALSE,
      dump_signatures |-> FALSE ]

\* Every graph of three tasks in which a task depends on ones of lower ids:
\* every acyclic graph, up to the names of the tasks.
Graphs3 == {g \in [1..3 -> SUBSET (1..2)] :
              \A t \in 1..3 : g[t] \subseteq 1..(t - 1)}

Graphs4 == {g \in [1..4 -> SUBSET (1..3)] :
              \A t \in 1..4 : g[t] \subseteq 1..(t - 1)}

Chain3 == <<{}, {1}, {2}>>
Wedge3 == <<{}, {}, {1, 2}>>
Fan3   == <<{}, {1}, {1}>>

Own3 == <<1, 2, 3>>

\* Two recipes that share a work directory: the first task of each, 1 and 3,
\* has the same stamp.
Shared(abort) == Plain(<<{}, {1}, {}, {3}>>, <<"a", "a", "b", "b">>,
                       <<1, 2, 1, 4>>, abort)

\* Metadata whose tasks only name each other.
Metadata(fnid, name, idepends) ==
    LET Ts == DOMAIN fnid
        none == [t \in Ts |-> {}]
        nobody == [f \in {fnid[t] : t \in Ts} |-> {}]
    IN [ fnid |-> fnid, name |-> name, tdepends |-> none, idepends |-> idepends,
         deptask |-> none, rdeptask |-> none, recrdeptask |-> none,
         depids |-> nobody, rdepids |-> nobody, failed |-> {}, targets |-> Ts,
         variant |-> <<>> ]

\* An image of recipe b, which needs c's sysroot; b's package needs c's when it
\* is installed.  What is asked for is the root file system.
Image ==
    [Metadata(<<"c", "b", "b", "image", "c", "c">>,
              <<"do_populate_sysroot", "do_compile", "do_package", "do_rootfs",
                "do_package", "do_build">>,
              <<{}, {}, {2}, {}, {1}, {5}>>) EXCEPT
        !.deptask = [t \in 1..6 |-> IF t = 2 THEN {"do_populate_sysroot"} ELSE {}],
        !.recrdeptask = [t \in 1..6 |-> IF t = 4 THEN {"do_package"} ELSE {}],
        !.depids = [image |-> {"b"}, b |-> {"c"}, c |-> {}],
        !.targets = {4}]

\* The build that the metadata make; after holds what the metadata ask for.
Prepared(td, made) ==
    [Plain(made.depends, made.fn, made.ids, TRUE) EXCEPT
        !.taskname = made.taskname, !.after = Asked(td, made)]

\* A build whose targets need nothing.
Nothing == Plain(<<>>, <<>>, <<>>, TRUE)

TaskBuildSet ==
    {Plain(g, f, Own3, a) :
        g \in Graphs3, f \in {<<"a", "a", "a">>, <<"a", "b", "a">>},
        a \in BOOLEAN}
    \cup {[Plain(g, <<"a", "a", "b">>, Own3, FALSE) EXCEPT
             !.noexec = {2}, !.nostamp = n, !.forced = {1, 2} \ n,
             !.fulldeptree = {1, 2, 3}] :
            g \in {Chain3, Fan3, Wedge3}, n \in {{}, {1}}}
    \cup {Shared(FALSE), Nothing,
          [Plain(Chain3, <<"a", "b", "c">>, Own3, TRUE) EXCEPT !.dump_signatures = TRUE]}
    \cup {Prepared(Image, made) : made \in prepare(Image)}

\* A build with setscene tasks, the domain of idepends, each mapped to those it
\* names; names are the tasks' names.  The order in
\* which the walk meets the tasks makes no difference to these graphs.
Cached(depends, fn, names, idepends, hash) ==
    LET Ts == DOMAIN depends IN
    [ total |-> Cardinality(Ts), depends |-> depends, fn |-> fn,
      stamp |-> [t \in Ts |-> t], taskname |-> names,
      nostamp |-> {}, noexec |-> {}, forced |-> {}, fulldeptree |-> {},
      setscene |-> DOMAIN idepends, idepends |-> idepends,
      sq_revdeps |-> CHOOSE sq \in sq_revdeps(depends, DOMAIN idepends, idepends) :
                         TRUE,
      abort |-> TRUE, after |-> depends, hashvalidate |-> hash, setsceneverify |-> TRUE,
      dump_signatures |-> FALSE ]

NoNames(setscene) == [t \in setscene |-> {}]

\* Recipe b's do_package needs recipe a's sysroot.
TwoRecipes(hash) ==
    Cached(<<{}, {1}, {2}, {3}>>, <<"a", "a", "b", "b">>,
           <<"do_configure", "do_populate_sysroot", "do_compile", "do_package">>,
           NoNames({2, 4}), hash)

\* The same, where installing b's package needs a's sysroot as well.
TwoRecipesNamed ==
    Cached(<<{}, {1}, {2}, {3}>>, <<"a", "a", "b", "b">>,
           <<"do_configure", "do_populate_sysroot", "do_compile", "do_package">>,
           [t \in {2, 4} |-> IF t = 4 THEN {2} ELSE {}], FALSE)

\* Two cached outputs of one task, of which another recipe needs one.
TwoOutputs(hash) ==
    Cached(<<{}, {1}, {1}, {3}>>, <<"a", "a", "a", "b">>,
           <<"do_configure", "do_package", "do_populate_sysroot", "do_compile">>,
           NoNames({2, 3}), hash)

\* A recipe with a second task after do_configure, which nothing caches.
TwoBranches ==
    Cached(<<{}, {1}, {2}, {1}>>, <<"a", "a", "a", "a">>,
           <<"do_configure", "do_install", "do_populate_sysroot", "do_savedefconfig">>,
           NoNames({3}), FALSE)

\* A cached output that two others need, by two ways that meet again in 2;
\* the tasks on the ways leave no stamp.
Meeting ==
    [Cached(<<{}, {1}, {2}, {2}, {3}, {4}>>,
            <<"a", "b", "b", "b", "b", "b">>,
            <<"do_populate_sysroot", "do_compile", "do_check", "do_lint",
              "do_package", "do_package_doc">>,
            NoNames({1, 5, 6}), FALSE) EXCEPT !.nostamp = {3, 4}]

\* A package that is written out by a task of its own, which can come from a cache
\* as well, and depends on it directly.
Written ==
    Cached(<<{}, {1}, {2}, {3}>>, <<"a", "b", "b", "b">>,
           <<"do_populate_sysroot", "do_compile", "do_package", "do_package_write">>,
           NoNames({1, 3, 4}), FALSE)

\* An image of recipe b, which is configured when c's sysroot is there; the
\* sysroot and b's package can come from a cache.
Outputs ==
    [Metadata(<<"c", "c", "c", "b", "b", "b", "image">>,
              <<"do_unpack", "do_populate_sysroot", "do_populate_sysroot_setscene",
                "do_configure", "do_package", "do_package_setscene", "do_rootfs">>,
              <<{}, {1}, {}, {}, {4}, {}, {}>>) EXCEPT
        !.deptask = [t \in 1..7 |-> IF t = 4 THEN {"do_populate_sysroot"} ELSE {}],
        !.recrdeptask = [t \in 1..7 |-> IF t = 7 THEN {"do_package"} ELSE {}],
        !.depids = [image |-> {"b"}, b |-> {"c"}, c |-> {}],
        !.targets = {7},
        !.variant = [t \in {2, 5} |-> t + 1]]

\* Its build, with the graph of setscene tasks derived from it.
PreparedCached(made, hash) ==
    Cached(made.depends, made.fn, made.taskname, NoNames(made.setscene), hash)

SceneBuildSet ==
    {TwoRecipes(h) : h \in BOOLEAN} \cup {TwoOutputs(h) : h \in BOOLEAN}
    \cup {TwoRecipesNamed, TwoBranches, Meeting, Written}
    \cup {PreparedCached(made, FALSE) : made \in prepare(Outputs)}
    \cup {[TwoRecipes(TRUE) EXCEPT !.noexec = {4}, !.forced = {2}]}

StopBuildSet ==
    {Plain(g, <<"a", "b", "c">>, Own3, a) :
        g \in {Chain3, Wedge3, Fan3, <<{}, {}, {}>>}, a \in BOOLEAN}
    \cup {Shared(FALSE), TwoRecipes(FALSE)}

LiveBuildSet ==
    {Plain(g, <<"a", "b", "c">>, Own3, a) :
        g \in {Chain3, Wedge3}, a \in BOOLEAN}
    \cup {Shared(FALSE), TwoRecipes(FALSE)}

FullBuildSet == TaskBuildSet \cup SceneBuildSet

\* What a configuration puts for Builds.  TLC evaluates the body of these again
\* wherever Builds occurs, but the sets they name only once.
FullBuilds == FullBuildSet
StopBuilds == StopBuildSet
LiveBuilds == LiveBuildSet
-----------------------------------------------------------------------------
(* The graph of tasks                                                      *)

\* What the theorems about prepare assume of metadata.
ASSUME MetadataChecked == TaskData(Image) /\ TaskData(Outputs)

\* Graphs in which a task depends on one other at most, cycles among them.
Lines == {g \in [1..4 -> {{}} \cup {{d} : d \in 1..4}] :
            \A t \in 1..4 : t \notin g[t]}

\* One pass finds what each recipe needs, directly or not.
ASSUME ClosureChecked ==
    \A g \in Lines, fnid \in {<<"a", "a", "b", "c">>, <<"a", "b", "a", "c">>,
                               <<"a", "b", "c", "a">>, <<"b", "a", "c", "a">>} :
        LET td == Metadata(fnid, <<"do_w", "do_x", "do_y", "do_z">>, g)
        IN \A f \in {"a", "b", "c"} : reccumdepends(td)[f] = Needed(td, f)

\* Weights, and the places that the schedulers give tasks by them.
ASSUME OrderChecked ==
    /\ \A g \in [1..3 -> SUBSET (1..3)] :
            (\A t \in 1..3 : t \notin g[t]) => WeightsRight(g)
    /\ \A g \in Graphs4, fn \in [1..4 -> {"a", "b"}] :
            \A w \in calculate_task_weights(g) : PlacesRight(w, fn)
-----------------------------------------------------------------------------
(* The graph between the setscene tasks                                    *)

\* What the theorems about setscene tasks assume of builds.
ASSUME GraphsChecked == \A b \in FullBuildSet : Constructed(b)

\* What the theorem about current stamps assumes of tasks that share one.
ASSUME SharingChecked == \A b \in FullBuildSet : SharedAlike(b)

\* Two setscene tasks, 5 and 6, over every graph of ways down to a third.
Ways == {<<{}, {1}, c, d, e, f>> :
            c \in SUBSET (1..2), d \in SUBSET (1..3),
            e \in SUBSET (2..4), f \in SUBSET (2..4)}

\* The walk over every such graph, and over every graph of four tasks with every
\* choice of setscene tasks.
ASSUME WalkChecked ==
    /\ \A g \in Ways : Derived(g, {1, 5, 6})
    /\ \A g \in Graphs4, setscene \in SUBSET (1..4) :
            /\ Apart(g, setscene) => Derived(g, setscene)
            /\ WellFormed(g, setscene)

\* Whatever the metadata name, also in a circle, the graph has no cycle.
ASSUME NamesChecked ==
    \A g \in Graphs3, setscene \in SUBSET (1..3) :
        \A idepends \in [setscene -> SUBSET setscene] :
            \A sq \in sq_revdeps(g, setscene, idepends) : NoCycle(sq)
=============================================================================
