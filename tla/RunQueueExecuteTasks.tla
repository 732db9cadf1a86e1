------------------------ MODULE RunQueueExecuteTasks ------------------------
(***************************************************************************)
(* RunQueueExecuteTasks (bitbake/lib/bb/runqueue.py): the executor that    *)
(* runs the tasks of a build in the order of their dependencies.  Which    *)
(* buildable task goes first is left open, which covers the three          *)
(* schedulers of the code and those named by BB_SCHEDULERS.                *)
(***************************************************************************)
EXTENDS RunQueueExecute

-----------------------------------------------------------------------------
(* The constructor *)

CoveredPass_Any ==
    covered \cup {t \in T : revdeps(t) \cap covered # {}}

\* The first pass over the tasks, in the order of their ids: a task every
\* dependent of which is covered, when its turn comes, is covered too.  Only
\* one set of tasks satisfies Passed.
CoveredPass ==
    LET Passed == {c \in SUBSET T : c = covered \cup
                     {t \in T : /\ revdeps(t) # {}
                                /\ revdeps(t) \subseteq
                                     covered \cup {u \in c : u < t}}}
    IN {t \in T : \A c \in Passed : t \in c}

\* The loop that follows: the same, for tasks whose dependents are all of
\* their own recipe, until nothing is found.
CoveredClosure ==
    LET found == CoveredPass
        Candidates == {t \in T : /\ revdeps(t) # {}
                                 /\ \A r \in revdeps(t) :
                                       rqdata.fn[r] = rqdata.fn[t]}
        Closed == {c \in SUBSET T :
                     /\ found \subseteq c
                     /\ \A t \in Candidates : revdeps(t) \subseteq c => t \in c}
    IN {t \in T : \A c \in Closed : t \in c}

\* sysroot_checkhashes, the metadata's BB_SETSCENE_VERIFY_FUNCTION, on the set
\* c of covered tasks: a recipe that will be configured again has to populate
\* its sysroot again.
covered_remove(c) ==
    {t \in c :
        /\ rqdata.setsceneverify
        /\ rqdata.taskname[t] = "do_populate_sysroot"
        /\ \E u \in T \ c : /\ rqdata.taskname[u] = "do_configure"
                            /\ rqdata.fn[u] = rqdata.fn[t]}

NewExecuteTasks ==
    LET found   == CoveredClosure
        removed == covered_remove(found)
    IN /\ rqexe' = "tasks"
       /\ stats' = NewStats
       /\ runq_running' = {}
       /\ runq_complete' = {}
       /\ runq_buildable' = {t \in T : rqdata.depends[t] = {}}
       /\ failed_fnids' = {}
       /\ build_pids' = {}
       /\ covered' = found \ removed
       /\ sstamps' = [t \in T |-> IF t \in removed THEN 0 ELSE sstamps[t]]
       /\ UNCHANGED <<rqdata, notcovered, proc, stamps, now, ran>>

-----------------------------------------------------------------------------
(* How a task ends.  Each operator gives the marks, the statistics and     *)
(* failed_fnids their next values.                                         *)

NewlyBuildable_AnyDep(t) == revdeps(t) \ runq_running
NewlyBuildable_Late(t) ==
    {r \in revdeps(t) : /\ r \notin runq_running
                        /\ rqdata.depends[r] \subseteq runq_complete}

\* The tasks that become buildable when t is complete.
NewlyBuildable(t) ==
    {r \in revdeps(t) : /\ r \notin runq_running
                        /\ rqdata.depends[r] \subseteq runq_complete \cup {t}}

tasks_completeoutright(t) ==
    /\ runq_complete' = runq_complete \cup {t}
    /\ runq_buildable' = runq_buildable \cup NewlyBuildable(t)

tasks_complete(t) ==
    /\ stats' = taskCompleted(stats)
    /\ tasks_completeoutright(t)
    /\ UNCHANGED <<runq_running, failed_fnids>>

tasks_fail_ByName(t) ==
    /\ stats' = taskFailed(stats)
    /\ failed_fnids' = failed_fnids \cup {rqdata.taskname[t]}
    /\ UNCHANGED marks

tasks_fail(t) ==
    /\ stats' = taskFailed(stats)
    /\ failed_fnids' = failed_fnids \cup {rqdata.fn[t]}
    /\ UNCHANGED marks

tasks_skip(t) ==
    /\ runq_running' = runq_running \cup {t}
    /\ runq_complete' = runq_complete \cup {t}
    /\ runq_buildable' = runq_buildable \cup NewlyBuildable(t) \cup {t}
    /\ stats' = taskSkipped(stats)
    /\ UNCHANGED failed_fnids

-----------------------------------------------------------------------------
(* The first half of execute(): what it does with the scheduler's choice. *)

build_stamps_Setscene == {}

\* build_stamps.values(): the stamp files of the workers not yet collected.
build_stamps == {rqdata.stamp[t] : t \in build_pids}

Schedulable_OffByOne(t) ==
    /\ stats.active <= NumberTasks
    /\ t \in runq_buildable \ runq_running
    /\ rqdata.stamp[t] \notin build_stamps

\* A task next_buildable_task may return, and next() when it returns none.
Schedulable(t) ==
    /\ stats.active < NumberTasks
    /\ t \in runq_buildable \ runq_running
    /\ rqdata.stamp[t] \notin build_stamps

NothingSchedulable == \A t \in T : ~Schedulable(t)

\* The task is covered by a setscene task, or its stamp is current.
SkipTask(t) ==
    /\ Schedulable(t)
    /\ t \in covered \/ check_stamp_task(t)
    /\ tasks_skip(t)
    /\ UNCHANGED <<rqdata, state, rqexe, build_pids, scene, proc, clock, ran>>

Executed(t) ==
    /\ Schedulable(t)
    /\ t \notin covered /\ ~check_stamp_task(t)

\* A noexec task is stamped and completed on the spot.
NoexecTask(t) ==
    /\ Executed(t)
    /\ t \in rqdata.noexec
    /\ runq_running' = runq_running \cup {t}
    /\ make_stamp(t)
    /\ stats' = taskCompleted(taskActive(stats))
    /\ tasks_completeoutright(t)
    /\ ran' = ran \cup {t}
    /\ UNCHANGED <<rqdata, state, rqexe, failed_fnids, build_pids, scene, proc>>

ForkTask(t) ==
    /\ Executed(t)
    /\ t \notin rqdata.noexec
    /\ fork_off_task(t)
    /\ runq_running' = runq_running \cup {t}
    /\ stats' = taskActive(stats)
    /\ ran' = ran \cup {t}
    /\ UNCHANGED <<rqdata, state, rqexe, runq_buildable, runq_complete,
                   failed_fnids, scene, clock>>

=============================================================================
