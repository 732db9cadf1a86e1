--------------------- MODULE RunQueueExecuteScenequeue ---------------------
(***************************************************************************)
(* RunQueueExecuteScenequeue (bitbake/lib/bb/runqueue.py): the executor    *)
(* that runs, before the tasks themselves, the setscene variants that may  *)
(* install a task's output from the shared state cache.  The graph between *)
(* the setscene tasks, sq_revdeps, is part of the build (SceneGraph models *)
(* how the constructor derives it); a setscene task is named by the id of  *)
(* the task it stands for.                                                 *)
(***************************************************************************)
EXTENDS RunQueueExecute

S == rqdata.setscene

\* The setscene tasks an outcome is known for: scenequeue_updatecounters has
\* removed them from sq_revdeps2.
Processed == covered \cup notcovered

\* sq_revdeps2[t] once the tasks of P are processed as well.
sq_revdeps2(t, P) == rqdata.sq_revdeps[t] \ (Processed \cup P)

Unblocked(P) == {t \in S : sq_revdeps2(t, P) = {}}

-----------------------------------------------------------------------------
(* The constructor.  With a BB_HASHCHECK_FUNCTION, a task without          *)
(* instructions is stamped and skipped, one whose setscene stamp exists is *)
(* skipped, and of the others those the function does not find in the      *)
(* cache (any of them) fail outright.                                      *)

NoSetscene ==
    /\ S = {}
    /\ covered' = {} /\ notcovered' = {}
    /\ runq_buildable' = {} /\ runq_running' = {} /\ runq_complete' = {}
    /\ failed_fnids' = {}
    /\ build_pids' = {}
    /\ state' = "RunInit"
    /\ UNCHANGED <<stats, clock>>

Initialised_AllBuildable(skipped, failed) ==
    /\ covered' = skipped
    /\ notcovered' = failed
    /\ runq_running' = skipped \cup failed
    /\ runq_complete' = {}
    /\ runq_buildable' = S
    /\ stats' = [NewStats EXCEPT !.completed = Cardinality(skipped \cup failed),
                                 !.skipped = Cardinality(skipped \cup failed)]
    /\ failed_fnids' = {}
    /\ build_pids' = {}
    /\ state' = "SceneRun"

Initialised(skipped, failed) ==
    /\ covered' = skipped
    /\ notcovered' = failed
    /\ runq_running' = skipped \cup failed
    /\ runq_complete' = {}
    /\ runq_buildable' = {t \in S : rqdata.sq_revdeps[t]
                                      \subseteq skipped \cup failed}
                         \cup skipped \cup failed
    /\ stats' = [NewStats EXCEPT !.completed = Cardinality(skipped \cup failed),
                                 !.skipped = Cardinality(skipped \cup failed)]
    /\ failed_fnids' = {}
    /\ build_pids' = {}
    /\ state' = "SceneRun"

WithoutHashcheck ==
    /\ S # {} /\ ~rqdata.hashvalidate
    /\ Initialised({}, {})
    /\ UNCHANGED clock

WithHashcheck ==
    /\ S # {} /\ rqdata.hashvalidate
    /\ LET noexec  == S \cap rqdata.noexec
           present == {t \in S \ noexec : sstamps[t] # 0}
       IN /\ \E valid \in SUBSET (S \ (noexec \cup present)) :
                Initialised(noexec \cup present,
                            S \ (noexec \cup present \cup valid))
          /\ now' \in {now, now + 1}
          /\ sstamps' = [t \in T |-> IF t \in noexec THEN now' ELSE sstamps[t]]
          /\ UNCHANGED stamps

NewExecuteScenequeue ==
    /\ NoSetscene \/ WithoutHashcheck \/ WithHashcheck
    /\ rqexe' = "scene"
    /\ UNCHANGED <<rqdata, proc, ran>>

-----------------------------------------------------------------------------
(* How a setscene task ends *)

scene_updatecounters(t) ==
    runq_buildable' = runq_buildable \cup Unblocked({t})

scene_complete(t) ==
    /\ stats' = taskCompleted(stats)
    /\ covered' = covered \cup {t}
    /\ scene_updatecounters(t)
    /\ UNCHANGED <<runq_running, runq_complete, notcovered, failed_fnids>>

scene_fail_NoCounters(t) ==
    /\ stats' = taskFailed(stats)
    /\ notcovered' = notcovered \cup {t}
    /\ UNCHANGED <<marks, covered, failed_fnids>>

scene_fail(t) ==
    /\ stats' = taskFailed(stats)
    /\ notcovered' = notcovered \cup {t}
    /\ scene_updatecounters(t)
    /\ UNCHANGED <<runq_running, runq_complete, covered, failed_fnids>>

\* task_skip and task_failoutright mark the task as running themselves.
scene_outright ==
    /\ stats' = taskSkipped(stats)
    /\ UNCHANGED <<runq_complete, failed_fnids>>

-----------------------------------------------------------------------------
(* The first half of execute() *)

SceneSchedulable(t) ==
    /\ stats.active < NumberTasks
    /\ t \in runq_buildable \ runq_running

NoSceneSchedulable == \A t \in S : ~SceneSchedulable(t)

\* The underlying task is current with all it depends on, or the user forces
\* it: its setscene variant is not wanted.
Unwanted(t) == check_stamp_recurse(t) \/ t \in rqdata.forced

SceneFailOutright(t) ==
    /\ SceneSchedulable(t)
    /\ Unwanted(t)
    /\ notcovered' = notcovered \cup {t}
    /\ runq_running' = runq_running \cup {t}
    /\ scene_updatecounters(t)
    /\ scene_outright
    /\ UNCHANGED <<rqdata, state, rqexe, build_pids, covered, proc, clock, ran>>

SceneSkip(t) ==
    /\ SceneSchedulable(t)
    /\ ~Unwanted(t)
    /\ sstamps[t] # 0
    /\ covered' = covered \cup {t}
    /\ runq_running' = runq_running \cup {t}
    /\ scene_updatecounters(t)
    /\ scene_outright
    /\ UNCHANGED <<rqdata, state, rqexe, build_pids, notcovered, proc, clock, ran>>

SceneFork(t) ==
    /\ SceneSchedulable(t)
    /\ ~Unwanted(t)
    /\ sstamps[t] = 0
    /\ fork_off_task(t)
    /\ runq_running' = runq_running \cup {t}
    /\ stats' = taskActive(stats)
    /\ UNCHANGED <<rqdata, state, rqexe, runq_buildable, runq_complete,
                   failed_fnids, scene, clock, ran>>

\* All of them processed: rq.scenequeue_covered is what the tasks may skip.
SceneFinished ==
    /\ state' = "RunInit"
    /\ UNCHANGED <<rqdata, rqexe, marks, stats, failed_fnids, build_pids,
                   scene, proc, clock, ran>>

=============================================================================
