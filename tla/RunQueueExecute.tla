-------------------------- MODULE RunQueueExecute --------------------------
(***************************************************************************)
(* The state shared by BitBake's two task executors, and what they inherit *)
(* from class RunQueueExecute (bitbake/lib/bb/runqueue.py): the queue's    *)
(* marks, its statistics, the stamp files, and the worker processes forked *)
(* off for tasks.  RunQueueExecuteTasks and RunQueueExecuteScenequeue      *)
(* extend it; RunQueue composes them.                                      *)
(***************************************************************************)
EXTENDS Integers, FiniteSets

CONSTANTS
    Builds,       \* the builds considered: records, the fields of BuildType
    NumberTasks,  \* BB_NUMBER_THREADS
    OldTime,      \* stamps of earlier builds have an mtime in 1..OldTime
    Now           \* the second this build begins in

VARIABLES
    rqdata,          \* the RunQueueData and configuration; never changes
    state,           \* RunQueue.state
    rqexe,           \* RunQueue.rqexe: which executor exists
    runq_buildable, runq_running, runq_complete,   \* sets of task ids
    stats,           \* RunQueueStats
    failed_fnids,    \* recipes one of whose tasks failed
    build_pids,      \* tasks whose worker has not been collected
    covered,         \* scenequeue_covered
    notcovered,      \* scenequeue_notcovered
    proc,            \* what the operating system knows of a task's worker
    stamps,          \* mtime of each task stamp file, 0 when there is none
    sstamps,         \* mtime of each task's _setscene stamp file
    now,             \* the wall clock in whole seconds: st_mtime's resolution
    ran              \* history: tasks executed, rather than skipped, so far

marks  == <<runq_buildable, runq_running, runq_complete>>
scene  == <<covered, notcovered>>
clock  == <<stamps, sstamps, now>>

-----------------------------------------------------------------------------
(* A build.  total is len(runq_fnid), depends is runq_depends, fn maps a   *)
(* task to its recipe, stamp to the name of its stamp file (tasks of       *)
(* shared work directories share one).  The rest are sets of tasks or      *)
(* flags named as in the code.                                             *)

T == 1..rqdata.total

revdeps(t) == {r \in T : t \in rqdata.depends[r]}

StampNames == {rqdata.stamp[t] : t \in T}

BuildType(b) ==
    LET Ts == 1..b.total IN
    /\ b.total \in Nat
    /\ b.depends \in [Ts -> SUBSET Ts]
    /\ DOMAIN b.fn = Ts /\ DOMAIN b.stamp = Ts /\ DOMAIN b.taskname = Ts
    /\ b.setscene \subseteq Ts
    /\ b.sq_revdeps \in [b.setscene -> SUBSET b.setscene]
    /\ b.nostamp \subseteq Ts /\ b.noexec \subseteq Ts /\ b.forced \subseteq Ts
    /\ b.fulldeptree \subseteq Ts
    /\ b.abort \in BOOLEAN
    /\ b.hashvalidate \in BOOLEAN /\ b.setsceneverify \in BOOLEAN
    /\ b.dump_signatures \in BOOLEAN

\* calculate_task_weights has refused a graph with a cycle.
Acyclic(b) ==
    \A X \in SUBSET (1..b.total) :
        X # {} => \E t \in X : b.depends[t] \cap X = {}

\* The graph between the setscene tasks has no cycle either: it is derived from
\* the other, and a task that is depended upon explicitly forgets what it
\* waited for.
AcyclicScene(b) ==
    \A X \in SUBSET b.setscene :
        X # {} => \E t \in X : b.sq_revdeps[t] \cap X = {}

ASSUME BuildsAssumption ==
    \A b \in Builds : BuildType(b) /\ Acyclic(b) /\ AcyclicScene(b)

ASSUME NumbersAssumption ==
    /\ NumberTasks \in Nat \ {0}
    /\ OldTime \in Nat /\ Now \in Nat \ {0} /\ OldTime <= Now

-----------------------------------------------------------------------------
(* RunQueueStats *)

NewStats == [completed |-> 0, skipped |-> 0, failed |-> 0, active |-> 0]

taskFailed(s)    == [s EXCEPT !.active = @ - 1, !.failed = @ + 1]
taskCompleted(s) == [s EXCEPT !.active = @ - 1, !.completed = @ + 1]
taskActive(s)    == [s EXCEPT !.active = @ + 1]

\* Every caller of taskSkipped calls taskCompleted as well.
taskSkipped(s) == [s EXCEPT !.completed = @ + 1, !.skipped = @ + 1]

-----------------------------------------------------------------------------
(* Stamp files.  An mtime is compared in whole seconds, and two equal      *)
(* mtimes count as current.                                                *)

stampOf(t) == stamps[rqdata.stamp[t]]

\* The dependencies check_stamp_task looks at: those of the same recipe and,
\* under a BB_STAMP_POLICY other than "perfile", those of every recipe that is
\* not in the whitelist (fulldeptree holds their tasks).
InStampTree(t, d) == rqdata.fn[t] = rqdata.fn[d] \/ d \in rqdata.fulldeptree

\* d was installed by its setscene variant after it was last run itself.
SetsceneNewer(d) == sstamps[d] > stampOf(d)

DependCurrent_Exists(t, d) ==
    SetsceneNewer(d) \/ ~InStampTree(t, d) \/ stampOf(d) # 0

DependCurrent(t, d) ==
    \/ SetsceneNewer(d)
    \/ ~InStampTree(t, d)
    \/ stampOf(d) # 0 /\ stampOf(t) >= stampOf(d)

check_stamp_task(t) ==
    /\ stampOf(t) # 0
    /\ t \notin rqdata.nostamp
    /\ \A d \in rqdata.depends[t] : DependCurrent(t, d)

\* check_stamp_task(t, recurse = True).  n bounds the depth of the recursion;
\* a chain of dependencies is no longer than total.
check_stamp_recurse(t) ==
    LET cur[n \in 0..rqdata.total] ==
          [u \in T |->
             /\ check_stamp_task(u)
             /\ n > 0 =>
                  \A d \in rqdata.depends[u] :
                     ~SetsceneNewer(d) /\ InStampTree(u, d) => cur[n - 1][d]]
    IN cur[rqdata.total][t]

make_stamp_Once(t) ==
    /\ now' \in {now, now + 1}
    /\ stamps' = [stamps EXCEPT ![rqdata.stamp[t]] = IF @ = 0 THEN now' ELSE @]
    /\ UNCHANGED sstamps

\* make_stamp: the stamp gets the time of the clock, which may have moved into
\* the next second since it was last read.
make_stamp(t) ==
    /\ now' \in {now, now + 1}
    /\ stamps' = [stamps EXCEPT ![rqdata.stamp[t]] = now']
    /\ UNCHANGED sstamps

make_setscene_stamp(t) ==
    /\ now' \in {now, now + 1}
    /\ sstamps' = [sstamps EXCEPT ![t] = now']
    /\ UNCHANGED stamps

-----------------------------------------------------------------------------
(* Worker processes.  "forked": not yet the leader of its process group.   *)
(* "stamped": the stamp is written, the process has not exited.  "ok",     *)
(* "failed", "killed": exited, waiting to be collected.  "none": no child  *)
(* of the server.                                                          *)

Alive  == {"forked", "leader", "stamped"}
Zombie == {"ok", "failed", "killed"}

Children == {t \in T : proc[t] # "none"}
Zombies  == {t \in T : proc[t] \in Zombie}

server == <<rqdata, state, rqexe, marks, stats, failed_fnids, build_pids,
            scene, ran>>

fork_off_task(t) ==
    /\ proc' = [proc EXCEPT ![t] = "forked"]
    /\ build_pids' = build_pids \cup {t}

\* os.setpgid(0, 0) in the child.
WorkerSetpgid(t) ==
    /\ proc[t] = "forked"
    /\ proc' = [proc EXCEPT ![t] = "leader"]
    /\ UNCHANGED <<server, clock>>

Stamping(t) == rqexe = "scene" \/ t \notin rqdata.nostamp

\* The task's functions succeed, and _exec_task makes its stamp.
WorkerStamp(t) ==
    /\ proc[t] = "leader"
    /\ Stamping(t)
    /\ proc' = [proc EXCEPT ![t] = "stamped"]
    /\ IF rqexe = "scene" THEN make_setscene_stamp(t) ELSE make_stamp(t)
    /\ UNCHANGED server

WorkerExit(t) ==
    /\ \/ proc[t] = "stamped"
       \/ proc[t] = "leader" /\ ~Stamping(t)
    /\ proc' = [proc EXCEPT ![t] = "ok"]
    /\ UNCHANGED <<server, clock>>

\* A function of the task fails or, for a task proper, the dump of its
\* signature after the stamp was written: exec_task turns any exception into
\* exit status 1.
WorkerFail(t) ==
    /\ \/ proc[t] = "leader"
       \/ proc[t] = "stamped" /\ rqexe = "tasks"
    /\ proc' = [proc EXCEPT ![t] = "failed"]
    /\ UNCHANGED <<server, clock>>

=============================================================================
