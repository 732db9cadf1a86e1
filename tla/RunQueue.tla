------------------------------ MODULE RunQueue ------------------------------
(***************************************************************************)
(* RunQueue (bitbake/lib/bb/runqueue.py) as the cooker drives it.  The     *)
(* server calls the idle function of a build (BBCooker.buildTargets) again *)
(* and again; a call forwards a stop request and then runs                 *)
(* execute_runqueue, which moves the state machine over Prepare,           *)
(* SceneInit, SceneRun, RunInit, Running, CleanUp to Complete or Failed.   *)
(* One call is several steps here, divided where it looks at or acts on    *)
(* something outside the server: workers, stamps, disks.  pc says where    *)
(* the call is; user requests are only taken between two calls.            *)
(***************************************************************************)
EXTENDS RunQueueExecuteTasks, RunQueueExecuteScenequeue, SceneGraph

CONSTANTS
    StopDisks,    \* disks monitored with the action STOPTASKS
    AbortDisks,   \* disks monitored with the action ABORT
    UserRequests  \* the cooker states a user may ask for

VARIABLES
    pc,       \* where the idle call is
    request,  \* BBCooker.state: "running", "shutdown" or "stop"
    tokill,   \* finish_now: the workers it has still to signal
    after,    \* finish_now: where the call goes on
    checked,  \* diskMonitor.checked
    aborted   \* history: finish_now has been called

ctl  == <<pc, request, tokill, after, checked, aborted>>
vars == <<server, proc, clock, ctl>>

Disks == StopDisks \cup AbortDisks

ASSUME EnvironmentAssumption ==
    /\ StopDisks \cap AbortDisks = {}
    /\ UserRequests \subseteq {"shutdown", "stop"}

Final == {"Complete", "Failed"}

-----------------------------------------------------------------------------

Init ==
    /\ rqdata \in Builds
    /\ state = "Prepare"
    /\ rqexe = "none"
    /\ runq_buildable = {} /\ runq_running = {} /\ runq_complete = {}
    /\ stats = NewStats
    /\ failed_fnids = {} /\ build_pids = {}
    /\ covered = {} /\ notcovered = {}
    /\ proc = [t \in T |-> "none"]
    /\ stamps \in [StampNames -> 0..OldTime]
    /\ sstamps \in [T -> 0..OldTime]
    \* A task without a stamp, or without a setscene variant, never wrote one.
    /\ \A t \in rqdata.nostamp : stampOf(t) = 0
    /\ \A t \in T \ S : sstamps[t] = 0
    /\ now = Now
    /\ ran = {}
    /\ pc = "idle"
    /\ request = "running"
    /\ tokill = {} /\ after = "exec"
    /\ checked = {}
    /\ aborted = FALSE

-----------------------------------------------------------------------------
(* Collecting workers, and stopping *)

task_complete(t) ==
    \/ rqexe = "tasks" /\ tasks_complete(t) /\ UNCHANGED scene
    \/ rqexe = "scene" /\ scene_complete(t)

task_fail(t) ==
    \/ rqexe = "tasks" /\ tasks_fail(t) /\ UNCHANGED scene
    \/ rqexe = "scene" /\ scene_fail(t)

AfterFailure_Always(s) == IF rqexe = "tasks" THEN "CleanUp" ELSE s
AfterFailure_Never(s) == s

\* A task's failure stops the build, unless it continues (-k).
AfterFailure(s) == IF rqexe = "tasks" /\ rqdata.abort THEN "CleanUp" ELSE s

\* runqueue_process_waitpid in a state s.  The three cases: a worker is
\* collected, none has exited yet, or there is no child and waitpid raises,
\* which ends the idle call.
Collect(t, s) ==
    /\ t \in Zombies
    /\ proc' = [proc EXCEPT ![t] = "none"]
    /\ build_pids' = build_pids \ {t}
    /\ IF proc[t] = "ok" THEN task_complete(t) ELSE task_fail(t)
    /\ state' = IF proc[t] = "ok" THEN s ELSE AfterFailure(s)

process_waitpid(s, next) ==
    \/ /\ \E t \in T : Collect(t, s)
       /\ pc' = next
    \/ /\ Zombies = {}
       /\ state' = s
       /\ pc' = IF Children = {} THEN "idle" ELSE next
       /\ UNCHANGED <<marks, stats, failed_fnids, build_pids, scene, proc>>

FinalState == IF failed_fnids = {} THEN "Complete" ELSE "Failed"

finish_NoWait(next) ==
    /\ state' = FinalState
    /\ pc' = next
    /\ UNCHANGED <<marks, stats, failed_fnids, build_pids, scene, proc,
                   rqdata, rqexe, ran, clock>>

\* finish(): let the active workers end, collecting one of them.
finish(next) ==
    /\ \/ stats.active > 0 /\ process_waitpid("CleanUp", next)
       \/ /\ stats.active = 0
          /\ state' = FinalState
          /\ pc' = next
          /\ UNCHANGED <<marks, stats, failed_fnids, build_pids, scene, proc>>
    /\ UNCHANGED <<rqdata, rqexe, ran, clock>>

\* finish_now(): signal every worker's process group, wait for some child
\* after each signal that went through.
finish_now(next) ==
    /\ tokill' = build_pids
    /\ after' = next
    /\ pc' = "kill"
    /\ aborted' = TRUE

\* kill(-pid) finds the group of a worker that has become its leader, also
\* when that worker has exited and nobody has collected it.
HasGroup(t) == proc[t] \in {"leader", "stamped"} \cup Zombie

KillWorker ==
    /\ pc = "kill"
    /\ \E t \in tokill :
         /\ tokill' = tokill \ {t}
         /\ proc' = IF HasGroup(t) /\ proc[t] \notin Zombie
                    THEN [proc EXCEPT ![t] = "killed"] ELSE proc
         /\ pc' = IF HasGroup(t) THEN "reap" ELSE "kill"
    /\ UNCHANGED <<server, clock, request, after, checked, aborted>>

\* os.waitpid(-1, 0) returns any worker that has exited.
ReapWorker ==
    /\ pc = "reap"
    /\ \E t \in Zombies : proc' = [proc EXCEPT ![t] = "none"]
    /\ pc' = "kill"
    /\ UNCHANGED <<server, clock, request, tokill, after, checked, aborted>>

FinishedNow ==
    /\ pc = "kill" /\ tokill = {}
    /\ state' = FinalState
    /\ pc' = after
    /\ UNCHANGED <<rqdata, rqexe, marks, stats, failed_fnids, build_pids, scene,
                   ran, proc, clock, request, tokill, after, checked, aborted>>

-----------------------------------------------------------------------------
(* The idle function: forward a stop request *)

IdleCall ==
    /\ pc = "idle"
    /\ request = "running" \/ rqexe = "none"
    /\ pc' = "exec"
    /\ UNCHANGED <<server, proc, clock, request, tokill, after, checked, aborted>>

IdleShutdown ==
    /\ pc = "idle" /\ request = "shutdown" /\ rqexe # "none"
    /\ finish("exec")
    /\ UNCHANGED <<request, tokill, after, checked, aborted>>

IdleStop ==
    /\ pc = "idle" /\ request = "stop" /\ rqexe # "none"
    /\ finish_now("exec")
    /\ UNCHANGED <<server, proc, clock, request, checked>>

-----------------------------------------------------------------------------
(* execute_runqueue *)

\* Prepare, when there is nothing to do and when there is: the stamps of the
\* tasks the user forces are removed.
Prepare ==
    /\ pc = "exec" /\ state = "Prepare"
    /\ rqexe' = "dummy"
    /\ state' = IF rqdata.total = 0 THEN "Complete" ELSE "SceneInit"
    /\ stamps' = [s \in StampNames |->
                    IF \E t \in rqdata.forced : rqdata.stamp[t] = s
                    THEN 0 ELSE stamps[s]]
    /\ UNCHANGED <<rqdata, marks, stats, failed_fnids, build_pids, scene, ran,
                   proc, sstamps, now, ctl>>

SceneInit ==
    /\ pc = "exec" /\ state = "SceneInit" /\ ~rqdata.dump_signatures
    /\ NewExecuteScenequeue
    /\ pc' = IF state' = "SceneRun" THEN "disk" ELSE "run"
    /\ UNCHANGED <<request, tokill, after, checked, aborted>>

\* With -S, the signatures are dumped instead.
dump_signatures ==
    /\ pc = "exec" /\ state = "SceneInit" /\ rqdata.dump_signatures
    /\ state' = "Complete"
    /\ pc' = "run"
    /\ UNCHANGED <<rqdata, rqexe, marks, stats, failed_fnids, build_pids, scene,
                   ran, proc, clock, request, tokill, after, checked, aborted>>

\* The states in which execute_runqueue looks at the disks first.
EnterExec ==
    /\ pc = "exec" /\ state \notin {"Prepare", "SceneInit"}
    /\ pc' = IF state \in {"SceneRun", "Running", "CleanUp"} THEN "disk" ELSE "run"
    /\ UNCHANGED <<server, proc, clock, request, tokill, after, checked, aborted>>

\* diskMonitor.check: a disk that has become full is acted on once.
DiskStop ==
    /\ pc = "disk"
    /\ \E d \in StopDisks \ checked : checked' = checked \cup {d}
    /\ finish("disk")
    /\ UNCHANGED <<request, tokill, after, aborted>>

DiskAbort ==
    /\ pc = "disk"
    /\ \E d \in AbortDisks \ checked : checked' = checked \cup {d}
    /\ finish_now("disk")
    /\ UNCHANGED <<server, proc, clock, request>>

DiskChecked ==
    /\ pc = "disk"
    /\ pc' = "run"
    /\ UNCHANGED <<server, proc, clock, request, tokill, after, checked, aborted>>

\* execute() returns True early after a skip, a noexec task, or a fork that
\* leaves room for another one; otherwise it goes on to collect a worker.
RoomLeft == IF stats'.active < NumberTasks THEN "end" ELSE "collect"

SceneExecute ==
    /\ pc = "run" /\ state = "SceneRun"
    /\ \/ \E t \in S : SceneFailOutright(t) /\ pc' = "end"
       \/ \E t \in S : SceneSkip(t) /\ pc' = "end"
       \/ \E t \in S : SceneFork(t) /\ pc' = RoomLeft
       \/ /\ NoSceneSchedulable
          /\ pc' = "collect"
          /\ UNCHANGED <<server, proc, clock>>
    /\ UNCHANGED <<request, tokill, after, checked, aborted>>

RunInit ==
    /\ pc = "run" /\ state = "RunInit"
    /\ NewExecuteTasks
    /\ state' = "Running"
    /\ UNCHANGED ctl

TasksExecute ==
    /\ pc = "run" /\ state = "Running"
    /\ \/ \E t \in T : SkipTask(t) /\ pc' = "end"
       \/ \E t \in T : NoexecTask(t) /\ pc' = "end"
       \/ \E t \in T : ForkTask(t) /\ pc' = RoomLeft
       \/ /\ NothingSchedulable
          /\ pc' = "collect"
          /\ UNCHANGED <<server, proc, clock>>
    /\ UNCHANGED <<request, tokill, after, checked, aborted>>

\* The second half of execute(), of both executors.
CollectWorker ==
    /\ pc = "collect" /\ stats.active > 0
    /\ process_waitpid(state, "end")
    /\ UNCHANGED <<rqdata, rqexe, ran, clock, request, tokill, after, checked,
                   aborted>>

SceneDone ==
    /\ pc = "collect" /\ stats.active = 0 /\ rqexe = "scene"
    /\ SceneFinished
    /\ pc' = "run"
    /\ UNCHANGED <<request, tokill, after, checked, aborted>>

TasksDone ==
    /\ pc = "collect" /\ stats.active = 0 /\ rqexe = "tasks"
    /\ state' = FinalState
    /\ pc' = "end"
    /\ UNCHANGED <<rqdata, rqexe, marks, stats, failed_fnids, build_pids, scene,
                   ran, proc, clock, request, tokill, after, checked, aborted>>

NothingToRun ==
    /\ pc = "run" /\ state \notin {"SceneRun", "RunInit", "Running"}
    /\ pc' = "end"
    /\ UNCHANGED <<server, proc, clock, request, tokill, after, checked, aborted>>

CleanUp ==
    /\ pc = "end" /\ state = "CleanUp"
    /\ finish("return")
    /\ UNCHANGED <<request, tokill, after, checked, aborted>>

Return_CompleteOnly ==
    /\ \/ pc = "return"
       \/ pc = "end" /\ state # "CleanUp"
    /\ pc' = IF state = "Complete" THEN "done" ELSE "idle"
    /\ UNCHANGED <<server, proc, clock, request, tokill, after, checked, aborted>>

\* execute_runqueue returns False, or raises TaskFailure: the build is over
\* and its idle function is dropped.  Otherwise it will be called again.
Return ==
    /\ \/ pc = "return"
       \/ pc = "end" /\ state # "CleanUp"
    /\ pc' = IF state \in Final THEN "done" ELSE "idle"
    /\ UNCHANGED <<server, proc, clock, request, tokill, after, checked, aborted>>

-----------------------------------------------------------------------------
(* stateShutdown and stateStop, the user interface's commands *)

Request ==
    /\ pc = "idle"
    /\ \E r \in UserRequests :
         /\ r # request /\ request # "stop"
         /\ request' = r
    /\ UNCHANGED <<server, proc, clock, pc, tokill, after, checked, aborted>>

\* The build is over and no worker is left.
Terminated ==
    /\ pc = "done" /\ \A t \in T : proc[t] \notin Alive
    /\ UNCHANGED vars

ServerStep ==
    \/ IdleCall \/ IdleShutdown \/ IdleStop
    \/ Prepare \/ SceneInit \/ dump_signatures \/ EnterExec
    \/ DiskStop \/ DiskAbort \/ DiskChecked
    \/ SceneExecute \/ RunInit \/ TasksExecute
    \/ CollectWorker \/ SceneDone \/ TasksDone \/ NothingToRun
    \/ CleanUp \/ Return
    \/ KillWorker \/ ReapWorker \/ FinishedNow

WorkerStep(t) ==
    /\ WorkerSetpgid(t) \/ WorkerStamp(t) \/ WorkerExit(t) \/ WorkerFail(t)
    /\ UNCHANGED ctl

Next ==
    \/ ServerStep
    \/ \E t \in T : WorkerStep(t)
    \/ Request
    \/ Terminated

Spec == Init /\ [][Next]_vars

\* The server's loop keeps calling the idle function, and a worker that runs
\* ends: its task's functions terminate.  Nobody owes a request or a full disk.
MaxTasks == UNION {1..b.total : b \in Builds}

Fairness ==
    /\ WF_vars(ServerStep)
    /\ \A t \in MaxTasks : WF_vars(t \in T /\ WorkerStep(t))

FairSpec == Spec /\ Fairness

-----------------------------------------------------------------------------
(* Properties *)

InTasks == rqexe = "tasks"

\* The tasks that failed in this build.
FailedTasks == runq_running \ (runq_complete \cup build_pids)

\* Nobody asked the build to stop, and no disk became full.
Undisturbed == request = "running" /\ checked = {}

\* The tasks t depends on, directly or not, t included.
Upstream(t) ==
    LET Closed == {X \in SUBSET T : t \in X /\ \A u \in X : rqdata.depends[u] \subseteq X}
    IN {u \in T : \A X \in Closed : u \in X}

\* Every variable has its type.
TypeOK ==
    /\ rqdata \in Builds
    /\ state \in {"Prepare", "SceneInit", "SceneRun", "RunInit", "Running",
                  "CleanUp", "Complete", "Failed"}
    /\ rqexe \in {"none", "dummy", "scene", "tasks"}
    /\ runq_buildable \subseteq T /\ runq_running \subseteq T
    /\ runq_complete \subseteq T /\ build_pids \subseteq T
    /\ stats \in [completed : Int, skipped : Int, failed : Int, active : Int]
    /\ failed_fnids \subseteq {rqdata.fn[t] : t \in T}
    /\ covered \subseteq T /\ notcovered \subseteq T /\ ran \subseteq T
    /\ proc \in [T -> {"none"} \cup Alive \cup Zombie]
    /\ stamps \in [StampNames -> Nat] /\ sstamps \in [T -> Nat] /\ now \in Nat
    /\ pc \in {"idle", "exec", "disk", "run", "collect", "end", "return",
               "kill", "reap", "done"}
    /\ request \in {"running", "shutdown", "stop"}
    /\ tokill \subseteq T /\ after \in {"exec", "disk"}
    /\ checked \subseteq Disks /\ aborted \in BOOLEAN

\* A task is only started, or skipped, when all it depends on is complete; a
\* failed, killed or still running dependency never counts as complete.
DependenciesFirst ==
    InTasks => \A t \in runq_running : rqdata.depends[t] \subseteq runq_complete

\* A task runs after every task that its metadata ask it to come after, also
\* those that "recrdeptask" reaches through other recipes (runqueue.py:481-549):
\* rqdata.after has these.
MetadataOrder ==
    InTasks => \A t \in build_pids : rqdata.after[t] \subseteq runq_complete

\* The processes of a task and of one it depends on, directly or not, never
\* run at the same time, whatever finish_now does to them.
NoOverlap ==
    InTasks => \A t \in T : proc[t] \in Alive =>
                 \A d \in Upstream(t) \ {t} : proc[d] \notin Alive

\* Two workers that would write the same stamp file, those of a shared work
\* directory, never run at the same time.
StampExclusive ==
    InTasks => \A t, u \in T :
                 /\ t # u
                 /\ proc[t] \in Alive /\ proc[u] \in Alive
                 => rqdata.stamp[t] # rqdata.stamp[u]

\* The statistics count the workers and the outcomes, and no more than
\* BB_NUMBER_THREADS workers are active.
StatsCounted ==
    /\ stats.active = Cardinality(build_pids)
    /\ stats.active <= NumberTasks
    /\ InTasks => /\ stats.completed = Cardinality(runq_complete)
                  /\ stats.failed = Cardinality(FailedTasks)
    /\ rqexe = "scene" => stats.completed + stats.failed = Cardinality(Processed)

\* When nothing is active and nothing failed, every task is complete: the
\* sanity checks at the end of execute() have nothing to report.
NeverStuck ==
    pc = "collect" /\ InTasks /\ stats.active = 0 /\ failed_fnids = {}
        => runq_complete = T

\* With -k, a failed task keeps exactly those tasks from running that depend
\* on it: at the end all the others are complete.
FailureContained ==
    pc = "done" /\ InTasks /\ Undisturbed /\ ~rqdata.abort
        => runq_complete = {t \in T : Upstream(t) \cap FailedTasks = {}}

\* A build that succeeds leaves every task it did not take from the cache
\* with a current stamp: the next build would skip it.  (A task without a
\* stamp makes those that look at it run every time.)  This is of builds with
\* no setscene tasks: setsceneverify may take a cover back and leave those below
\* covered, so that a task is executed on one that has no stamp.
CurrentAfterwards ==
    pc = "done" /\ InTasks /\ Undisturbed /\ failed_fnids = {} /\ S = {}
        => \A t \in T \ (covered \cup rqdata.nostamp) :
             (\A d \in rqdata.depends[t] \cap rqdata.nostamp :
                  ~InStampTree(t, d))
             => check_stamp_task(t)

\* When a task was executed, so is every task that depends on it and looks at
\* its stamp, or one that shares the dependent's stamp.  (Where the stamps of
\* earlier builds are older than this one; mtimes may be equal otherwise.)
RerunPropagates ==
    InTasks => \A t \in runq_complete \ covered :
                 \A d \in rqdata.depends[t] \cap ran :
                    InStampTree(t, d) =>
                        \E u \in ran : rqdata.stamp[u] = rqdata.stamp[t]

\* A setscene task whose result sysroot_checkhashes may have thrown away.
TakenBack(t) ==
    /\ rqdata.setsceneverify
    /\ rqdata.taskname[t] = "do_populate_sysroot"
    /\ t \notin covered

\* What a task is executed on exists: each of its dependencies has been
\* executed, now or earlier, or installed from the cache.  (A dependency that
\* was covered only because of t is not, when t's own cover is taken back.)
ExecutedOnInputs ==
    InTasks => \A t \in ran : \A d \in rqdata.depends[t] :
                 \/ d \in ran \/ stampOf(d) # 0 \/ sstamps[d] # 0
                 \/ TakenBack(t) /\ d \in covered

\* Once a build is being stopped, or a task has failed without -k, no task is
\* started and the build does not run again.
StoppedForGood ==
    [][ \/ state \in {"CleanUp"} \cup Final
        \/ InTasks /\ rqdata.abort /\ failed_fnids # {}
        => /\ build_pids' \subseteq build_pids /\ ran' = ran
           /\ state' \in {"CleanUp"} \cup Final ]_vars

\* A build that nobody aborted leaves no process behind, not even a zombie.
WorkersCollected ==
    pc = "done" /\ ~aborted => Children = {}

\* A setscene task is only forked when an outcome is known for those that
\* depend on it, and every outcome is either covered or not.
SceneOrder ==
    rqexe = "scene" =>
        /\ covered \cap notcovered = {}
        /\ \A t \in build_pids : rqdata.sq_revdeps[t] \subseteq Processed

\* A setscene task is forked when an outcome is known for the setscene tasks
\* that need its output by a path of the task graph without another setscene
\* task on it, and for those its metadata names ("setscene inter-task
\* dependencies", runqueue.py).  Not so a task that is itself named, which has
\* forgotten what it would wait for, or one that a setscene task depends on
\* directly, where the walk to the others begins.
SceneWaits ==
    rqexe = "scene" => \A t \in build_pids :
        (\A u \in S : t \notin rqdata.depends[u] \cup rqdata.idepends[u])
            => Above(rqdata.depends, S, t) \cup rqdata.idepends[t] \subseteq Processed

\* When the setscene tasks are over, an outcome is known for each of them.
SceneNeverStuck ==
    pc = "collect" /\ rqexe = "scene" /\ stats.active = 0 => Processed = S

\* The build carries out the abstract specification of task order.
taskStatus ==
    [t \in T |-> IF rqexe # "tasks" \/ t \notin runq_running THEN "waiting"
                 ELSE IF t \in runq_complete THEN "done"
                 ELSE IF t \in build_pids THEN "active" ELSE "failed"]

Order == INSTANCE BuildOrder WITH build <- rqdata, status <- taskStatus

ImplementsOrder == Order!Spec

\* finish_now stops the tasks that are left: when the build is over after an
\* abort, no worker runs on.
AbortStopsWorkers ==
    pc = "done" /\ aborted => \A t \in T : proc[t] \notin Alive

\* A build that is aborted ends.
AbortEnds == aborted ~> pc = "done"

\* The build ends, in success or failure.
BuildEnds == <>(pc = "done")

=============================================================================
