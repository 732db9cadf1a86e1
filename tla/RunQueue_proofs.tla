--------------------------- MODULE RunQueue_proofs ---------------------------
(***************************************************************************)
(* Proofs about RunQueue, for every set of builds and every number of      *)
(* threads, disks and requests: its inductive invariant, the safety        *)
(* properties that follow from it, that it implements BuildOrder, and what *)
(* it promises about stamps.                                               *)
(***************************************************************************)
EXTENDS RunQueueInv, FiniteSetTheorems, TLAPS

-----------------------------------------------------------------------------
(* The build *)

\* What BuildsAssumption says of the build that is being run.
LEMMA BuildFacts ==
    ASSUME rqdata \in Builds
    PROVE  /\ rqdata.total \in Nat
           /\ rqdata.depends \in [T -> SUBSET T]
           /\ DOMAIN rqdata.stamp = T
           /\ S \subseteq T
           /\ rqdata.sq_revdeps \in [S -> SUBSET S]
           /\ rqdata.abort \in BOOLEAN
  BY BuildsAssumption DEF BuildType, T, S

\* There are finitely many tasks.
LEMMA TasksFinite ==
    ASSUME rqdata \in Builds, NEW X \in SUBSET T
    PROVE  IsFiniteSet(X) /\ Cardinality(X) \in Nat
<1>1. rqdata.total \in Nat
  BY BuildFacts
<1>2. IsFiniteSet(T)
  BY <1>1, FS_Interval DEF T
<1> QED
  BY <1>2, FS_Subset, FS_CardinalityType

LEMMA Counting ==
    ASSUME rqdata \in Builds, NEW X \in SUBSET T, NEW t \in T
    PROVE  /\ t \notin X => Cardinality(X \cup {t}) = Cardinality(X) + 1
           /\ t \in X => Cardinality(X \ {t}) = Cardinality(X) - 1
  BY TasksFinite, FS_AddElement, FS_RemoveElement

\* What the operations of RunQueueStats do.
StatsType == [completed : Int, skipped : Int, failed : Int, active : Int]

LEMMA StatsUpdates ==
    ASSUME NEW s \in StatsType, NEW x \in Int
    PROVE  /\ [s EXCEPT !.completed = x] \in StatsType
           /\ [s EXCEPT !.skipped = x] \in StatsType
           /\ [s EXCEPT !.failed = x] \in StatsType
           /\ [s EXCEPT !.active = x] \in StatsType
  BY DEF StatsType

LEMMA StatsTypes ==
    ASSUME NEW s \in StatsType
    PROVE  /\ taskFailed(s) \in StatsType
           /\ taskCompleted(s) \in StatsType
           /\ taskActive(s) \in StatsType
           /\ taskSkipped(s) \in StatsType
<1> DEFINE less == [s EXCEPT !.active = s.active - 1]
           more == [s EXCEPT !.completed = s.completed + 1]
<1>1. /\ s.completed + 1 \in Int /\ s.skipped + 1 \in Int
      /\ s.failed + 1 \in Int /\ s.active - 1 \in Int /\ s.active + 1 \in Int
  BY DEF StatsType
<1>2. less \in StatsType /\ more \in StatsType /\ taskActive(s) \in StatsType
  BY <1>1, StatsUpdates DEF taskActive
<1>3. /\ taskFailed(s) = [less EXCEPT !.failed = s.failed + 1]
      /\ taskCompleted(s) = [less EXCEPT !.completed = s.completed + 1]
      /\ taskSkipped(s) = [more EXCEPT !.skipped = s.skipped + 1]
  BY DEF taskFailed, taskCompleted, taskSkipped
<1> HIDE DEF less, more
<1>4. /\ [less EXCEPT !.failed = s.failed + 1] \in StatsType
      /\ [less EXCEPT !.completed = s.completed + 1] \in StatsType
      /\ [more EXCEPT !.skipped = s.skipped + 1] \in StatsType
  BY <1>1, <1>2, StatsUpdates, Zenon
<1> QED
  BY <1>2, <1>3, <1>4

LEMMA StatsValues ==
    ASSUME NEW s \in StatsType
    PROVE  /\ taskFailed(s).active = s.active - 1
           /\ taskFailed(s).completed = s.completed
           /\ taskFailed(s).failed = s.failed + 1
           /\ taskCompleted(s).active = s.active - 1
           /\ taskCompleted(s).completed = s.completed + 1
           /\ taskCompleted(s).failed = s.failed
           /\ taskActive(s).active = s.active + 1
           /\ taskActive(s).completed = s.completed
           /\ taskActive(s).failed = s.failed
           /\ taskSkipped(s).active = s.active
           /\ taskSkipped(s).completed = s.completed + 1
           /\ taskSkipped(s).failed = s.failed
  BY DEF StatsType, taskFailed, taskCompleted, taskActive, taskSkipped

\* The statistics of a queue some of whose tasks are skipped at once.
LEMMA StatsStart ==
    ASSUME NEW n \in Int
    PROVE  LET s == [NewStats EXCEPT !.completed = n, !.skipped = n]
           IN s \in StatsType /\ s.active = 0 /\ s.completed = n /\ s.failed = 0
<1>1. NewStats \in StatsType
  BY DEF NewStats, StatsType
<1> DEFINE t == [NewStats EXCEPT !.completed = n]
           s == [t EXCEPT !.skipped = n]
<1>2. t \in StatsType /\ t.active = 0 /\ t.completed = n /\ t.failed = 0
  BY <1>1, StatsUpdates DEF NewStats, StatsType
<1>3. s = [NewStats EXCEPT !.completed = n, !.skipped = n]
  OBVIOUS
<1> HIDE DEF t
<1>4. s \in StatsType /\ s.active = 0 /\ s.completed = n /\ s.failed = 0
  BY <1>2, StatsUpdates DEF StatsType
<1> QED
  BY <1>3, <1>4

\* Nothing changes the build.
LEMMA SameBuild ==
    ASSUME [Next]_vars
    PROVE  rqdata' = rqdata /\ T' = T /\ S' = S /\ StampNames' = StampNames
<1>1. rqdata' = rqdata
  BY DEF Next, vars, server, ServerStep, WorkerStep, Terminated, Request,
         IdleCall, IdleShutdown, IdleStop, Prepare, SceneInit, dump_signatures,
         EnterExec, DiskStop, DiskAbort, DiskChecked, SceneExecute, RunInit,
         TasksExecute, CollectWorker, SceneDone, TasksDone, NothingToRun,
         CleanUp, Return, KillWorker, ReapWorker, FinishedNow, finish,
         NewExecuteScenequeue, NewExecuteTasks, SkipTask, NoexecTask, ForkTask,
         SceneFailOutright, SceneSkip, SceneFork, SceneFinished, WorkerSetpgid,
         WorkerStamp, WorkerExit, WorkerFail
<1> QED
  BY <1>1 DEF T, S, StampNames

-----------------------------------------------------------------------------
(* What a step does to the queue.  Most steps of an idle call, of the user *)
(* and of the workers leave it alone; the others are one of those below.   *)

Untouched ==
    /\ UNCHANGED <<rqexe, marks, stats, failed_fnids, build_pids, scene, ran>>
    /\ Children' \subseteq Children

Collects(t) ==
    /\ \E s \in {state, "CleanUp"} : Collect(t, s)
    /\ UNCHANGED <<rqdata, rqexe, ran, clock>>

TaskStep(t) == SkipTask(t) \/ NoexecTask(t) \/ ForkTask(t)

SceneStep(t) == SceneFailOutright(t) \/ SceneSkip(t) \/ SceneFork(t)

\* finish leaves the queue alone, or collects a worker.
LEMMA FinishKinds ==
    ASSUME NEW next, finish(next), T' = T
    PROVE  Untouched \/ \E t \in T : Collects(t)
<1>1. CASE stats.active = 0
  BY <1>1 DEF finish, process_waitpid, Untouched, Children, Collects, marks, scene
<1>2. CASE \E t \in T : Collect(t, "CleanUp")
  BY <1>2 DEF finish, Collects
<1>3. CASE UNCHANGED <<marks, stats, failed_fnids, build_pids, scene, proc>>
  BY <1>3 DEF finish, Untouched, Children
<1> QED
  BY <1>1, <1>2, <1>3 DEF finish, process_waitpid

LEMMA StepKinds ==
    ASSUME TypeOK, [Next]_vars
    PROVE  \/ Untouched
           \/ Prepare
           \/ SceneInit
           \/ RunInit
           \/ state = "Running" /\ \E t \in T : TaskStep(t)
           \/ state = "SceneRun" /\ \E t \in S : SceneStep(t)
           \/ \E t \in T : Collects(t)
<1> USE SameBuild
<1>1. CASE UNCHANGED <<server, proc>>
  BY <1>1 DEF server, Untouched, Children
<1>2. CASE dump_signatures \/ SceneDone \/ TasksDone \/ FinishedNow
  BY <1>2 DEF dump_signatures, SceneDone, SceneFinished, TasksDone, FinishedNow,
              Untouched, Children
<1>3. CASE IdleShutdown \/ DiskStop \/ CleanUp
  BY <1>3, FinishKinds DEF IdleShutdown, DiskStop, CleanUp
<1>4. CASE CollectWorker
  BY <1>4 DEF CollectWorker, process_waitpid, Untouched, Collects, Children
<1>5. CASE SceneExecute
  BY <1>1, <1>5 DEF SceneExecute, SceneStep
<1>6. CASE TasksExecute
  BY <1>1, <1>6 DEF TasksExecute, TaskStep
<1>7. CASE KillWorker \/ ReapWorker
  <2>1. UNCHANGED server /\ Children' \subseteq Children
    BY <1>7 DEF KillWorker, ReapWorker, Children, Zombies, Zombie, TypeOK, HasGroup
  <2> QED
    BY <2>1 DEF server, Untouched
<1>8. CASE \E t \in T : WorkerStep(t)
  <2>1. PICK t \in T : WorkerStep(t)
    BY <1>8
  <2>2. UNCHANGED server /\ Children' \subseteq Children
    BY <2>1 DEF WorkerStep, WorkerSetpgid, WorkerStamp, WorkerExit, WorkerFail,
                Children, TypeOK, server
  <2> QED
    BY <2>2 DEF server, Untouched
<1>9. CASE IdleCall \/ IdleStop \/ EnterExec \/ DiskAbort \/ DiskChecked
             \/ NothingToRun \/ Return \/ Request \/ Terminated \/ UNCHANGED vars
  BY <1>1, <1>9 DEF IdleCall, IdleStop, EnterExec, DiskAbort, DiskChecked,
              NothingToRun, Return, Request, Terminated, vars
<1> QED
  BY <1>2, <1>3, <1>4, <1>5, <1>6, <1>7, <1>8, <1>9 DEF Next, ServerStep

-----------------------------------------------------------------------------
(* The inductive invariant holds initially *)

LEMMA InitIInv == Init => IInv
<1> SUFFICES ASSUME Init PROVE IInv
  OBVIOUS
<1>1. TypeOK
  <2>1. stamps \in [StampNames -> Nat] /\ sstamps \in [T -> Nat] /\ now \in Nat
    BY NumbersAssumption DEF Init
  <2>2. proc \in [T -> {"none"} \cup Alive \cup Zombie]
    BY DEF Init
  <2>3. stats \in [completed : Int, skipped : Int, failed : Int, active : Int]
    BY DEF Init, NewStats
  <2> QED
    BY <2>1, <2>2, <2>3 DEF Init, TypeOK
<1>2. Cardinality({}) = 0
  BY FS_EmptySet
<1>3. Children = {}
  BY DEF Init, Children
<1> QED
  BY <1>1, <1>2, <1>3, NumbersAssumption
     DEF Init, IInv, ControlInv, WorkerInv, TasksInv, CollectInv, SceneInv,
         ContinueInv, StatsCounted, NewStats, InTasks, Final

-----------------------------------------------------------------------------
(* Type correctness is kept *)

\* The parts of TypeOK that are about the queue.
QueueType ==
    /\ runq_buildable \subseteq T /\ runq_running \subseteq T
    /\ runq_complete \subseteq T /\ build_pids \subseteq T
    /\ stats \in StatsType
    /\ failed_fnids \subseteq {rqdata.fn[t] : t \in T}
    /\ covered \subseteq T /\ notcovered \subseteq T /\ ran \subseteq T

LEMMA QueueTypeStep ==
    ASSUME TypeOK, [Next]_vars PROVE QueueType'
<1> USE SameBuild
<1>1. S \subseteq T
  BY BuildFacts DEF TypeOK
<1>a. stats \in StatsType
  BY DEF TypeOK, StatsType
<1> USE <1>1, <1>a, StatsTypes DEF TypeOK, QueueType
<1>2. CASE Untouched
  BY <1>2 DEF Untouched, marks, scene
<1>3. CASE Prepare
  BY <1>3 DEF Prepare, marks, scene
<1>4. CASE SceneInit
  <2>1. CASE NoSetscene
    BY <1>4, <2>1 DEF SceneInit, NewExecuteScenequeue, NoSetscene, marks
  <2>2. ASSUME NEW skipped \in SUBSET S, NEW failed \in SUBSET S,
               Initialised(skipped, failed)
        PROVE  QueueType'
    <3>1. Cardinality(skipped \cup failed) \in Int
      BY TasksFinite
    <3> QED
      BY <1>4, <2>2, <3>1, StatsStart DEF SceneInit, NewExecuteScenequeue, Initialised
  <2>3. CASE WithoutHashcheck
    BY <2>2, <2>3 DEF WithoutHashcheck
  <2>4. CASE WithHashcheck
    <3>1. PICK skipped \in SUBSET S, failed \in SUBSET S :
             Initialised(skipped, failed)
      <4> DEFINE noexec == S \cap rqdata.noexec
                 present == {t \in S \ noexec : sstamps[t] # 0}
      <4>1. PICK valid \in SUBSET (S \ (noexec \cup present)) :
               Initialised(noexec \cup present,
                           S \ (noexec \cup present \cup valid))
        BY <2>4, Zenon DEF WithHashcheck
      <4> QED
        BY <4>1, Zenon
    <3> QED
      BY <2>2, <3>1
  <2> QED
    BY <1>4, <2>1, <2>3, <2>4 DEF SceneInit, NewExecuteScenequeue
<1>5. CASE RunInit
  BY <1>5 DEF RunInit, NewExecuteTasks, CoveredClosure, NewStats, StatsType
<1>6. ASSUME NEW t \in T, TaskStep(t) PROVE QueueType'
  BY <1>6 DEF TaskStep, SkipTask, NoexecTask, ForkTask, tasks_skip, fork_off_task,
       tasks_completeoutright, NewlyBuildable, revdeps,
       scene
<1>7. ASSUME NEW t \in S, SceneStep(t) PROVE QueueType'
  BY <1>7 DEF SceneStep, SceneFailOutright, SceneSkip, SceneFork, scene_outright,
       scene_updatecounters, Unblocked, fork_off_task,
       scene
<1>8. ASSUME NEW t \in T, Collects(t) PROVE QueueType'
  BY <1>8 DEF Collects, Collect, task_complete, task_fail, tasks_complete,
       tasks_fail, tasks_completeoutright, NewlyBuildable, revdeps,
       scene_complete, scene_fail, scene_updatecounters, Unblocked,
       marks, scene
<1> QED
  BY <1>2, <1>3, <1>4, <1>5, <1>6, <1>7, <1>8, StepKinds

\* The rest of TypeOK: the state machine, the workers and their stamps.
ControlType ==
    /\ state \in {"Prepare", "SceneInit", "SceneRun", "RunInit", "Running",
                  "CleanUp", "Complete", "Failed"}
    /\ rqexe \in {"none", "dummy", "scene", "tasks"}
    /\ proc \in [T -> {"none"} \cup Alive \cup Zombie]
    /\ pc \in {"idle", "exec", "disk", "run", "collect", "end", "return",
               "kill", "reap", "done"}
    /\ request \in {"running", "shutdown", "stop"}
    /\ tokill \subseteq T /\ after \in {"exec", "disk"}
    /\ checked \subseteq Disks /\ aborted \in BOOLEAN

ClockType ==
    stamps \in [StampNames -> Nat] /\ sstamps \in [T -> Nat] /\ now \in Nat

LEMMA ControlTypeStep ==
    ASSUME TypeOK, [Next]_vars PROVE ControlType'
<1> USE SameBuild DEF TypeOK, ControlType
<1>1. S \subseteq T
  BY BuildFacts
<1>2. ASSUME NEW next \in {"exec", "disk", "return"}, finish(next)
      PROVE  /\ state' \in {"CleanUp", "Complete", "Failed"}
             /\ pc' \in {"idle", "exec", "disk", "return"}
             /\ proc' \in [T -> {"none"} \cup Alive \cup Zombie]
  BY <1>2 DEF finish, process_waitpid, Collect, FinalState, AfterFailure, scene
<1>3. CASE UNCHANGED vars \/ Terminated \/ Request
  BY <1>3, EnvironmentAssumption DEF vars, ctl, server, Terminated, Request
<1>4. CASE IdleShutdown \/ DiskStop \/ CleanUp
  BY <1>2, <1>4 DEF IdleShutdown, DiskStop, CleanUp, finish, Disks
<1>5. CASE IdleCall \/ IdleStop \/ EnterExec \/ DiskAbort \/ DiskChecked
             \/ NothingToRun \/ Return
  <2>1. CASE IdleStop \/ DiskAbort
    BY <2>1 DEF IdleStop, DiskAbort, finish_now, server, Disks
  <2>2. CASE IdleCall \/ EnterExec \/ DiskChecked
    BY <2>2 DEF IdleCall, EnterExec, DiskChecked, server
  <2>3. CASE NothingToRun \/ Return
    BY <2>3 DEF NothingToRun, Return, server
  <2> QED
    BY <1>5, <2>1, <2>2, <2>3
<1>6. CASE Prepare \/ dump_signatures \/ SceneDone \/ TasksDone \/ FinishedNow
  BY <1>6 DEF Prepare, dump_signatures, SceneDone, SceneFinished, TasksDone,
              FinishedNow, FinalState, ctl
<1>7. CASE SceneInit \/ RunInit
  BY <1>7 DEF SceneInit, RunInit, NewExecuteScenequeue, NoSetscene,
              WithoutHashcheck, WithHashcheck, Initialised, NewExecuteTasks, ctl
<1>8. CASE KillWorker \/ ReapWorker
  BY <1>8 DEF KillWorker, ReapWorker, server, Zombies, Zombie
<1>9. CASE CollectWorker
  BY <1>9 DEF CollectWorker, process_waitpid, Collect, AfterFailure
<1>10. CASE TasksExecute
  BY <1>10 DEF TasksExecute, SkipTask, NoexecTask, ForkTask, fork_off_task,
               RoomLeft, server, Alive
<1>11. CASE SceneExecute
  BY <1>1, <1>11 DEF SceneExecute, SceneFailOutright, SceneSkip, SceneFork,
               fork_off_task, RoomLeft, server, Alive
<1>12. CASE \E t \in T : WorkerStep(t)
  BY <1>12 DEF WorkerStep, WorkerSetpgid, WorkerStamp, WorkerExit, WorkerFail,
               server, ctl, Alive, Zombie
<1> QED
  BY <1>3, <1>4, <1>5, <1>6, <1>7, <1>8, <1>9, <1>10, <1>11, <1>12
     DEF Next, ServerStep

LEMMA ClockTypeStep ==
    ASSUME TypeOK, [Next]_vars PROVE ClockType'
<1> USE SameBuild DEF TypeOK, ClockType
<1>1. CASE UNCHANGED clock
  BY <1>1 DEF clock
<1>2. CASE Prepare
  BY <1>2 DEF Prepare
<1>3. CASE SceneInit
  BY <1>3 DEF SceneInit, NewExecuteScenequeue, NoSetscene, WithoutHashcheck,
              WithHashcheck, clock
<1>4. CASE RunInit
  BY <1>4 DEF RunInit, NewExecuteTasks
<1>5. CASE TasksExecute
  BY <1>1, <1>5 DEF TasksExecute, SkipTask, NoexecTask, ForkTask, make_stamp
<1>6. CASE \E t \in T : WorkerStep(t)
  BY <1>1, <1>6 DEF WorkerStep, WorkerSetpgid, WorkerStamp, WorkerExit, WorkerFail,
              make_stamp, make_setscene_stamp
<1>7. CASE SceneExecute
  BY <1>1, <1>7 DEF SceneExecute, SceneFailOutright, SceneSkip, SceneFork
<1> QED
  BY <1>1, <1>2, <1>3, <1>4, <1>5, <1>6, <1>7
     DEF Next, ServerStep, vars, Terminated, Request, IdleCall, IdleShutdown,
         IdleStop, dump_signatures, EnterExec, DiskStop, DiskAbort, DiskChecked,
         CollectWorker, SceneDone, SceneFinished, TasksDone, NothingToRun,
         CleanUp, Return, KillWorker, ReapWorker, FinishedNow, finish

LEMMA TypeStep ==
    ASSUME TypeOK, [Next]_vars PROVE TypeOK'
<1>1. rqdata' \in Builds
  BY SameBuild DEF TypeOK
<1> QED
  BY <1>1, QueueTypeStep, ControlTypeStep, ClockTypeStep
     DEF TypeOK, QueueType, ControlType, ClockType, StatsType

-----------------------------------------------------------------------------
(* The state machine's invariant is kept *)

LEMMA NothingActive ==
    ASSUME IInv PROVE stats.active = 0 <=> build_pids = {}
<1>1. IsFiniteSet(build_pids)
  BY TasksFinite DEF IInv, TypeOK
<1> QED
  BY <1>1, FS_EmptySet DEF IInv, StatsCounted

LEMMA ControlStep ==
    ASSUME IInv, [Next]_vars PROVE ControlInv'
<1> USE SameBuild, NothingActive DEF IInv, TypeOK, ControlInv, Final
<1>1. ASSUME NEW next \in {"exec", "disk", "return"}, finish(next),
             rqexe # "none", pc \notin {"kill", "reap", "done"},
             UNCHANGED aborted
      PROVE  ControlInv'
  <2>1. CASE stats.active = 0
    BY <1>1, <2>1 DEF finish, FinalState
  <2>2. CASE stats.active > 0 /\ \E t \in T : Collect(t, "CleanUp")
    <3>1. state' = "CleanUp" /\ build_pids' \subseteq build_pids
      BY <2>2 DEF Collect, AfterFailure
    <3>2. rqexe' = rqexe /\ pc' \in {"idle", "exec", "disk", "return"}
      BY <1>1, <2>2 DEF finish, process_waitpid
    <3>3. rqexe \notin {"none", "dummy"}
      BY <2>2
    <3> QED
      BY <1>1, <3>1, <3>2, <3>3
  <2>3. CASE stats.active > 0 /\ state' = "CleanUp" /\ build_pids' = build_pids
    BY <1>1, <2>3 DEF finish, process_waitpid
  <2> QED
    BY <1>1, <2>1, <2>2, <2>3 DEF finish, process_waitpid
<1>2. CASE UNCHANGED vars \/ Terminated \/ Request
  BY <1>2 DEF vars, ctl, server, Terminated, Request
<1>3. CASE IdleShutdown \/ DiskStop \/ CleanUp
  <2>1. rqexe # "none"
    BY <1>3 DEF IdleShutdown, DiskStop, CleanUp
  <2> QED
    BY <1>1, <1>3, <2>1 DEF IdleShutdown, DiskStop, CleanUp
<1>4. CASE IdleCall \/ IdleStop \/ EnterExec \/ DiskAbort \/ DiskChecked
             \/ NothingToRun \/ Return
  BY <1>4 DEF IdleCall, IdleStop, EnterExec, DiskAbort, DiskChecked,
              NothingToRun, Return, finish_now, server
<1>5. CASE Prepare \/ dump_signatures
  BY <1>5 DEF Prepare, dump_signatures, ctl
<1>6. CASE SceneDone \/ TasksDone \/ FinishedNow
  BY <1>6 DEF SceneDone, SceneFinished, TasksDone, FinishedNow, FinalState
<1>7. CASE SceneInit
  BY <1>7 DEF SceneInit, NewExecuteScenequeue, NoSetscene,
              WithoutHashcheck, WithHashcheck, Initialised
<1>8. CASE RunInit
  BY <1>8 DEF RunInit, NewExecuteTasks, ctl
<1>9. CASE KillWorker \/ ReapWorker
  BY <1>9 DEF KillWorker, ReapWorker, server
<1>10. CASE CollectWorker
  <2>1. state \in {"SceneRun", "Running"} /\ pc' \in {"idle", "end"}
    BY <1>10 DEF CollectWorker, process_waitpid
  <2>2. /\ rqexe' = rqexe /\ build_pids' \subseteq build_pids
        /\ state' \in {state, "CleanUp"}
    BY <1>10 DEF CollectWorker, process_waitpid, Collect, AfterFailure
  <2>3. ASSUME rqexe = "tasks", rqdata.abort, failed_fnids' # failed_fnids
        PROVE  state' = "CleanUp"
    BY <1>10, <2>3 DEF CollectWorker, process_waitpid, Collect, AfterFailure,
          task_complete, task_fail, tasks_complete
  <2> QED
    BY <2>1, <2>2, <2>3
<1>11. CASE TasksExecute
  BY <1>11 DEF TasksExecute, SkipTask, NoexecTask, ForkTask, RoomLeft, tasks_skip,
               server
<1>12. CASE SceneExecute
  BY <1>12 DEF SceneExecute, SceneFailOutright, SceneSkip, SceneFork, RoomLeft,
               server
<1>13. CASE \E t \in T : WorkerStep(t)
  BY <1>13 DEF WorkerStep, WorkerSetpgid, WorkerStamp, WorkerExit, WorkerFail,
               server, ctl
<1> QED
  BY <1>2, <1>3, <1>4, <1>5, <1>6, <1>7, <1>8, <1>9, <1>10, <1>11, <1>12, <1>13
     DEF Next, ServerStep

-----------------------------------------------------------------------------
(* The workers' and the tasks' invariants are kept *)

LEMMA WorkerInvStep ==
    ASSUME IInv, [Next]_vars PROVE WorkerInv'
<1> USE SameBuild DEF IInv, TypeOK, WorkerInv, Children
<1>1. S \subseteq T
  BY BuildFacts
<1>2. CASE Untouched
  BY <1>2 DEF Untouched, marks
<1>3. CASE Prepare
  BY <1>3 DEF Prepare, marks
<1>4. CASE SceneInit
  BY <1>4 DEF SceneInit, NewExecuteScenequeue, NoSetscene, WithoutHashcheck,
              WithHashcheck, Initialised, ControlInv, marks
<1>5. CASE RunInit
  BY <1>5 DEF RunInit, NewExecuteTasks, ControlInv
<1>6. ASSUME NEW t \in T, TaskStep(t) PROVE WorkerInv'
  BY <1>6 DEF TaskStep, SkipTask, NoexecTask, ForkTask, tasks_skip, fork_off_task,
              tasks_completeoutright
<1>7. ASSUME NEW t \in S, SceneStep(t) PROVE WorkerInv'
  BY <1>1, <1>7 DEF SceneStep, SceneFailOutright, SceneSkip, SceneFork,
              fork_off_task
<1>8. ASSUME NEW t \in T, Collects(t) PROVE WorkerInv'
  BY <1>8 DEF Collects, Collect, task_complete, task_fail, tasks_complete,
              tasks_fail, tasks_completeoutright, scene_complete, scene_fail, marks
<1> QED
  BY <1>2, <1>3, <1>4, <1>5, <1>6, <1>7, <1>8, StepKinds

LEMMA TasksInvStep ==
    ASSUME IInv, [Next]_vars PROVE TasksInv'
<1> USE SameBuild DEF IInv, TypeOK, TasksInv
<1>1. rqdata.depends \in [T -> SUBSET T]
  BY BuildFacts
<1>2. CASE Untouched
  <2>1. FailedTasks' = FailedTasks
    BY <1>2 DEF Untouched, marks, FailedTasks
  <2> QED
    BY <1>2, <2>1 DEF Untouched, marks
<1>3. CASE Prepare
  BY <1>3 DEF Prepare
<1>4. CASE SceneInit
  BY <1>4 DEF SceneInit, NewExecuteScenequeue
<1>5. CASE RunInit
  <2>1. FailedTasks' = {}
    BY <1>5 DEF RunInit, NewExecuteTasks, FailedTasks
  <2> QED
    BY <1>1, <1>5, <2>1 DEF RunInit, NewExecuteTasks
<1>6. ASSUME NEW t \in T, rqexe = "tasks"
      PROVE  /\ NewlyBuildable(t) \subseteq T
             /\ \A r \in T : r \in runq_buildable \cup NewlyBuildable(t)
                   <=> rqdata.depends[r] \subseteq runq_complete \cup {t}
  <2>1. NewlyBuildable(t) =
          {r \in T : /\ t \in rqdata.depends[r] /\ r \notin runq_running
                     /\ rqdata.depends[r] \subseteq runq_complete \cup {t}}
    BY DEF NewlyBuildable, revdeps
  <2> QED
    BY <1>1, <1>6, <2>1
<1>7. ASSUME NEW t \in T, SkipTask(t) PROVE TasksInv'
  <2>1. FailedTasks' = FailedTasks
    BY <1>7 DEF SkipTask, tasks_skip, Schedulable, FailedTasks
  <2> QED
    BY <1>6, <1>7, <2>1 DEF SkipTask, tasks_skip, Schedulable, WorkerInv
<1>8. ASSUME NEW t \in T, NoexecTask(t) PROVE TasksInv'
  <2>1. FailedTasks' = FailedTasks
    BY <1>8 DEF NoexecTask, Executed, Schedulable, tasks_completeoutright,
          FailedTasks
  <2> QED
    BY <1>6, <1>8, <2>1 DEF NoexecTask, Executed, Schedulable,
          tasks_completeoutright, WorkerInv
<1>9. ASSUME NEW t \in T, ForkTask(t) PROVE TasksInv'
  <2>1. FailedTasks' = FailedTasks
    BY <1>9 DEF ForkTask, Executed, Schedulable, fork_off_task, FailedTasks
  <2> QED
    BY <1>9, <2>1 DEF ForkTask, Executed, Schedulable, fork_off_task,
          build_stamps, WorkerInv
<1>10. ASSUME NEW t \in S, SceneStep(t), state = "SceneRun" PROVE TasksInv'
  BY <1>10 DEF SceneStep, SceneFailOutright, SceneSkip, SceneFork, ControlInv
<1>11. ASSUME NEW t \in T, Collects(t) PROVE TasksInv'
  <2>1. t \in build_pids /\ build_pids' = build_pids \ {t} /\ rqexe' = rqexe
    BY <1>11 DEF Collects, Collect, WorkerInv, Zombies, Zombie, Children
  <2>2. CASE rqexe = "tasks" /\ tasks_complete(t)
    <3>1. FailedTasks' = FailedTasks
      BY <2>1, <2>2 DEF tasks_complete, tasks_completeoutright, FailedTasks
    <3> QED
      BY <1>6, <2>1, <2>2, <3>1 DEF tasks_complete, tasks_completeoutright,
            WorkerInv
  <2>3. CASE rqexe = "tasks" /\ tasks_fail(t)
    <3>1. FailedTasks' \subseteq FailedTasks \cup {t}
      BY <2>1, <2>3 DEF tasks_fail, marks, FailedTasks
    <3> QED
      BY <2>1, <2>3, <3>1 DEF tasks_fail, marks
  <2> QED
    BY <1>11, <2>1, <2>2, <2>3 DEF Collects, Collect, task_complete, task_fail
<1> QED
  BY <1>2, <1>3, <1>4, <1>5, <1>7, <1>8, <1>9, <1>10, <1>11, StepKinds
     DEF TaskStep

LEMMA CollectInvStep ==
    ASSUME IInv, [Next]_vars PROVE CollectInv'
<1> USE SameBuild DEF IInv, TypeOK, CollectInv, ControlInv
<1>1. ASSUME NEW next \in {"exec", "disk", "return"}, finish(next)
      PROVE  pc' # "collect"
  BY <1>1 DEF finish, process_waitpid
<1>2. CASE IdleShutdown \/ DiskStop \/ CleanUp
  BY <1>1, <1>2 DEF IdleShutdown, DiskStop, CleanUp
<1>3. CASE UNCHANGED vars
  BY <1>3 DEF vars, ctl, server, marks
<1>4. CASE \/ Terminated \/ Request \/ IdleCall \/ IdleStop \/ EnterExec
           \/ DiskAbort \/ DiskChecked \/ NothingToRun \/ Return \/ Prepare
           \/ dump_signatures \/ SceneDone \/ TasksDone \/ FinishedNow
           \/ SceneInit \/ RunInit \/ KillWorker \/ ReapWorker
           \/ CollectWorker
  BY <1>3, <1>4 DEF Terminated, Request, IdleCall, IdleStop, EnterExec,
     DiskAbort, DiskChecked, NothingToRun, Return, Prepare, dump_signatures,
     SceneDone, TasksDone, FinishedNow, SceneInit, RunInit, KillWorker,
     ReapWorker, CollectWorker, finish_now, process_waitpid, ctl
\* A fork that leaves no room has left some worker active.
<1>5. ASSUME pc' = RoomLeft PROVE CollectInv'
  BY <1>5, NumbersAssumption DEF RoomLeft
<1>6. CASE /\ rqexe = "scene" /\ NoSceneSchedulable
           /\ UNCHANGED <<server, proc, clock>>
  BY <1>6, NumbersAssumption DEF NoSceneSchedulable, SceneSchedulable, SceneInv,
     server, marks
<1>7. CASE /\ rqexe = "tasks" /\ NothingSchedulable
           /\ UNCHANGED <<server, proc, clock>>
  <2>1. ASSUME stats.active = 0 PROVE build_stamps = {}
    BY <2>1, NothingActive DEF build_stamps
  <2> QED
    BY <1>7, <2>1, NumbersAssumption DEF NothingSchedulable, Schedulable, server,
       marks
<1>8. CASE TasksExecute
  BY <1>5, <1>7, <1>8 DEF TasksExecute
<1>9. CASE SceneExecute
  BY <1>5, <1>6, <1>9 DEF SceneExecute
<1>10. CASE \E t \in T : WorkerStep(t)
  BY <1>10 DEF WorkerStep, WorkerSetpgid, WorkerStamp, WorkerExit, WorkerFail,
              server, marks, ctl
<1> QED
  BY <1>2, <1>3, <1>4, <1>8, <1>9, <1>10 DEF Next, ServerStep

LEMMA SceneInvStep ==
    ASSUME IInv, [Next]_vars PROVE SceneInv'
<1> USE SameBuild DEF IInv, TypeOK, SceneInv, Processed
<1>1. S \subseteq T /\ rqdata.sq_revdeps \in [S -> SUBSET S]
  BY BuildFacts
<1>2. CASE Untouched
  BY <1>2 DEF Untouched, marks, scene
<1>3. CASE Prepare
  BY <1>3 DEF Prepare
<1>4. CASE SceneInit
  <2>1. CASE NoSetscene
    BY <2>1 DEF NoSetscene
  <2>2. ASSUME NEW skipped \in SUBSET S, NEW failed \in SUBSET S,
               skipped \cap failed = {}, Initialised(skipped, failed)
        PROVE  SceneInv'
    BY <2>2, <1>1 DEF Initialised
  <2>3. CASE WithoutHashcheck
    BY <2>2, <2>3 DEF WithoutHashcheck
  <2>4. CASE WithHashcheck
    <3> DEFINE noexec == S \cap rqdata.noexec
               present == {t \in S \ noexec : sstamps[t] # 0}
    <3>1. PICK valid \in SUBSET (S \ (noexec \cup present)) :
             Initialised(noexec \cup present,
                         S \ (noexec \cup present \cup valid))
      BY <2>4, Zenon DEF WithHashcheck
    <3> HIDE DEF noexec, present
    <3>2. noexec \cup present \subseteq S
      BY DEF noexec, present
    <3> DEFINE failed == S \ (noexec \cup present \cup valid)
    <3>3. failed \subseteq S /\ (noexec \cup present) \cap failed = {}
      OBVIOUS
    <3>4. Initialised(noexec \cup present, failed)
      BY <3>1
    <3> HIDE DEF failed
    <3> QED
      BY <2>2, <3>2, <3>3, <3>4
  <2> QED
    BY <1>4, <2>1, <2>3, <2>4 DEF SceneInit, NewExecuteScenequeue
<1>5. CASE RunInit
  BY <1>5 DEF RunInit, NewExecuteTasks
<1>6. ASSUME NEW t \in T, TaskStep(t), state = "Running" PROVE SceneInv'
  BY <1>6 DEF TaskStep, SkipTask, NoexecTask, ForkTask, ControlInv
\* An outcome for t makes exactly the right tasks buildable.
<1>7. ASSUME NEW t \in S
      PROVE  Unblocked({t}) = {u \in S : rqdata.sq_revdeps[u] \subseteq Processed \cup {t}}
  BY DEF Unblocked, sq_revdeps2
<1>8. ASSUME NEW t \in S, SceneStep(t), rqexe = "scene" PROVE SceneInv'
  <2>1. t \in runq_buildable \ runq_running
    BY <1>8 DEF SceneStep, SceneFailOutright, SceneSkip, SceneFork, SceneSchedulable
  <2>2. CASE SceneFailOutright(t)
    BY <1>7, <1>8, <2>1, <2>2 DEF SceneFailOutright, scene_updatecounters, WorkerInv
  <2>3. CASE SceneSkip(t)
    BY <1>7, <1>8, <2>1, <2>3 DEF SceneSkip, scene_updatecounters, WorkerInv
  <2>4. CASE SceneFork(t)
    BY <1>8, <2>1, <2>4 DEF SceneFork, fork_off_task, scene, WorkerInv
  <2> QED
    BY <1>8, <2>2, <2>3, <2>4 DEF SceneStep
<1>9. ASSUME NEW t \in T, Collects(t) PROVE SceneInv'
  <2>1. t \in build_pids /\ build_pids' = build_pids \ {t} /\ rqexe' = rqexe
    BY <1>9 DEF Collects, Collect, WorkerInv, Zombies, Zombie, Children
  <2>2. rqexe = "scene" => t \in S
    BY <2>1
  <2>3. CASE rqexe = "scene" /\ scene_complete(t)
    BY <1>7, <2>1, <2>2, <2>3 DEF scene_complete, scene_updatecounters, WorkerInv
  <2>4. CASE rqexe = "scene" /\ scene_fail(t)
    BY <1>7, <2>1, <2>2, <2>4 DEF scene_fail, scene_updatecounters, WorkerInv
  <2> QED
    BY <1>9, <2>1, <2>3, <2>4 DEF Collects, Collect, task_complete, task_fail
<1> QED
  BY <1>2, <1>3, <1>4, <1>5, <1>6, <1>8, <1>9, StepKinds DEF ControlInv

LEMMA ContinueStep ==
    ASSUME IInv, [Next]_vars PROVE ContinueInv'
<1> USE SameBuild DEF IInv, TypeOK, ContinueInv, ControlInv, Undisturbed, InTasks, Final
<1>1. CASE UNCHANGED vars \/ Terminated \/ Request
  BY <1>1, EnvironmentAssumption DEF vars, ctl, server, marks, Terminated, Request
<1>2. CASE IdleShutdown \/ DiskStop
  BY <1>2 DEF IdleShutdown, DiskStop
<1>3. CASE IdleStop \/ DiskAbort
  BY <1>3 DEF IdleStop, DiskAbort, finish_now
<1>4. CASE CleanUp
  BY <1>4 DEF CleanUp, finish
<1>5. CASE IdleCall \/ EnterExec \/ DiskChecked \/ NothingToRun \/ Return
             \/ KillWorker \/ ReapWorker
  BY <1>5 DEF IdleCall, EnterExec, DiskChecked, NothingToRun, Return,
              KillWorker, ReapWorker, server, marks
<1>6. CASE Prepare \/ dump_signatures \/ SceneDone \/ FinishedNow
  BY <1>6 DEF Prepare, dump_signatures, SceneDone, SceneFinished, FinishedNow, ctl
<1>7. CASE TasksDone
  BY <1>7, NothingActive DEF TasksDone, FinalState, CollectInv, marks
<1>8. CASE SceneInit \/ RunInit
  BY <1>8 DEF SceneInit, NewExecuteScenequeue, RunInit, NewExecuteTasks, ctl
<1>9. CASE CollectWorker
  <2>1. rqexe = "tasks" /\ ~rqdata.abort => state' = state
    BY <1>9 DEF CollectWorker, process_waitpid, Collect, AfterFailure
  <2> QED
    BY <1>9, <2>1 DEF CollectWorker
<1>10. CASE TasksExecute
  BY <1>10 DEF TasksExecute, SkipTask, NoexecTask, ForkTask, server
<1>11. CASE SceneExecute
  BY <1>11 DEF SceneExecute, SceneFailOutright, SceneSkip, SceneFork, server
<1>12. CASE \E t \in T : WorkerStep(t)
  BY <1>12 DEF WorkerStep, WorkerSetpgid, WorkerStamp, WorkerExit, WorkerFail,
               server, marks, ctl
<1> QED
  BY <1>1, <1>2, <1>3, <1>4, <1>5, <1>6, <1>7, <1>8, <1>9, <1>10, <1>11, <1>12
     DEF Next, ServerStep

-----------------------------------------------------------------------------
(* The statistics are kept *)

LEMMA StatsStep ==
    ASSUME IInv, [Next]_vars PROVE StatsCounted'
<1> USE SameBuild DEF IInv, TypeOK, InTasks
<1>1. stats \in StatsType
  BY DEF StatsType
<1>2. S \subseteq T
  BY BuildFacts
<1>3. Cardinality({}) = 0
  BY FS_EmptySet
<1> USE <1>1, <1>2, <1>3, StatsValues DEF StatsCounted
<1>4. CASE Untouched
  BY <1>4 DEF Untouched, marks, scene, Processed, FailedTasks
<1>5. CASE Prepare
  BY <1>5 DEF Prepare, marks
<1>6. CASE SceneInit
  <2>1. CASE NoSetscene
    BY <1>6, <2>1 DEF NoSetscene, ControlInv, SceneInit, NewExecuteScenequeue,
          Processed, NewStats
  <2>2. ASSUME NEW skipped \in SUBSET S, NEW failed \in SUBSET S,
               Initialised(skipped, failed), rqexe' = "scene"
        PROVE  StatsCounted'
    <3>1. Cardinality(skipped \cup failed) \in Int
      BY TasksFinite
    <3>2. /\ stats'.active = 0 /\ stats'.failed = 0
          /\ stats'.completed = Cardinality(skipped \cup failed)
      BY <2>2, <3>1, StatsStart DEF Initialised
    <3>3. Processed' = skipped \cup failed /\ build_pids' = {}
      BY <2>2 DEF Initialised, Processed
    <3> QED
      BY <2>2, <3>1, <3>2, <3>3, NumbersAssumption
  <2>3. CASE WithoutHashcheck
    BY <1>6, <2>2, <2>3 DEF WithoutHashcheck, SceneInit, NewExecuteScenequeue
  <2>4. CASE WithHashcheck
    <3> DEFINE noexec == S \cap rqdata.noexec
               present == {t \in S \ noexec : sstamps[t] # 0}
    <3>1. PICK valid \in SUBSET (S \ (noexec \cup present)) :
             Initialised(noexec \cup present,
                         S \ (noexec \cup present \cup valid))
      BY <2>4, Zenon DEF WithHashcheck
    <3>2. rqexe' = "scene"
      BY <1>6 DEF SceneInit, NewExecuteScenequeue
    <3> HIDE DEF noexec, present
    <3>3. noexec \cup present \subseteq S
      BY DEF noexec, present
    <3> DEFINE failed == S \ (noexec \cup present \cup valid)
    <3>4. failed \subseteq S /\ Initialised(noexec \cup present, failed)
      BY <3>1
    <3> HIDE DEF failed
    <3> QED
      BY <2>2, <3>2, <3>3, <3>4
  <2> QED
    BY <1>6, <2>1, <2>3, <2>4 DEF SceneInit, NewExecuteScenequeue
<1>7. CASE RunInit
  <2>1. FailedTasks' = {} /\ runq_complete' = {} /\ build_pids' = {}
    BY <1>7 DEF RunInit, NewExecuteTasks, FailedTasks
  <2> QED
    BY <1>7, <2>1, NumbersAssumption DEF RunInit, NewExecuteTasks, NewStats
<1>8. ASSUME NEW t \in T, SkipTask(t), state = "Running" PROVE StatsCounted'
  <2>1. t \notin runq_complete
    BY <1>8 DEF SkipTask, Schedulable, TasksInv, ControlInv
  <2>2. FailedTasks' = FailedTasks
    BY <1>8, <2>1 DEF SkipTask, Schedulable, tasks_skip, FailedTasks
  <2> QED
    BY <1>8, <2>1, <2>2, Counting DEF SkipTask, tasks_skip, ControlInv
<1>9. ASSUME NEW t \in T, NoexecTask(t), state = "Running" PROVE StatsCounted'
  <2>1. t \notin runq_complete
    BY <1>9 DEF NoexecTask, Executed, Schedulable, TasksInv, ControlInv
  <2>2. FailedTasks' = FailedTasks
    BY <1>9, <2>1 DEF NoexecTask, Executed, Schedulable, FailedTasks,
          tasks_completeoutright
  <2>3. /\ stats'.active = stats.active /\ stats'.failed = stats.failed
        /\ stats'.completed = stats.completed + 1
    BY <1>9, StatsTypes DEF NoexecTask, StatsType
  <2> QED
    BY <1>9, <2>1, <2>2, <2>3, Counting DEF NoexecTask, tasks_completeoutright,
          ControlInv
<1>10. ASSUME NEW t \in T, ForkTask(t), state = "Running" PROVE StatsCounted'
  <2>1. t \notin build_pids
    BY <1>10 DEF ForkTask, Executed, Schedulable, WorkerInv
  <2>2. FailedTasks' = FailedTasks
    BY <1>10 DEF ForkTask, Executed, Schedulable, fork_off_task, FailedTasks
  <2>3. stats.active < NumberTasks
    BY <1>10 DEF ForkTask, Executed, Schedulable
  <2> QED
    BY <1>10, <2>1, <2>2, <2>3, Counting, NumbersAssumption
       DEF ForkTask, fork_off_task, ControlInv
<1>11. ASSUME NEW t \in S, SceneStep(t), state = "SceneRun" PROVE StatsCounted'
  <2>1. t \notin Processed /\ t \notin build_pids
    BY <1>11 DEF SceneStep, SceneFailOutright, SceneSkip, SceneFork,
          SceneSchedulable, ControlInv, SceneInv, WorkerInv
  <2>2. CASE SceneFailOutright(t) \/ SceneSkip(t)
    <3>1. Processed' = Processed \cup {t}
      BY <2>2 DEF SceneFailOutright, SceneSkip, Processed
    <3>2. Processed \subseteq T
      BY DEF Processed
    <3> QED
      BY <1>11, <2>1, <2>2, <3>1, <3>2, Counting
         DEF SceneFailOutright, SceneSkip, scene_outright, ControlInv
  <2>3. CASE SceneFork(t)
    <3>1. Processed' = Processed /\ stats.active < NumberTasks
      BY <2>3 DEF SceneFork, SceneSchedulable, Processed, scene
    <3> QED
      BY <1>11, <2>1, <2>3, <3>1, Counting, NumbersAssumption
         DEF SceneFork, fork_off_task, ControlInv
  <2> QED
    BY <1>11, <2>2, <2>3 DEF SceneStep
<1>12. ASSUME NEW t \in T, Collects(t) PROVE StatsCounted'
  <2>1. t \in build_pids /\ build_pids' = build_pids \ {t} /\ rqexe' = rqexe
    BY <1>12 DEF Collects, Collect, WorkerInv, Zombies, Zombie, Children
  <2>2. Cardinality(build_pids') = Cardinality(build_pids) - 1
    BY <2>1, Counting
  <2>3. CASE rqexe = "tasks" /\ tasks_complete(t)
    <3>1. t \notin runq_complete /\ runq_complete' = runq_complete \cup {t}
      BY <2>1, <2>3 DEF TasksInv, tasks_complete, tasks_completeoutright
    <3>2. FailedTasks' = FailedTasks
      BY <2>1, <2>3, <3>1 DEF tasks_complete, FailedTasks
    <3> QED
      BY <2>1, <2>2, <2>3, <3>1, <3>2, Counting, NumbersAssumption DEF tasks_complete
  <2>4. CASE rqexe = "tasks" /\ tasks_fail(t)
    <3>1. t \notin FailedTasks /\ FailedTasks' = FailedTasks \cup {t}
      BY <2>1, <2>4 DEF TasksInv, WorkerInv, tasks_fail, marks, FailedTasks
    <3>2. FailedTasks \subseteq T
      BY DEF FailedTasks
    <3> QED
      BY <2>1, <2>2, <2>4, <3>1, <3>2, Counting, NumbersAssumption
         DEF tasks_fail, marks
  <2>5. CASE rqexe = "scene" /\ (scene_complete(t) \/ scene_fail(t))
    <3>1. t \notin Processed /\ Processed' = Processed \cup {t}
      BY <2>1, <2>5 DEF SceneInv, scene_complete, scene_fail, Processed
    <3>2. Processed \subseteq T
      BY DEF Processed
    <3>3. /\ stats.active \in Int /\ stats.completed \in Int /\ stats.failed \in Int
      BY <1>1 DEF StatsType
    <3>4. /\ stats'.active = stats.active - 1
          /\ stats'.completed + stats'.failed
               = stats.completed + stats.failed + 1
      BY <2>5, <3>3 DEF scene_complete, scene_fail
    <3>5. Cardinality(Processed') = Cardinality(Processed) + 1
      BY <3>1, <3>2, Counting
    <3>6. stats'.active <= NumberTasks
      BY <3>3, <3>4, NumbersAssumption
    <3> QED
      BY <2>1, <2>2, <2>5, <3>4, <3>5, <3>6
  <2> QED
    BY <1>12, <2>3, <2>4, <2>5 DEF Collects, Collect, task_complete, task_fail
<1> QED
  BY <1>4, <1>5, <1>6, <1>7, <1>8, <1>9, <1>10, <1>11, <1>12, StepKinds
     DEF TaskStep

-----------------------------------------------------------------------------
(* The invariant, and what follows from it *)

LEMMA StepIInv ==
    ASSUME IInv, [Next]_vars PROVE IInv'
<1>1. TypeOK'
  BY TypeStep DEF IInv
<1> QED
  BY <1>1, ControlStep, WorkerInvStep, TasksInvStep, CollectInvStep,
     SceneInvStep, ContinueStep, StatsStep
     DEF IInv

\* IInv is an invariant: whatever the build, the number of threads, the disks
\* and the requests, the marks, the statistics and the workers agree.
THEOREM Invariance == Spec => []IInv
<1>1. Init => IInv
  BY InitIInv
<1>2. IInv /\ [Next]_vars => IInv'
  BY StepIInv
<1> QED
  BY <1>1, <1>2, PTL DEF Spec

\* Every variable has its type.
THEOREM TypeCorrect == Spec => []TypeOK
<1>1. IInv => TypeOK
  BY DEF IInv
<1> QED
  BY <1>1, Invariance, PTL

\* A task is only started, or skipped, when all it depends on is complete.
THEOREM Dependencies == Spec => []DependenciesFirst
<1>1. IInv => DependenciesFirst
  BY DEF IInv, TypeOK, TasksInv, DependenciesFirst, InTasks
<1> QED
  BY <1>1, Invariance, PTL

\* Two workers that would write the same stamp file never run together.
THEOREM Exclusion == Spec => []StampExclusive
<1>1. ASSUME IInv PROVE StampExclusive
  <2>1. ASSUME NEW t \in T, proc[t] \in Alive PROVE t \in build_pids
    BY <1>1, <2>1 DEF IInv, WorkerInv, Children, Alive
  <2> QED
    BY <1>1, <2>1 DEF IInv, TasksInv, StampExclusive, InTasks
<1> QED
  BY <1>1, Invariance, PTL

\* RunQueueStats counts the workers and the outcomes, and no more workers are
\* active than BB_NUMBER_THREADS allows.
THEOREM Counted == Spec => []StatsCounted
<1>1. IInv => StatsCounted
  BY DEF IInv
<1> QED
  BY <1>1, Invariance, PTL

\* A setscene task is only forked when an outcome is known for those that
\* depend on it.
THEOREM SceneOrdered == Spec => []SceneOrder
<1>1. IInv => SceneOrder
  BY DEF IInv, SceneInv, SceneOrder
<1> QED
  BY <1>1, Invariance, PTL

\* A build that nobody aborted has collected every worker when it ends.
THEOREM Collected == Spec => []WorkersCollected
<1>1. IInv => WorkersCollected
  BY DEF IInv, ControlInv, WorkerInv, WorkersCollected
<1> QED
  BY <1>1, Invariance, PTL

\* When the setscene tasks are over, an outcome is known for each of them.
THEOREM SceneOutcomes == Spec => []SceneNeverStuck
<1>1. ASSUME IInv, pc = "collect", rqexe = "scene", stats.active = 0
      PROVE  Processed = S
  <2> DEFINE X == S \ Processed
  <2> USE <1>1 DEF IInv, TypeOK, SceneInv
  <2>1. build_pids = {} /\ runq_buildable \subseteq Processed
    BY NothingActive DEF CollectInv
  <2>2. CASE X # {}
    <3>0. \A Y \in SUBSET S : Y # {} => \E t \in Y : rqdata.sq_revdeps[t] \cap Y = {}
      BY BuildsAssumption DEF AcyclicScene, S
    <3>1. PICK t \in X : rqdata.sq_revdeps[t] \cap X = {}
      BY <2>2, <3>0
    <3>2. rqdata.sq_revdeps[t] \subseteq Processed
      BY <3>1, BuildFacts
    <3> QED
      BY <2>1, <3>1, <3>2
  <2> QED
    BY <2>2
<1>2. IInv => SceneNeverStuck
  BY <1>1 DEF SceneNeverStuck
<1> QED
  BY <1>2, Invariance, PTL

\* In an acyclic graph some incomplete task would be buildable, hence running.
LEMMA Stuck ==
    ASSUME IInv PROVE NeverStuck
<1> SUFFICES ASSUME pc = "collect", InTasks, stats.active = 0, failed_fnids = {}
             PROVE  runq_complete = T
  BY DEF NeverStuck
<1> DEFINE X == T \ runq_complete
<1> USE DEF IInv, TypeOK, InTasks
<1>1. FailedTasks = {} /\ build_pids = {}
  BY NothingActive DEF TasksInv
<1>2. runq_buildable \subseteq runq_complete
  BY <1>1 DEF CollectInv, FailedTasks
<1>3. CASE X # {}
  <2>0. \A Y \in SUBSET T : Y # {} => \E t \in Y : rqdata.depends[t] \cap Y = {}
    BY BuildsAssumption DEF Acyclic, T
  <2>1. PICK t \in X : rqdata.depends[t] \cap X = {}
    BY <1>3, <2>0
  <2>2. rqdata.depends[t] \subseteq runq_complete
    BY <2>1, BuildFacts
  <2> QED
    BY <1>2, <2>1, <2>2 DEF TasksInv
<1>4. runq_complete \subseteq T
  OBVIOUS
<1> QED
  BY <1>3, <1>4

\* When nothing is active and nothing failed, every task is complete.
THEOREM SanityChecks == Spec => []NeverStuck
<1>1. IInv => NeverStuck
  BY Stuck
<1> QED
  BY <1>1, Invariance, PTL

\* Upstream is closed under dependencies.
LEMMA UpstreamClosed ==
    ASSUME rqdata \in Builds, NEW t \in T
    PROVE  /\ t \in Upstream(t)
           /\ Upstream(t) \subseteq T
           /\ \A u \in Upstream(t) : rqdata.depends[u] \subseteq Upstream(t)
  BY BuildFacts DEF Upstream

\* It is the smallest such set.
LEMMA UpstreamLeast ==
    ASSUME NEW X \in SUBSET T, NEW t \in X,
           \A u \in X : rqdata.depends[u] \subseteq X
    PROVE  Upstream(t) \subseteq X
  BY DEF Upstream

\* The processes of a task and of one it depends on, however indirectly, never
\* run at the same time: what depends on a complete task is complete.
THEOREM Overlap == Spec => []NoOverlap
<1>1. ASSUME IInv, InTasks, NEW t \in T, proc[t] \in Alive, NEW d \in Upstream(t) \ {t}
      PROVE  proc[d] \notin Alive
  <2> USE <1>1 DEF IInv, TypeOK, TasksInv, InTasks, WorkerInv
  <2>1. t \in build_pids
    BY DEF Children, Alive
  <2> DEFINE X == runq_complete \cup {t}
  <2>2. \A u \in X : rqdata.depends[u] \subseteq X
    BY <2>1
  <2>3. d \in runq_complete
    <3>1. X \in SUBSET T /\ t \in X
      OBVIOUS
    <3>2. Upstream(t) \subseteq X
      BY <2>2, <3>1, UpstreamLeast
    <3> QED
      BY <3>2
  <2>4. d \in T /\ d \notin build_pids
    BY <2>3
  <2> QED
    BY <2>4 DEF Children, Alive
<1>2. IInv => NoOverlap
  BY <1>1 DEF NoOverlap
<1> QED
  BY <1>2, Invariance, PTL

\* With -k, the tasks that are complete at the end are those that depend on no
\* failed task: nothing else is held back, and nothing runs behind a failure.
THEOREM Containment == Spec => []FailureContained
<1>1. ASSUME IInv, pc = "done", InTasks, Undisturbed, ~rqdata.abort, NEW t \in T
      PROVE  t \in runq_complete <=> Upstream(t) \cap FailedTasks = {}
  <2> USE <1>1 DEF IInv, TypeOK, TasksInv, InTasks
  <2>1. runq_buildable \subseteq runq_running /\ build_pids = {}
    BY DEF ContinueInv, ControlInv
  <2>2. ASSUME t \in runq_complete PROVE Upstream(t) \cap FailedTasks = {}
    <3>1. \A u \in runq_complete : rqdata.depends[u] \subseteq runq_complete
      OBVIOUS
    <3> QED
      BY <2>2, <3>1, UpstreamLeast DEF FailedTasks
  <2>3. ASSUME Upstream(t) \cap FailedTasks = {}, t \notin runq_complete PROVE FALSE
    <3> DEFINE X == Upstream(t) \ runq_complete
    <3>1. X # {} /\ X \in SUBSET T
      BY <2>3, UpstreamClosed
    <3>2. \A Y \in SUBSET T : Y # {} => \E u \in Y : rqdata.depends[u] \cap Y = {}
      BY BuildsAssumption DEF Acyclic, T
    <3>3. PICK u \in X : rqdata.depends[u] \cap X = {}
      BY <3>1, <3>2
    <3>4. u \in T /\ rqdata.depends[u] \subseteq Upstream(t)
      BY <3>3, UpstreamClosed
    <3>5. u \in runq_running
      BY <2>1, <3>3, <3>4
    <3>6. u \in FailedTasks
      BY <2>1, <3>3, <3>5 DEF FailedTasks
    <3> QED
      BY <2>3, <3>3, <3>6
  <2> QED
    BY <2>2, <2>3
<1>2. IInv => FailureContained
  <2>1. IInv => runq_complete \subseteq T
    BY DEF IInv, TypeOK
  <2> QED
    BY <1>1, <2>1 DEF FailureContained
<1> QED
  BY <1>2, Invariance, PTL

\* Once a build is being stopped, or a task has failed without -k, no task is
\* started and the build does not run again.
THEOREM Stopped == Spec => StoppedForGood
<1> DEFINE Stop == \/ state \in {"CleanUp"} \cup Final
                   \/ InTasks /\ rqdata.abort /\ failed_fnids # {}
           Quiet == /\ build_pids' \subseteq build_pids /\ ran' = ran
                    /\ state' \in {"CleanUp"} \cup Final
<1>1. ASSUME IInv, [Next]_vars, Stop PROVE Quiet
  <2>1. state \in {"CleanUp", "Complete", "Failed"}
    BY <1>1 DEF IInv, ControlInv, InTasks, Final
  <2> USE <2>1 DEF Final
  <2>2. ASSUME NEW next, finish(next) PROVE Quiet
    BY <2>2 DEF finish, process_waitpid, Collect, FinalState, AfterFailure
  <2>3. CASE IdleShutdown \/ DiskStop \/ CleanUp
    BY <2>2, <2>3 DEF IdleShutdown, DiskStop, CleanUp
  <2>4. CASE UNCHANGED server
    BY <2>4 DEF server
  <2>5. CASE \E t \in T : WorkerStep(t)
    BY <2>4, <2>5 DEF WorkerStep, WorkerSetpgid, WorkerStamp, WorkerExit,
          WorkerFail
  <2>6. CASE CollectWorker \/ SceneDone
    BY <1>1, <2>6 DEF IInv, ControlInv, CollectWorker, SceneDone
  <2>7. CASE TasksDone \/ FinishedNow
    BY <2>7 DEF TasksDone, FinishedNow, FinalState
  <2> QED
    BY <1>1, <2>3, <2>4, <2>5, <2>6, <2>7
       DEF Next, ServerStep, vars, Terminated, Request, IdleCall, IdleStop,
           Prepare, SceneInit, dump_signatures, EnterExec, DiskAbort,
           DiskChecked, SceneExecute, RunInit, TasksExecute, NothingToRun,
           Return, KillWorker, ReapWorker, finish_now
<1>2. IInv /\ [Next]_vars => [Stop => Quiet]_vars
  BY <1>1
<1> QED
  BY <1>2, Invariance, PTL DEF Spec, StoppedForGood

-----------------------------------------------------------------------------
(* RunQueue implements BuildOrder *)

LEMMA OrderInit == Init => Order!Init
  BY DEF Init, Order!Init, Order!Tasks, taskStatus, T

\* BuildOrder counts as RunQueue does.
LEMMA SameCardinality == \A X : Order!Cardinality(X) = Cardinality(X)
  BY Zenon DEF Order!Cardinality, Cardinality

\* The workers that are not collected are the tasks that are active.
LEMMA OrderActive ==
    ASSUME IInv, rqexe = "tasks"
    PROVE  Order!Active = build_pids
  BY DEF IInv, TypeOK, WorkerInv, TasksInv, Order!Active, Order!Tasks, taskStatus, T

\* A task that waits and whose dependencies are complete is ready.
LEMMA OrderReady ==
    ASSUME IInv, rqexe = "tasks", NEW t \in T, t \in runq_buildable \ runq_running
    PROVE  Order!Ready(t)
<1>1. rqdata.depends[t] \subseteq T
  BY BuildFacts DEF IInv, TypeOK
<1> QED
  BY <1>1 DEF IInv, TypeOK, TasksInv, Order!Ready, taskStatus

LEMMA OrderStep ==
    ASSUME IInv, [Next]_vars
    PROVE  [Order!Next]_<<rqdata, taskStatus>>
<1> USE SameBuild DEF IInv
<1>1. ASSUME taskStatus' = taskStatus PROVE [Order!Next]_<<rqdata, taskStatus>>
  BY <1>1
\* It is enough that one task changes its status, in a way BuildOrder allows.
<1>2. ASSUME NEW t \in T, NEW s,
             taskStatus' = [taskStatus EXCEPT ![t] = s],
             Order!Becomes(t, s) =>
               Order!Start(t) \/ Order!Skip(t) \/ Order!Finish(t) \/ Order!Fail(t)
      PROVE  Order!Next
  BY <1>2 DEF Order!Becomes, Order!Next, Order!Tasks, T
<1>3. CASE Untouched
  BY <1>1, <1>3 DEF Untouched, marks, taskStatus
<1>4. CASE Prepare \/ SceneInit \/ RunInit
  <2>1. rqexe # "tasks" /\ (rqexe' # "tasks" \/ runq_running' = {})
    BY <1>4 DEF Prepare, SceneInit, NewExecuteScenequeue, RunInit,
          NewExecuteTasks, ControlInv
  <2> QED
    BY <1>1, <2>1 DEF taskStatus
<1>5. ASSUME NEW t \in T, SkipTask(t) \/ NoexecTask(t), state = "Running"
      PROVE  Order!Next
  <2>1. rqexe = "tasks" /\ rqexe' = "tasks" /\ t \in runq_buildable \ runq_running
    BY <1>5 DEF SkipTask, NoexecTask, Executed, Schedulable, ControlInv
  <2>2. /\ runq_running' = runq_running \cup {t}
        /\ runq_complete' = runq_complete \cup {t} /\ build_pids' = build_pids
    BY <1>5 DEF SkipTask, tasks_skip, NoexecTask, tasks_completeoutright
  <2>3. taskStatus' = [taskStatus EXCEPT ![t] = "done"]
    BY <2>1, <2>2 DEF taskStatus
  <2> QED
    BY <1>2, <2>1, <2>3, OrderReady DEF Order!Skip
<1>6. ASSUME NEW t \in T, ForkTask(t), state = "Running" PROVE Order!Next
  <2>1. rqexe = "tasks" /\ rqexe' = "tasks" /\ t \in runq_buildable \ runq_running
    BY <1>6 DEF ForkTask, Executed, Schedulable, ControlInv
  <2>2. /\ runq_running' = runq_running \cup {t}
        /\ runq_complete' = runq_complete /\ build_pids' = build_pids \cup {t}
    BY <1>6 DEF ForkTask, fork_off_task
  <2>3. taskStatus' = [taskStatus EXCEPT ![t] = "active"]
    BY <2>1, <2>2 DEF taskStatus, TasksInv
  <2>4. Order!Cardinality(Order!Active) < NumberTasks
    BY <1>6, <2>1, OrderActive, SameCardinality
       DEF ForkTask, Executed, Schedulable, StatsCounted
  <2>5. \A u \in Order!Active : rqdata.stamp[u] # rqdata.stamp[t]
    BY <1>6, <2>1, OrderActive DEF ForkTask, Executed, Schedulable, build_stamps
  <2>6. Order!Ready(t)
    BY <2>1, OrderReady
  <2>7. Order!Becomes(t, "active") => Order!Start(t)
    BY <2>4, <2>5, <2>6 DEF Order!Start
  <2> QED
    BY <1>2, <2>3, <2>7
<1>7. ASSUME NEW t \in S, SceneStep(t), state = "SceneRun"
      PROVE  taskStatus' = taskStatus
  <2>1. rqexe = "scene" /\ rqexe' = "scene"
    BY <1>7 DEF SceneStep, SceneFailOutright, SceneSkip, SceneFork, ControlInv
  <2> QED
    BY <2>1 DEF taskStatus
<1>8. ASSUME NEW t \in T, Collects(t)
      PROVE  taskStatus' = taskStatus \/ Order!Next
  <2>1. t \in build_pids /\ build_pids' = build_pids \ {t} /\ rqexe' = rqexe
    BY <1>8 DEF Collects, Collect, WorkerInv, Zombies, Zombie, Children
  <2>2. ASSUME rqexe = "tasks" PROVE taskStatus[t] = "active"
    BY <2>1, <2>2 DEF taskStatus, WorkerInv, TasksInv
  <2>3. CASE rqexe = "tasks" /\ tasks_complete(t)
    <3>1. taskStatus' = [taskStatus EXCEPT ![t] = "done"]
      BY <2>1, <2>3 DEF tasks_complete, tasks_completeoutright, taskStatus,
            WorkerInv
    <3> QED
      BY <1>2, <2>2, <2>3, <3>1 DEF Order!Finish
  <2>4. CASE rqexe = "tasks" /\ tasks_fail(t)
    <3>1. taskStatus' = [taskStatus EXCEPT ![t] = "failed"]
      BY <2>1, <2>4 DEF tasks_fail, marks, taskStatus, WorkerInv, TasksInv
    <3> QED
      BY <1>2, <2>2, <2>4, <3>1 DEF Order!Fail
  <2>5. CASE rqexe = "scene"
    BY <2>1, <2>5 DEF taskStatus
  <2> QED
    BY <1>8, <2>3, <2>4, <2>5 DEF Collects, Collect, task_complete, task_fail
<1> QED
  BY <1>1, <1>3, <1>4, <1>5, <1>6, <1>7, <1>8, StepKinds DEF TaskStep, TypeOK

\* Every behaviour of RunQueue is one of BuildOrder: tasks are started in the
\* order of their dependencies, whatever else happens to the build.
THEOREM Implementation == Spec => ImplementsOrder
<1>1. Init => Order!Init
  BY OrderInit
<1>2. IInv /\ [Next]_vars => [Order!Next]_<<rqdata, taskStatus>>
  BY OrderStep
<1> QED
  BY <1>1, <1>2, Invariance, PTL DEF Spec, ImplementsOrder, Order!Spec

-----------------------------------------------------------------------------
(* Stamps: what was executed was stamped later than anything before, what  *)
(* is complete was executed, covered or current, and so a build that       *)
(* succeeds leaves current stamps.                                         *)

Stamped == {"stamped", "ok"}

\* No stamp is from the future, and only setscene tasks have setscene stamps.
ClockInv ==
    /\ \A t \in T \ S : sstamps[t] = 0
    /\ Now <= now
    /\ \A s \in StampNames : stamps[s] <= now
    /\ \A t \in T : sstamps[t] <= now

\* What has become of a complete task, and of one that was covered only because
\* of those that depend on it.
InputsInv ==
    /\ rqexe = "scene" =>
          \A t \in T : t \in covered \/ proc[t] \in Stamped => sstamps[t] # 0
    /\ ran # {} => InTasks
    /\ InTasks =>
        /\ ran \subseteq runq_running
        /\ build_pids \subseteq ran
        /\ ran \cap covered = {}
        /\ \A t \in runq_complete : t \in ran \cup covered \/ stampOf(t) # 0
        /\ \A t \in covered :
              sstamps[t] # 0 \/ \A r \in revdeps(t) : r \in covered \/ TakenBack(r)

-----------------------------------------------------------------------------
(* What a step does to the stamps                                          *)

\* A step that writes no stamp, and completes or starts no task.
Quiet ==
    /\ UNCHANGED <<rqexe, marks, failed_fnids, build_pids, scene, ran, clock>>
    /\ \A t \in T : proc'[t] \in Stamped => proc[t] \in Stamped

\* finish leaves the queue alone, or collects a worker.
LEMMA FinishQuiet ==
    ASSUME NEW next, finish(next), T' = T
    PROVE  Quiet \/ \E t \in T : Collects(t)
<1>1. CASE \E t \in T : Collect(t, "CleanUp")
  BY <1>1 DEF finish, Collects
<1>2. CASE UNCHANGED <<marks, stats, failed_fnids, build_pids, scene, proc>>
  BY <1>2 DEF finish, Quiet
<1> QED
  BY <1>1, <1>2 DEF finish, process_waitpid

\* The steps that matter here: those that write stamps, or start or end a task.
LEMMA StampKinds ==
    ASSUME TypeOK, [Next]_vars
    PROVE  \/ Quiet
           \/ Prepare
           \/ SceneInit
           \/ RunInit
           \/ state = "Running" /\ \E t \in T : TaskStep(t)
           \/ state = "SceneRun" /\ \E t \in S : SceneStep(t)
           \/ \E t \in T : Collects(t)
           \/ \E t \in T : WorkerStamp(t) \/ WorkerExit(t)
<1> USE SameBuild
<1>1. CASE UNCHANGED <<server, proc, clock>>
  BY <1>1 DEF server, Quiet
<1>2. CASE dump_signatures \/ SceneDone \/ TasksDone \/ FinishedNow
  BY <1>2 DEF dump_signatures, SceneDone, SceneFinished, TasksDone, FinishedNow, Quiet
<1>3. CASE IdleShutdown \/ DiskStop \/ CleanUp
  BY <1>3, FinishQuiet DEF IdleShutdown, DiskStop, CleanUp
<1>4. CASE CollectWorker
  BY <1>4 DEF CollectWorker, process_waitpid, Quiet, Collects
<1>5. CASE SceneExecute
  BY <1>1, <1>5 DEF SceneExecute, SceneStep
<1>6. CASE TasksExecute
  BY <1>1, <1>6 DEF TasksExecute, TaskStep
<1>7. CASE KillWorker \/ ReapWorker
  <2>1. UNCHANGED <<server, clock>> /\ \A t \in T : proc'[t] \in Stamped => proc[t] \in Stamped
    BY <1>7 DEF KillWorker, ReapWorker, TypeOK, Stamped
  <2> QED
    BY <2>1 DEF server, Quiet
<1>8. CASE \E t \in T : WorkerStep(t)
  <2> PICK t \in T : WorkerStep(t)
    BY <1>8
  <2>1. CASE WorkerSetpgid(t) \/ WorkerFail(t)
    <3>1. UNCHANGED <<server, clock>> /\ \A u \in T : proc'[u] \in Stamped => proc[u] \in Stamped
      BY <2>1 DEF WorkerSetpgid, WorkerFail, TypeOK, Stamped
    <3> QED
      BY <3>1 DEF server, Quiet
  <2> QED
    BY <2>1 DEF WorkerStep
<1>9. CASE IdleCall \/ IdleStop \/ EnterExec \/ DiskAbort \/ DiskChecked
             \/ NothingToRun \/ Return \/ Request \/ Terminated \/ UNCHANGED vars
  BY <1>1, <1>9 DEF IdleCall, IdleStop, EnterExec, DiskAbort, DiskChecked,
              NothingToRun, Return, Request, Terminated, vars
<1> QED
  BY <1>2, <1>3, <1>4, <1>5, <1>6, <1>7, <1>8, <1>9 DEF Next, ServerStep

\* A worker that was not collected is in build_pids, and works on a setscene task
\* while these run.
LEMMA Working ==
    ASSUME IInv, NEW t \in T, proc[t] # "none"
    PROVE  /\ t \in build_pids
           /\ (rqexe = "scene" /\ t \in S) \/ InTasks
<1>1. t \in build_pids
  BY DEF IInv, WorkerInv, Children
<1>2. rqexe \in {"scene", "tasks"}
  BY <1>1 DEF IInv, TypeOK, ControlInv
<1>3. rqexe = "scene" => t \in S
  BY <1>1 DEF IInv, SceneInv, TypeOK
<1> QED
  BY <1>1, <1>2, <1>3 DEF InTasks

\* What the proofs use of the type invariant and of the build.
LEMMA Types ==
    ASSUME IInv
    PROVE  /\ rqdata \in Builds
           /\ rqdata.depends \in [T -> SUBSET T]
           /\ \A t \in T : rqdata.stamp[t] \in StampNames
           /\ S \subseteq T
           /\ stamps \in [StampNames -> Nat] /\ sstamps \in [T -> Nat] /\ now \in Nat
           /\ proc \in [T -> {"none"} \cup Alive \cup Zombie]
           /\ runq_running \subseteq T /\ runq_complete \subseteq T
           /\ build_pids \subseteq T /\ covered \subseteq T /\ ran \subseteq T
           /\ Now \in Nat /\ Now > 0 /\ OldTime \in Nat /\ OldTime <= Now
  BY BuildFacts, NumbersAssumption DEF IInv, TypeOK, StampNames

-----------------------------------------------------------------------------
(* The clock, and what tasks are executed on                               *)

\* Stamps get the time of the clock, which does not go back.
LEMMA ClockStep ==
    ASSUME IInv, IInv', ClockInv, [Next]_vars PROVE ClockInv'
<1> USE SameBuild, Types DEF ClockInv
<1>1. now' \in Nat
  BY DEF IInv, TypeOK
<1>2. CASE Quiet
  BY <1>2 DEF Quiet, clock
<1>3. CASE Prepare
  BY <1>3 DEF Prepare
<1>4. CASE SceneInit
  <2>1. CASE UNCHANGED clock
    BY <2>1 DEF clock
  <2>2. CASE WithHashcheck
    <3>1. /\ now' \in {now, now + 1} /\ stamps' = stamps
          /\ sstamps' = [t \in T |-> IF t \in S \cap rqdata.noexec THEN now' ELSE sstamps[t]]
      BY <2>2, Zenon DEF WithHashcheck
    <3> QED
      BY <3>1
  <2> QED
    BY <1>4, <2>1, <2>2 DEF SceneInit, NewExecuteScenequeue, NoSetscene, WithoutHashcheck
<1>5. CASE RunInit
  <2> DEFINE removed == covered_remove(CoveredClosure)
  <2>1. /\ now' = now /\ stamps' = stamps
        /\ sstamps' = [t \in T |-> IF t \in removed THEN 0 ELSE sstamps[t]]
    BY <1>5 DEF RunInit, NewExecuteTasks
  <2> QED
    BY <2>1
<1>6. ASSUME NEW t \in T, TaskStep(t) PROVE ClockInv'
  BY <1>6 DEF TaskStep, SkipTask, NoexecTask, ForkTask, make_stamp, clock
<1>7. ASSUME NEW t \in S, SceneStep(t) PROVE ClockInv'
  BY <1>7 DEF SceneStep, SceneFailOutright, SceneSkip, SceneFork, clock
<1>8. ASSUME NEW t \in T, Collects(t) PROVE ClockInv'
  BY <1>8 DEF Collects, clock
<1>9. ASSUME NEW t \in T, WorkerStamp(t) \/ WorkerExit(t) PROVE ClockInv'
  BY <1>9, Working DEF WorkerStamp, WorkerExit, make_stamp, make_setscene_stamp, clock, InTasks
<1> QED
  BY <1>2, <1>3, <1>4, <1>5, <1>6, <1>7, <1>8, <1>9, StampKinds DEF IInv

\* The constructor's closure adds only tasks all whose dependents are covered.
LEMMA ClosureUp ==
    ASSUME covered \subseteq T, NEW t \in CoveredClosure \ covered
    PROVE  revdeps(t) \subseteq CoveredClosure
<1> DEFINE found == CoveredPass
           Candidates == {u \in T : /\ revdeps(u) # {}
                                    /\ \A r \in revdeps(u) : rqdata.fn[r] = rqdata.fn[u]}
           Closed == {c \in SUBSET T :
                        /\ found \subseteq c
                        /\ \A u \in Candidates : revdeps(u) \subseteq c => u \in c}
           F == CoveredClosure
<1>1. F = {u \in T : \A c \in Closed : u \in c}
  BY DEF CoveredClosure
<1>2. found \subseteq F
  <2>1. found \subseteq T
    BY DEF CoveredPass
  <2> HIDE DEF found
  <2> QED
    BY <1>1, <2>1
<1>3. ASSUME t \in found PROVE revdeps(t) \subseteq found
  <2> DEFINE Passed == {c \in SUBSET T : c = covered \cup
                          {u \in T : /\ revdeps(u) # {}
                                     /\ revdeps(u) \subseteq
                                          covered \cup {v \in c : v < u}}}
  <2>1. found = {u \in T : \A c \in Passed : u \in c}
    BY DEF CoveredPass
  <2>2. ASSUME NEW c \in Passed PROVE revdeps(t) \subseteq c
    BY <1>3, <2>1, <2>2
  <2>3. revdeps(t) \subseteq T
    BY DEF revdeps
  <2> HIDE DEF found, Passed
  <2> QED
    BY <2>1, <2>2, <2>3
<1> HIDE DEF found, F
<1>4. ASSUME t \notin found, ~(revdeps(t) \subseteq F) PROVE FALSE
  <2>1. F \in Closed
    BY <1>1, <1>2
  <2>2. F \ {t} \in Closed
    BY <1>2, <1>4, <2>1
  <2>3. t \in F
    BY DEF F
  <2> QED
    BY <1>1, <2>2, <2>3
<1> QED
  BY <1>2, <1>3, <1>4 DEF F

\* What the executor does with the scheduler's choice.
LEMMA TaskEffect ==
    ASSUME IInv, state = "Running", NEW t \in T, TaskStep(t)
    PROVE  /\ InTasks /\ InTasks'
           /\ UNCHANGED <<rqdata, covered, sstamps, failed_fnids>>
           /\ t \notin runq_running /\ runq_running' = runq_running \cup {t}
           /\ rqdata.depends[t] \subseteq runq_complete
           /\ \/ /\ t \in covered \/ check_stamp_task(t)
                 /\ runq_complete' = runq_complete \cup {t}
                 /\ UNCHANGED <<proc, build_pids, ran, clock>>
              \/ /\ t \notin covered /\ ran' = ran \cup {t}
                 /\ runq_complete' = runq_complete \cup {t}
                 /\ make_stamp(t)
                 /\ UNCHANGED <<proc, build_pids>>
              \/ /\ t \notin covered /\ ran' = ran \cup {t}
                 /\ proc' = [proc EXCEPT ![t] = "forked"]
                 /\ build_pids' = build_pids \cup {t}
                 /\ UNCHANGED <<runq_complete, clock>>
<1>1. rqexe = "tasks" /\ rqexe' = "tasks"
  BY DEF TaskStep, SkipTask, NoexecTask, ForkTask, IInv, ControlInv
<1>2. t \in runq_buildable \ runq_running
  BY DEF TaskStep, SkipTask, NoexecTask, ForkTask, Executed, Schedulable
<1>3. rqdata.depends[t] \subseteq runq_complete
  BY <1>1, <1>2 DEF IInv, TasksInv
<1>4. CASE SkipTask(t)
  BY <1>1, <1>2, <1>3, <1>4 DEF SkipTask, tasks_skip, scene, clock, InTasks
<1>5. CASE NoexecTask(t)
  BY <1>1, <1>2, <1>3, <1>5
     DEF NoexecTask, Executed, tasks_completeoutright, make_stamp, scene, InTasks
<1>6. CASE ForkTask(t)
  BY <1>1, <1>2, <1>3, <1>6 DEF ForkTask, Executed, fork_off_task, scene, clock, InTasks
<1> QED
  BY <1>4, <1>5, <1>6 DEF TaskStep

\* make_stamp(t) gives the time to the stamp of t, which may be that of others.
LEMMA StampEffect ==
    ASSUME IInv, NEW t \in T, make_stamp(t), rqdata' = rqdata
    PROVE  /\ now' \in {now, now + 1}
           /\ \A u \in T : (stampOf(u))' = IF rqdata.stamp[u] = rqdata.stamp[t]
                                         THEN now' ELSE stampOf(u)
           /\ \A n \in StampNames : stamps'[n] = IF n = rqdata.stamp[t]
                                               THEN now' ELSE stamps[n]
           /\ sstamps' = sstamps
  BY Types DEF make_stamp, stampOf

\* What is complete stays executed, covered or stamped, and covers are only taken
\* back with what rests on them.
LEMMA InputsStep ==
    ASSUME IInv, IInv', ClockInv, InputsInv, [Next]_vars PROVE InputsInv'
<1> USE SameBuild, Types DEF InputsInv, InTasks, Stamped
<1>1. now' \in Nat /\ \A n \in {now, now + 1} : n # 0
  BY DEF IInv, TypeOK, ClockInv
<1>2. CASE Quiet
  BY <1>2 DEF Quiet, clock, marks, scene, stampOf, revdeps, TakenBack
<1>3. CASE Prepare
  BY <1>3 DEF Prepare, ControlInv, IInv
<1>4. CASE SceneInit
  <2>0. ran = {} /\ ran' = ran /\ rqexe' = "scene" /\ proc' = proc /\ \A t \in T : proc[t] = "none"
    BY <1>4 DEF SceneInit, NewExecuteScenequeue, IInv, ControlInv, WorkerInv, Children
  <2>1. CASE covered' = {}
    BY <2>0, <2>1
  <2>2. CASE WithHashcheck
    <3> DEFINE noexec == S \cap rqdata.noexec
               present == {t \in S \ noexec : sstamps[t] # 0}
    <3>1. /\ covered' = noexec \cup present
          /\ now' \in {now, now + 1}
          /\ sstamps' = [t \in T |-> IF t \in noexec THEN now' ELSE sstamps[t]]
      BY <2>2, Zenon DEF WithHashcheck, Initialised
    <3>2. \A t \in covered' : sstamps'[t] # 0
      BY <1>1, <3>1
    <3> QED
      BY <2>0, <3>2
  <2> QED
    BY <1>4, <2>1, <2>2 DEF SceneInit, NewExecuteScenequeue, NoSetscene, WithoutHashcheck,
       Initialised
<1>5. CASE RunInit
  <2> DEFINE found == CoveredClosure
             removed == covered_remove(found)
  <2>0. rqexe = "scene" /\ rqexe' = "tasks" /\ ran = {} /\ ran' = {}
    BY <1>5 DEF RunInit, NewExecuteTasks, IInv, ControlInv
  <2>1. /\ covered' = found \ removed /\ runq_complete' = {} /\ build_pids' = {}
        /\ sstamps' = [t \in T |-> IF t \in removed THEN 0 ELSE sstamps[t]]
    BY <1>5 DEF RunInit, NewExecuteTasks
  <2>2. \A r \in removed :
           rqdata.setsceneverify /\ rqdata.taskname[r] = "do_populate_sysroot"
    BY DEF covered_remove
  <2>4. found \subseteq T
    BY DEF CoveredClosure
  <2>3. ASSUME NEW t \in covered', sstamps'[t] = 0, NEW r \in revdeps(t)
        PROVE  r \in covered' \/ TakenBack(r)'
    <3>1. t \in found \ removed /\ t \in T /\ sstamps[t] = 0
      BY <2>1, <2>3, <2>4
    <3>2. t \notin covered
      BY <2>0, <3>1
    <3>3. r \in found
      BY <2>3, <3>1, <3>2, ClosureUp
    <3> QED
      BY <2>1, <2>2, <3>3 DEF TakenBack
  <2> HIDE DEF found, removed
  <2> QED
    BY <2>0, <2>1, <2>3 DEF revdeps
<1>6. ASSUME NEW t \in T, TaskStep(t), state = "Running" PROVE InputsInv'
  <2> USE <1>6, TaskEffect
  <2>1. \A u \in T : stampOf(u) # 0 => (stampOf(u))' # 0
    <3>1. CASE make_stamp(t)
      BY <1>1, <3>1, StampEffect
    <3>2. CASE UNCHANGED clock
      BY <3>2 DEF clock, stampOf
    <3> QED
      BY <3>1, <3>2
  <2>2. t \in runq_complete' => t \in ran' \cup covered' \/ (stampOf(t))' # 0
    BY <2>1 DEF check_stamp_task
  <2>3. \A u \in runq_complete' : u \in ran' \cup covered' \/ (stampOf(u))' # 0
    BY <2>1, <2>2
  <2>4. \A u \in covered' :
           sstamps'[u] # 0 \/ \A r \in revdeps(u)' : r \in covered' \/ TakenBack(r)'
    BY DEF revdeps, TakenBack
  <2>5. ran' \subseteq runq_running' /\ build_pids' \subseteq ran' /\ ran' \cap covered' = {}
    OBVIOUS
  <2> QED
    BY <2>3, <2>4, <2>5
<1>7. ASSUME NEW t \in S, SceneStep(t), state = "SceneRun" PROVE InputsInv'
  <2>1. rqexe = "scene" /\ rqexe' = "scene" /\ ran' = ran /\ sstamps' = sstamps
    BY <1>7 DEF SceneStep, SceneFailOutright, SceneSkip, SceneFork, clock, IInv, ControlInv
  <2>2. /\ \A u \in covered' : u \in covered \/ sstamps[u] # 0
        /\ \A u \in T : proc'[u] \in Stamped => proc[u] \in Stamped
    BY <1>7 DEF SceneStep, SceneFailOutright, SceneSkip, SceneFork, scene, fork_off_task
  <2> QED
    BY <2>1, <2>2
<1>8. ASSUME NEW t \in T, Collects(t) PROVE InputsInv'
  <2>1. /\ rqexe' = rqexe /\ ran' = ran /\ UNCHANGED <<stamps, sstamps>>
        /\ build_pids' = build_pids \ {t} /\ t \in build_pids
        /\ proc' = [proc EXCEPT ![t] = "none"]
    BY <1>8, Working DEF Collects, Collect, clock, Zombies, Zombie
  <2>2. CASE rqexe = "tasks"
    <3>1. runq_complete' \subseteq runq_complete \cup {t} /\ UNCHANGED <<covered, runq_running>>
      BY <1>8, <2>2 DEF Collects, Collect, task_complete, task_fail, tasks_complete,
         tasks_completeoutright, tasks_fail, marks, scene
    <3> QED
      BY <2>1, <2>2, <3>1 DEF stampOf, revdeps, TakenBack
  <2>3. CASE rqexe = "scene"
    <3>1. covered' \subseteq covered \cup (IF proc[t] = "ok" THEN {t} ELSE {})
      BY <1>8, <2>3 DEF Collects, Collect, task_complete, task_fail, scene_complete,
         scene_fail
    <3> QED
      BY <2>1, <2>3, <3>1
  <2> QED
    BY <1>8, <2>1, <2>2, <2>3 DEF Collects, Collect, task_complete, task_fail
<1>9. ASSUME NEW t \in T, WorkerStamp(t) \/ WorkerExit(t) PROVE InputsInv'
  <2>1. proc[t] # "none" /\ UNCHANGED server /\ \A u \in T \ {t} : proc'[u] = proc[u]
    BY <1>9 DEF WorkerStamp, WorkerExit, server
  <2>2. CASE rqexe = "tasks"
    <3>1. \A u \in T : stampOf(u) # 0 => (stampOf(u))' # 0
      <4>1. CASE make_stamp(t)
        BY <1>1, <2>1, <4>1, StampEffect
      <4>2. CASE UNCHANGED clock
        BY <4>2 DEF clock, stampOf
      <4> QED
        BY <1>9, <2>2, <4>1, <4>2 DEF WorkerStamp, WorkerExit
    <3>2. sstamps' = sstamps
      BY <1>9, <2>2 DEF WorkerStamp, WorkerExit, make_stamp, clock
    <3> QED
      BY <2>1, <2>2, <3>1, <3>2 DEF server, marks, scene, revdeps, TakenBack
  <2>3. CASE rqexe = "scene"
    <3>1. \A u \in T : sstamps[u] # 0 \/ u = t => sstamps'[u] # 0
      BY <1>1, <1>9, <2>3
         DEF WorkerStamp, WorkerExit, Stamping, make_setscene_stamp, clock
    <3> QED
      BY <2>1, <2>3, <3>1 DEF server, scene
  <2> QED
    BY <2>1, <2>2, <2>3, Working
<1> QED
  BY <1>2, <1>3, <1>4, <1>5, <1>6, <1>7, <1>8, <1>9, StampKinds DEF IInv

\* No task has been executed or covered, and stamps are of earlier builds.
LEMMA InitStamps == Init => ClockInv /\ InputsInv
<1> SUFFICES ASSUME Init PROVE ClockInv /\ InputsInv
  OBVIOUS
<1>1. ClockInv
  BY NumbersAssumption DEF Init, ClockInv
<1>2. InputsInv
  BY DEF Init, InputsInv, InTasks
<1> QED
  BY <1>1, <1>2

\* Whatever a task is executed on exists: what it depends on was executed, now
\* or earlier, or taken from the cache.
THEOREM Inputs == Spec => []ExecutedOnInputs
<1>1. Init => IInv /\ ClockInv /\ InputsInv
  BY InitIInv, InitStamps
<1>2. IInv /\ ClockInv /\ InputsInv /\ [Next]_vars => (IInv /\ ClockInv /\ InputsInv)'
  BY StepIInv, ClockStep, InputsStep
<1>3. ASSUME IInv, InputsInv PROVE ExecutedOnInputs
  <2> SUFFICES ASSUME InTasks, NEW t \in ran, NEW d \in rqdata.depends[t]
               PROVE  \/ d \in ran \/ stampOf(d) # 0 \/ sstamps[d] # 0
                      \/ TakenBack(t) /\ d \in covered
    BY DEF ExecutedOnInputs
  <2>1. t \in T /\ d \in T /\ d \in runq_complete
    BY <1>3, Types DEF InputsInv, IInv, TasksInv, InTasks
  <2>2. t \in revdeps(d) /\ t \notin covered
    BY <1>3, <2>1 DEF revdeps, InputsInv
  <2> QED
    BY <1>3, <2>1, <2>2 DEF InputsInv
<1> QED
  BY <1>1, <1>2, <1>3, PTL DEF Spec

-----------------------------------------------------------------------------
(* Running again what depends on what was run                              *)

\* The stamps of earlier builds are older than this build: in the same second
\* they could not be told apart.  And no task without a stamp has a setscene
\* variant.
Distinguishable ==
    /\ OldTime < Now
    /\ \A b \in Builds : b.setscene \cap b.nostamp = {}

\* The stamp of t is of this build, and not older than its setscene stamp.
Written(t) == stampOf(t) >= sstamps[t] /\ (stampOf(t) # 0 => stampOf(t) >= Now)

\* Which stamps are of this build.
RanInv ==
    /\ \A t \in rqdata.nostamp : stampOf(t) = 0 \/ stampOf(t) >= Now
    /\ \A n \in StampNames : stamps[n] >= Now => \E u \in ran : rqdata.stamp[u] = n
    /\ InTasks =>
          \A t \in ran : t \in rqdata.nostamp \cup runq_complete \/ proc[t] \in Stamped
                           => Written(t)

\* A task that is written by this build stays so, and one without a stamp has
\* nothing but stamps of this build.
LEMMA RanStep ==
    ASSUME Distinguishable, IInv, IInv', ClockInv, InputsInv, RanInv, [Next]_vars
    PROVE  RanInv'
<1> USE SameBuild, Types DEF RanInv, InTasks, Stamped, Written
<1>0. rqdata.nostamp \subseteq T /\ S \cap rqdata.nostamp = {}
  BY BuildsAssumption DEF BuildType, T, S, Distinguishable
<1>1. now' \in Nat /\ \A n \in {now, now + 1} : n >= Now /\ n # 0
  BY DEF IInv, TypeOK, ClockInv
<1>2. CASE Quiet
  BY <1>2 DEF Quiet, clock, marks, stampOf
<1>3. CASE Prepare
  <2>1. /\ ~InTasks' /\ sstamps' = sstamps /\ ran' = ran
        /\ \A n \in StampNames : stamps'[n] \in {0, stamps[n]}
    BY <1>3 DEF Prepare
  <2>2. \A t \in T : (stampOf(t))' \in {0, stampOf(t)}
    BY <2>1 DEF stampOf
  <2> QED
    BY <1>0, <2>1, <2>2
<1>4. CASE SceneInit
  <2>1. stamps' = stamps /\ ran' = ran /\ rqexe' = "scene"
    BY <1>4 DEF SceneInit, NewExecuteScenequeue, NoSetscene, WithoutHashcheck,
       WithHashcheck, clock
  <2>2. \A t \in T \ S : sstamps'[t] = sstamps[t]
    <3>1. CASE UNCHANGED clock
      BY <3>1 DEF clock
    <3>2. CASE WithHashcheck
      <4>1. sstamps' = [t \in T |-> IF t \in S \cap rqdata.noexec THEN now' ELSE sstamps[t]]
        BY <3>2, Zenon DEF WithHashcheck
      <4> QED
        BY <4>1
    <3> QED
      BY <1>4, <3>1, <3>2 DEF SceneInit, NewExecuteScenequeue, NoSetscene, WithoutHashcheck
  <2> QED
    BY <2>1, <2>2 DEF stampOf
<1>5. CASE RunInit
  <2> DEFINE removed == covered_remove(CoveredClosure)
  <2>1. /\ stamps' = stamps /\ ran' = ran
        /\ sstamps' = [t \in T |-> IF t \in removed THEN 0 ELSE sstamps[t]]
    BY <1>5 DEF RunInit, NewExecuteTasks
  <2>2. ran = {}
    BY <1>5 DEF RunInit, InputsInv, IInv, ControlInv
  <2> HIDE DEF removed
  <2> QED
    BY <2>1, <2>2 DEF stampOf
<1>6. ASSUME NEW t \in T, TaskStep(t), state = "Running" PROVE RanInv'
  <2> USE <1>6, TaskEffect
  <2>1. CASE UNCHANGED <<clock, ran, proc>> /\ runq_complete' = runq_complete \cup {t}
    <3>1. t \notin ran
      BY DEF InputsInv
    <3> QED
      BY <2>1, <3>1 DEF clock, stampOf
  <2>3. CASE /\ UNCHANGED <<clock, runq_complete>> /\ ran' = ran \cup {t}
             /\ proc' = [proc EXCEPT ![t] = "forked"]
    <3>1. UNCHANGED <<stamps, sstamps>> /\ \A u \in T : (stampOf(u))' = stampOf(u)
      BY <2>3 DEF clock, stampOf
    <3>2. t \in rqdata.nostamp => Written(t)
      BY <1>0 DEF stampOf, ClockInv
    <3>3. t \notin runq_complete
      BY DEF IInv, TasksInv
    <3>4. \A u \in ran' : u \in rqdata.nostamp \cup runq_complete' \/ proc'[u] \in Stamped
                           => Written(u)
      BY <2>3, <3>2, <3>3
    <3>5. \A u \in T : Written(u)' <=> Written(u)
      BY <3>1
    <3>6. ran' \subseteq T
      BY <2>3
    <3>7. \A n \in StampNames : stamps'[n] >= Now => \E u \in ran' : rqdata.stamp[u] = n
      BY <2>3, <3>1
    <3>8. \A u \in rqdata.nostamp : (stampOf(u))' = 0 \/ (stampOf(u))' >= Now
      BY <1>0, <3>1
    <3> QED
      BY <3>4, <3>5, <3>6, <3>7, <3>8
  <2>2. CASE make_stamp(t) /\ ran' = ran \cup {t} /\ UNCHANGED proc
    <3>1. \A u \in T : \/ (stampOf(u))' = stampOf(u)
                       \/ (stampOf(u))' = now' /\ now' >= Now /\ now' >= sstamps[u]
      BY <1>1, <2>2, StampEffect DEF ClockInv
    <3>2. (stampOf(t))' = now' /\ now' >= Now /\ now' >= sstamps[t]
      BY <1>1, <2>2, StampEffect DEF ClockInv
    <3>3. \A n \in StampNames : stamps'[n] = stamps[n] \/ n = rqdata.stamp[t]
      BY <2>2, StampEffect
    <3>4. sstamps' = sstamps
      BY <2>2
    <3>5. \A u \in ran' : u \in rqdata.nostamp \cup runq_complete' \/ proc'[u] \in Stamped
                           => (stampOf(u))' >= sstamps'[u]
                              /\ ((stampOf(u))' # 0 => (stampOf(u))' >= Now)
      BY <2>2, <3>1, <3>2, <3>4
    <3> QED
      BY <1>0, <2>2, <3>1, <3>3, <3>4, <3>5
  <2> QED
    BY <2>1, <2>2, <2>3
<1>7. ASSUME NEW t \in S, SceneStep(t), state = "SceneRun" PROVE RanInv'
  BY <1>7 DEF SceneStep, SceneFailOutright, SceneSkip, SceneFork, clock, IInv, ControlInv,
     stampOf
<1>8. ASSUME NEW t \in T, Collects(t) PROVE RanInv'
  <2>1. /\ rqexe' = rqexe /\ ran' = ran /\ UNCHANGED <<stamps, sstamps>>
        /\ proc' = [proc EXCEPT ![t] = "none"] /\ proc[t] \in Zombie
    BY <1>8 DEF Collects, Collect, clock, Zombies
  <2>2. CASE rqexe = "tasks"
    <3>1. runq_complete' \subseteq runq_complete \cup (IF proc[t] = "ok" THEN {t} ELSE {})
      BY <1>8, <2>2 DEF Collects, Collect, task_complete, task_fail, tasks_complete,
         tasks_completeoutright, tasks_fail, marks
    <3> QED
      BY <2>1, <2>2, <3>1 DEF stampOf
  <2> QED
    BY <2>1, <2>2 DEF stampOf
<1>9. ASSUME NEW t \in T, WorkerStamp(t) \/ WorkerExit(t) PROVE RanInv'
  <2>1. proc[t] # "none" /\ UNCHANGED server /\ \A u \in T \ {t} : proc'[u] = proc[u]
    BY <1>9 DEF WorkerStamp, WorkerExit, server
  <2>2. CASE rqexe = "tasks" /\ WorkerExit(t)
    <3>1. UNCHANGED clock /\ (proc[t] = "stamped" \/ t \in rqdata.nostamp)
      BY <2>2 DEF WorkerExit, Stamping
    <3> QED
      BY <2>1, <3>1 DEF server, marks, clock, stampOf
  <2>3. CASE rqexe = "tasks" /\ WorkerStamp(t)
    <3>0. make_stamp(t) /\ t \in ran
      BY <2>1, <2>3, Working DEF WorkerStamp, InputsInv
    <3>1. \A u \in T : \/ (stampOf(u))' = stampOf(u)
                       \/ (stampOf(u))' = now' /\ now' >= Now /\ now' >= sstamps[u]
      BY <1>1, <3>0, StampEffect DEF ClockInv
    <3>2. (stampOf(t))' = now' /\ now' >= Now /\ now' >= sstamps[t]
      BY <1>1, <3>0, StampEffect DEF ClockInv
    <3>3. \A n \in StampNames : stamps'[n] = stamps[n] \/ n = rqdata.stamp[t]
      BY <3>0, StampEffect
    <3>4. sstamps' = sstamps
      BY <3>0, StampEffect
    <3>5. \A u \in ran : u \in rqdata.nostamp \cup runq_complete' \/ proc'[u] \in Stamped
                           => (stampOf(u))' >= sstamps'[u]
                              /\ ((stampOf(u))' # 0 => (stampOf(u))' >= Now)
      BY <2>1, <2>3, <3>1, <3>2, <3>4 DEF server, marks
    <3> QED
      BY <1>0, <2>1, <3>0, <3>1, <3>3, <3>4, <3>5 DEF server
  <2>4. CASE rqexe = "scene"
    <3>1. t \in S /\ stamps' = stamps /\ \A u \in T \ {t} : sstamps'[u] = sstamps[u]
      BY <1>9, <2>1, <2>4, Working
         DEF WorkerStamp, WorkerExit, make_setscene_stamp, clock, InTasks
    <3> QED
      BY <2>1, <2>4, <3>1 DEF server, stampOf
  <2> QED
    BY <1>9, <2>1, <2>2, <2>3, <2>4, Working
<1> QED
  BY <1>2, <1>3, <1>4, <1>5, <1>6, <1>7, <1>8, <1>9, StampKinds DEF IInv

\* A task is skipped only if nothing it depends on was executed, or its stamp is
\* of this build.
LEMMA RerunStep ==
    ASSUME IInv, InputsInv, RanInv, RerunPropagates, [Next]_vars
    PROVE  RerunPropagates'
<1> USE SameBuild, Types DEF RerunPropagates, InTasks
<1>1. CASE Quiet
  BY <1>1 DEF Quiet, marks, scene, InStampTree
<1>2. CASE Prepare \/ SceneInit
  BY <1>2 DEF Prepare, SceneInit, NewExecuteScenequeue
<1>3. CASE RunInit
  BY <1>3 DEF RunInit, NewExecuteTasks
<1>4. ASSUME NEW t \in T, TaskStep(t), state = "Running" PROVE RerunPropagates'
  <2> USE <1>4, TaskEffect
  <2>1. \A u \in runq_complete : rqdata.depends[u] \cap ran' \subseteq ran
    BY DEF IInv, TasksInv
  <2>2. ASSUME t \notin covered, check_stamp_task(t), ran' = ran,
               NEW d \in rqdata.depends[t] \cap ran, InStampTree(t, d)
        PROVE  \E u \in ran : rqdata.stamp[u] = rqdata.stamp[t]
    <3>1. d \in T /\ Written(d)
      BY <2>2 DEF RanInv
    <3>2. stampOf(d) \in Nat /\ sstamps[d] \in Nat /\ stampOf(t) \in Nat
      BY <3>1 DEF stampOf
    <3>3. stampOf(d) # 0 /\ stampOf(t) >= stampOf(d)
      BY <2>2, <3>1, <3>2 DEF check_stamp_task, DependCurrent, SetsceneNewer, Written
    <3>4. stampOf(t) >= Now
      BY <3>1, <3>2, <3>3 DEF Written
    <3> QED
      BY <3>4 DEF RanInv, stampOf
  <2>3. ASSUME NEW u \in runq_complete' \ covered', NEW d \in rqdata.depends[u] \cap ran',
               InStampTree(u, d)
        PROVE  \E v \in ran' : rqdata.stamp[v] = rqdata.stamp[u]
    <3>1. CASE u \in runq_complete
      BY <2>1, <2>3, <3>1
    <3>2. CASE u = t /\ t \notin ran'
      BY <2>2, <2>3, <3>2
    <3> QED
      BY <2>3, <3>1, <3>2
  <2> QED
    BY <2>3 DEF InStampTree
<1>5. ASSUME NEW t \in S, SceneStep(t), state = "SceneRun" PROVE RerunPropagates'
  BY <1>5 DEF SceneStep, SceneFailOutright, SceneSkip, SceneFork, IInv, ControlInv
<1>6. ASSUME NEW t \in T, Collects(t) PROVE RerunPropagates'
  <2>1. rqexe' = rqexe /\ ran' = ran /\ t \in build_pids
    BY <1>6, Working DEF Collects, Collect, Zombies, Zombie
  <2>2. ASSUME rqexe = "tasks"
        PROVE  runq_complete' \subseteq runq_complete \cup {t} /\ covered' = covered /\ t \in ran
    BY <1>6, <2>1, <2>2 DEF Collects, Collect, task_complete, task_fail, tasks_complete,
       tasks_completeoutright, tasks_fail, marks, scene, InputsInv
  <2> QED
    BY <2>1, <2>2 DEF InStampTree
<1>7. ASSUME NEW t \in T, WorkerStamp(t) \/ WorkerExit(t) PROVE RerunPropagates'
  BY <1>7 DEF WorkerStamp, WorkerExit, server, marks, scene, InStampTree
<1> QED
  BY <1>1, <1>2, <1>3, <1>4, <1>5, <1>6, <1>7, StampKinds DEF IInv

\* When a task was executed, so is every task that depends on it and looks at
\* its stamp, or one that shares the dependent's stamp.
THEOREM Reruns ==
    ASSUME Distinguishable PROVE Spec => []RerunPropagates
<1> DEFINE Inv == IInv /\ ClockInv /\ InputsInv /\ RanInv /\ RerunPropagates
<1>1. Init => RanInv /\ RerunPropagates
  <2> SUFFICES ASSUME Init PROVE RanInv /\ RerunPropagates
    OBVIOUS
  <2>1. rqdata.nostamp \subseteq T
    BY BuildsAssumption DEF Init, BuildType, T
  <2> QED
    BY <2>1, NumbersAssumption
       DEF Init, RanInv, RerunPropagates, InTasks, Distinguishable, stampOf
<1>2. Init => Inv
  BY <1>1, InitIInv, InitStamps
<1>3. Inv /\ [Next]_vars => Inv'
  BY StepIInv, ClockStep, InputsStep, RanStep, RerunStep
<1>4. Inv => RerunPropagates
  OBVIOUS
<1> HIDE DEF Inv
<1> QED
  BY <1>2, <1>3, <1>4, PTL DEF Spec

-----------------------------------------------------------------------------
(* Current stamps                                                          *)

\* The stamp of t is there, and not older than those it looks at.
Current(t) ==
    /\ stampOf(t) # 0
    /\ \A d \in rqdata.depends[t] :
          InStampTree(t, d) /\ d \notin rqdata.nostamp
             => stampOf(d) # 0 /\ stampOf(t) >= stampOf(d)

\* In a build without setscene tasks, a task is current from when its worker has
\* stamped it, or it is found current and skipped.
CurrentInv ==
    InTasks /\ S = {} =>
        /\ covered = {}
        /\ \A t \in T \ rqdata.nostamp :
              t \in runq_complete \/ proc[t] \in Stamped => Current(t)

\* While a worker is at a stamp, no task that has it is complete.
SharedInv ==
    InTasks /\ S = {} =>
        \A t \in build_pids \ rqdata.nostamp, u \in runq_complete :
            rqdata.stamp[t] # rqdata.stamp[u]

\* What Alike says of the build that is running.
LEMMA Sharing ==
    ASSUME Alike, IInv, NEW t \in T, NEW u \in T, t # u, rqdata.stamp[t] = rqdata.stamp[u]
    PROVE  /\ t \in rqdata.nostamp <=> u \in rqdata.nostamp
           /\ t \notin rqdata.nostamp =>
                 \A d \in rqdata.depends[t] : InStampTree(t, d) =>
                    /\ d \notin rqdata.nostamp
                    /\ \E e \in rqdata.depends[u] : InStampTree(u, e) /\ rqdata.stamp[e] = rqdata.stamp[d]
<1>1. rqdata \in Builds
  BY Types
<1>2. /\ t \in rqdata.nostamp <=> u \in rqdata.nostamp
      /\ t \notin rqdata.nostamp =>
            /\ Looks(rqdata, t) \cap rqdata.nostamp = {}
            /\ LooksAt(rqdata, t) = LooksAt(rqdata, u)
  BY <1>1 DEF Alike, SharedAlike, T
<1>3. ASSUME NEW d \in rqdata.depends[t], InStampTree(t, d) PROVE d \in Looks(rqdata, t)
  BY <1>3 DEF Looks, InStampTree
<1>4. ASSUME LooksAt(rqdata, t) = LooksAt(rqdata, u), NEW d \in Looks(rqdata, t)
      PROVE  \E e \in Looks(rqdata, u) : rqdata.stamp[e] = rqdata.stamp[d]
  <2>1. rqdata.stamp[d] \in LooksAt(rqdata, u)
    BY <1>4 DEF LooksAt
  <2> QED
    BY <2>1 DEF LooksAt
<1>5. \A e \in Looks(rqdata, u) : e \in rqdata.depends[u] /\ InStampTree(u, e)
  BY DEF Looks, InStampTree
<1> QED
  BY <1>2, <1>3, <1>4, <1>5

\* A task is skipped where one that shares its stamp is current.
LEMMA SharedCurrent ==
    ASSUME Alike, IInv, NEW t \in T, NEW u \in T \ rqdata.nostamp, t # u,
           rqdata.stamp[t] = rqdata.stamp[u], Current(u)
    PROVE  check_stamp_task(t)
<1>1. stampOf(t) = stampOf(u) /\ t \notin rqdata.nostamp
  BY Sharing DEF stampOf
<1>2. ASSUME NEW d \in rqdata.depends[t], InStampTree(t, d)
      PROVE  stampOf(d) # 0 /\ stampOf(t) >= stampOf(d)
  <2>1. PICK e \in rqdata.depends[u] : InStampTree(u, e) /\ rqdata.stamp[e] = rqdata.stamp[d]
    BY <1>1, <1>2, Sharing
  <2>2. e \notin rqdata.nostamp
    BY <2>1, Sharing
  <2> QED
    BY <1>1, <2>1, <2>2 DEF Current, stampOf
<1> QED
  BY <1>1, <1>2 DEF check_stamp_task, DependCurrent, Current

\* A task is started when no worker is at its stamp, and executed when it is not
\* covered and not current.
LEMMA TaskStarted ==
    ASSUME NEW t \in T, TaskStep(t)
    PROVE  /\ \A u \in build_pids : rqdata.stamp[u] # rqdata.stamp[t]
           /\ t \in ran' => t \in ran \/ ~check_stamp_task(t)
  BY DEF TaskStep, SkipTask, NoexecTask, ForkTask, Executed, Schedulable, build_stamps

\* Whoever is given the stamp finds nobody complete who has it.
LEMMA SharedStart ==
    ASSUME Alike, IInv, InputsInv, CurrentInv, InTasks, S = {},
           NEW t \in T \ rqdata.nostamp, t \notin runq_running, ~check_stamp_task(t),
           NEW u \in runq_complete
    PROVE  rqdata.stamp[t] # rqdata.stamp[u]
<1> SUFFICES ASSUME rqdata.stamp[t] = rqdata.stamp[u] PROVE FALSE
  OBVIOUS
<1>1. u \in T /\ t # u
  BY Types DEF IInv, TasksInv, InTasks
<1>2. u \notin rqdata.nostamp
  BY <1>1, Sharing
<1>3. Current(u)
  BY <1>1, <1>2 DEF CurrentInv
<1> QED
  BY <1>1, <1>2, <1>3, SharedCurrent

\* A task that gets complete was alone with its stamp.
LEMMA SharedStep ==
    ASSUME Alike, IInv, IInv', InputsInv, CurrentInv, SharedInv, [Next]_vars
    PROVE  SharedInv'
<1> USE SameBuild, Types DEF SharedInv, InTasks
<1>1. CASE Quiet
  BY <1>1 DEF Quiet, marks
<1>2. CASE Prepare \/ SceneInit
  BY <1>2 DEF Prepare, SceneInit, NewExecuteScenequeue
<1>3. CASE RunInit
  BY <1>3 DEF RunInit, NewExecuteTasks
<1>4. ASSUME NEW t \in T, TaskStep(t), state = "Running" PROVE SharedInv'
  <2> SUFFICES ASSUME S = {}, NEW v \in build_pids' \ rqdata.nostamp, NEW u \in runq_complete'
               PROVE  rqdata.stamp[v] # rqdata.stamp[u]
    BY <1>4, TaskEffect
  <2> USE <1>4, TaskEffect
  <2>1. CASE build_pids' = build_pids /\ runq_complete' = runq_complete \cup {t}
    BY <2>1, TaskStarted
  <2>2. CASE ran' = ran \cup {t} /\ build_pids' = build_pids \cup {t} /\ runq_complete' = runq_complete
    <3>1. t \notin ran
      BY DEF InputsInv
    <3>2. ~check_stamp_task(t)
      BY <2>2, <3>1, TaskStarted
    <3> QED
      BY <2>2, <3>2, SharedStart
  <2> QED
    BY <2>1, <2>2
<1>5. ASSUME NEW t \in S, SceneStep(t), state = "SceneRun" PROVE SharedInv'
  BY <1>5 DEF SceneStep, SceneFailOutright, SceneSkip, SceneFork, IInv, ControlInv
<1>6. ASSUME NEW t \in T, Collects(t) PROVE SharedInv'
  <2>1. rqexe' = rqexe /\ t \in build_pids
    BY <1>6, Working DEF Collects, Collect, Zombies, Zombie
  <2> SUFFICES ASSUME rqexe = "tasks", S = {},
                      NEW v \in build_pids' \ rqdata.nostamp, NEW u \in runq_complete'
               PROVE  rqdata.stamp[v] # rqdata.stamp[u]
    BY <2>1
  <2>2. build_pids' \subseteq build_pids /\ runq_complete' \subseteq runq_complete \cup {t}
    BY <1>6, <2>1 DEF Collects, Collect, task_complete, task_fail, tasks_complete,
       tasks_completeoutright, tasks_fail, marks
  <2>3. v # u
    BY <2>1 DEF IInv, TasksInv
  <2> QED
    BY <2>1, <2>2, <2>3 DEF IInv, TasksInv
<1>7. ASSUME NEW t \in T, WorkerStamp(t) \/ WorkerExit(t) PROVE SharedInv'
  BY <1>7 DEF WorkerStamp, WorkerExit, server, marks
<1> QED
  BY <1>1, <1>2, <1>3, <1>4, <1>5, <1>6, <1>7, StampKinds DEF IInv

\* Who is alone with a stamp may write it: nothing that is complete, or that a
\* worker is at, has it or looks at it.
LEMMA CurrentKept ==
    ASSUME Alike, IInv, IInv', ClockInv, CurrentInv, InTasks, S = {}, rqdata' = rqdata,
           NEW t \in T, make_stamp(t), t \notin runq_complete,
           rqdata.depends[t] \subseteq runq_complete,
           t \notin rqdata.nostamp => \A u \in runq_complete : rqdata.stamp[t] # rqdata.stamp[u],
           \A u \in build_pids \ {t} : rqdata.stamp[u] # rqdata.stamp[t]
    PROVE  /\ t \notin rqdata.nostamp => Current(t)'
           /\ \A u \in T \ ({t} \cup rqdata.nostamp) :
                 /\ u \in runq_complete \cup build_pids
                 /\ rqdata.depends[u] \subseteq runq_complete
                 /\ Current(u)
                 => Current(u)'
<1> USE Types
<1>1. now' \in Nat /\ now' # 0 /\ now' >= now
  BY StampEffect DEF ClockInv, IInv, TypeOK
<1>2. \A u \in T : (stampOf(u))' = IF rqdata.stamp[u] = rqdata.stamp[t] THEN now' ELSE stampOf(u)
  BY StampEffect
<1>3. \A u \in T : stampOf(u) \in Nat /\ stampOf(u) <= now
  BY DEF stampOf, ClockInv
<1>4. \A d \in runq_complete \ rqdata.nostamp :
         stampOf(d) # 0 /\ rqdata.stamp[d] # rqdata.stamp[t]
  BY Sharing DEF CurrentInv, Current
<1>5. ASSUME t \notin rqdata.nostamp PROVE Current(t)'
  <2> SUFFICES ASSUME NEW d \in rqdata.depends[t], d \notin rqdata.nostamp
               PROVE  (stampOf(d))' # 0 /\ (stampOf(t))' >= (stampOf(d))'
    BY <1>1, <1>2 DEF Current
  <2>1. d \in T /\ d \in runq_complete
    OBVIOUS
  <2> QED
    BY <1>1, <1>2, <1>3, <1>4, <2>1
<1>6. ASSUME NEW u \in T \ ({t} \cup rqdata.nostamp), u \in runq_complete \cup build_pids,
             rqdata.depends[u] \subseteq runq_complete, Current(u)
      PROVE  Current(u)'
  <2>1. rqdata.stamp[u] # rqdata.stamp[t]
    BY <1>4, <1>6
  <2>2. \A d \in rqdata.depends[u] \ rqdata.nostamp :
           d \in T /\ rqdata.stamp[d] # rqdata.stamp[t]
    BY <1>4, <1>6
  <2> QED
    BY <1>2, <1>6, <2>1, <2>2 DEF Current, InStampTree
<1> QED
  BY <1>5, <1>6

\* Where nothing is covered, the constructor covers nothing.
LEMMA NothingCovered ==
    ASSUME covered = {} PROVE CoveredClosure = {}
<1>1. CoveredPass = {}
  <2> DEFINE Passed == {c \in SUBSET T : c = covered \cup
                          {u \in T : /\ revdeps(u) # {}
                                     /\ revdeps(u) \subseteq
                                          covered \cup {v \in c : v < u}}}
  <2>1. {} \in Passed
    OBVIOUS
  <2>2. CoveredPass = {u \in T : \A c \in Passed : u \in c}
    BY DEF CoveredPass
  <2> QED
    BY <2>1, <2>2
<1> DEFINE Candidates == {u \in T : /\ revdeps(u) # {}
                                    /\ \A r \in revdeps(u) : rqdata.fn[r] = rqdata.fn[u]}
           Closed == {c \in SUBSET T :
                        /\ CoveredPass \subseteq c
                        /\ \A u \in Candidates : revdeps(u) \subseteq c => u \in c}
<1>2. {} \in Closed
  BY <1>1
<1>3. CoveredClosure = {u \in T : \A c \in Closed : u \in c}
  BY DEF CoveredClosure
<1> QED
  BY <1>2, <1>3

\* A task that is stamped or found current stays so, as what it depends on is
\* complete.
LEMMA CurrentStep ==
    ASSUME Alike, IInv, IInv', ClockInv, InputsInv, SharedInv, CurrentInv, [Next]_vars
    PROVE  CurrentInv'
<1> USE SameBuild, Types DEF CurrentInv, InTasks, Stamped
<1>1. ASSUME UNCHANGED <<stamps, sstamps>>, NEW t \in T PROVE Current(t)' <=> Current(t)
  BY <1>1 DEF Current, stampOf, InStampTree
<1>2. CASE Quiet
  BY <1>1, <1>2 DEF Quiet, clock, marks, scene
<1>3. CASE Prepare \/ SceneInit
  BY <1>3 DEF Prepare, SceneInit, NewExecuteScenequeue
<1>4. CASE RunInit
  <2>1. /\ covered' \subseteq CoveredClosure /\ runq_complete' = {}
        /\ proc' = proc /\ rqexe = "scene" /\ build_pids = {}
    BY <1>4 DEF RunInit, NewExecuteTasks, IInv, ControlInv
  <2>2. \A t \in T : proc[t] = "none"
    BY <2>1, Working
  <2>3. S = {} => covered = {}
    BY <2>1 DEF IInv, SceneInv, Processed
  <2> QED
    BY <2>1, <2>2, <2>3, NothingCovered
<1>5. ASSUME NEW t \in T, TaskStep(t), state = "Running" PROVE CurrentInv'
  <2> SUFFICES ASSUME S = {} PROVE CurrentInv'
    OBVIOUS
  <2> USE <1>5, TaskEffect
  <2>1. CASE /\ make_stamp(t) /\ runq_complete' = runq_complete \cup {t} /\ UNCHANGED proc
             /\ ran' = ran \cup {t}
    <3>1. t \notin runq_complete /\ t \notin build_pids
      BY DEF IInv, TasksInv, WorkerInv
    <3>2. \A u \in runq_complete : rqdata.depends[u] \subseteq runq_complete
      BY DEF IInv, TasksInv
    <3>3. \A u \in T : proc[u] # "none" =>
             u \in build_pids /\ rqdata.depends[u] \subseteq runq_complete
      BY Working DEF IInv, TasksInv, InputsInv
    <3>4. t \in ran' /\ t \notin ran
      BY <2>1 DEF InputsInv
    <3>5. t \notin rqdata.nostamp => \A u \in runq_complete : rqdata.stamp[t] # rqdata.stamp[u]
      BY <3>4, TaskStarted, SharedStart
    <3>6. \A u \in build_pids \ {t} : rqdata.stamp[u] # rqdata.stamp[t]
      BY TaskStarted
    <3>7. \A u \in T \ rqdata.nostamp :
            u \in runq_complete' \/ proc'[u] \in Stamped => Current(u)'
      BY <2>1, <3>1, <3>2, <3>3, <3>5, <3>6, CurrentKept
    <3> QED
      BY <3>7
  <2>2. CASE UNCHANGED clock /\ (t \in covered \/ check_stamp_task(t)) /\ UNCHANGED proc
    <3>1. Current(t)
      BY <2>2 DEF check_stamp_task, DependCurrent, SetsceneNewer, Current, stampOf, ClockInv
    <3> QED
      BY <1>1, <2>2, <3>1 DEF clock
  <2>3. CASE UNCHANGED <<clock, runq_complete>> /\ proc' = [proc EXCEPT ![t] = "forked"]
    BY <1>1, <2>3 DEF clock
  <2> QED
    BY <2>1, <2>2, <2>3
<1>6. ASSUME NEW t \in S, SceneStep(t), state = "SceneRun" PROVE CurrentInv'
  BY <1>6 DEF SceneStep, SceneFailOutright, SceneSkip, SceneFork, IInv, ControlInv
<1>7. ASSUME NEW t \in T, Collects(t) PROVE CurrentInv'
  <2>1. /\ rqexe' = rqexe /\ UNCHANGED <<stamps, sstamps>>
        /\ proc' = [proc EXCEPT ![t] = "none"] /\ proc[t] \in Zombie
    BY <1>7 DEF Collects, Collect, clock, Zombies
  <2>2. CASE rqexe = "tasks"
    <3>1. /\ covered' = covered
          /\ runq_complete' \subseteq runq_complete \cup (IF proc[t] = "ok" THEN {t} ELSE {})
      BY <1>7, <2>2 DEF Collects, Collect, task_complete, task_fail, tasks_complete,
         tasks_completeoutright, tasks_fail, marks, scene
    <3> QED
      BY <1>1, <2>1, <2>2, <3>1
  <2> QED
    BY <2>1, <2>2
<1>8. ASSUME NEW t \in T, WorkerStamp(t) \/ WorkerExit(t) PROVE CurrentInv'
  <2> SUFFICES ASSUME S = {}, rqexe = "tasks" PROVE CurrentInv'
    BY <1>8 DEF WorkerStamp, WorkerExit, server
  <2>1. proc[t] # "none" /\ UNCHANGED server /\ \A u \in T \ {t} : proc'[u] = proc[u]
    BY <1>8 DEF WorkerStamp, WorkerExit, server
  <2>2. CASE WorkerExit(t)
    <3>1. UNCHANGED clock /\ (proc[t] = "stamped" \/ t \in rqdata.nostamp)
      BY <2>2 DEF WorkerExit, Stamping
    <3> QED
      BY <1>1, <2>1, <3>1 DEF server, marks, scene, clock
  <2>3. CASE WorkerStamp(t)
    <3>1. make_stamp(t) /\ t \in build_pids /\ sstamps' = sstamps
      BY <2>1, <2>3, Working DEF WorkerStamp, make_stamp
    <3>2. t \notin runq_complete
      BY <3>1 DEF IInv, TasksInv
    <3>3. \A u \in T : u \in runq_complete \/ proc[u] # "none" =>
             /\ u \in runq_complete \cup build_pids
             /\ rqdata.depends[u] \subseteq runq_complete
      BY Working DEF IInv, TasksInv, InputsInv
    <3>4. t \notin rqdata.nostamp => \A u \in runq_complete : rqdata.stamp[t] # rqdata.stamp[u]
      BY <3>1 DEF SharedInv
    <3>5. \A u \in build_pids \ {t} : rqdata.stamp[u] # rqdata.stamp[t]
      BY <3>1 DEF IInv, TasksInv
    <3>6. \A u \in T \ rqdata.nostamp :
            u \in runq_complete' \/ proc'[u] \in Stamped => Current(u)'
      BY <2>1, <2>3, <3>1, <3>2, <3>3, <3>4, <3>5, CurrentKept DEF server, marks
    <3> QED
      BY <2>1, <3>1, <3>6 DEF server, scene
  <2> QED
    BY <1>8, <2>2, <2>3
<1> QED
  BY <1>2, <1>3, <1>4, <1>5, <1>6, <1>7, <1>8, StampKinds DEF IInv

\* A build that nobody disturbs and in which nothing fails runs until every task
\* is complete.
EndInv ==
    InTasks /\ Undisturbed /\ failed_fnids = {} =>
        /\ state \in {"Running"} \cup Final
        /\ state \in Final => runq_complete = T

\* Only a failure or a request takes the build out of "Running" early.
LEMMA EndStep ==
    ASSUME IInv, IInv', EndInv, [Next]_vars PROVE EndInv'
<1> USE SameBuild, Types DEF EndInv, InTasks, Undisturbed, Final
<1>1. CASE UNCHANGED vars \/ Terminated \/ Request
  BY <1>1, EnvironmentAssumption DEF vars, ctl, server, marks, Terminated, Request
<1>2. CASE IdleShutdown \/ DiskStop
  BY <1>2 DEF IdleShutdown, DiskStop
<1>3. CASE IdleStop \/ DiskAbort
  BY <1>3 DEF IdleStop, DiskAbort, finish_now, server, marks
<1>4. CASE CleanUp
  <2>1. CASE stats.active = 0 \/ UNCHANGED <<marks, failed_fnids>>
    BY <1>4, <2>1 DEF CleanUp, finish, process_waitpid
  <2>2. CASE \E t \in T : Collect(t, "CleanUp")
    <3>1. failed_fnids \subseteq failed_fnids'
      BY <2>2 DEF Collect, task_complete, task_fail, tasks_complete, tasks_fail,
         scene_complete, scene_fail
    <3> QED
      BY <1>4, <3>1 DEF CleanUp, finish
  <2> QED
    BY <1>4, <2>1, <2>2 DEF CleanUp, finish, process_waitpid
<1>5. CASE IdleCall \/ EnterExec \/ DiskChecked \/ NothingToRun \/ Return
             \/ KillWorker \/ ReapWorker
  BY <1>5 DEF IdleCall, EnterExec, DiskChecked, NothingToRun, Return,
              KillWorker, ReapWorker, server, marks
<1>6. CASE Prepare \/ dump_signatures \/ SceneDone
  BY <1>6 DEF Prepare, dump_signatures, SceneDone, SceneFinished, ctl, IInv, ControlInv
<1>7. CASE FinishedNow
  BY <1>7 DEF FinishedNow, IInv, ControlInv, ContinueInv
<1>8. CASE TasksDone
  <2>1. failed_fnids = {} => runq_complete = T
    BY <1>8, Stuck DEF TasksDone, NeverStuck
  <2> QED
    BY <1>8, <2>1 DEF TasksDone, FinalState, marks
<1>9. CASE SceneInit \/ RunInit
  BY <1>9 DEF SceneInit, NewExecuteScenequeue, RunInit, NewExecuteTasks, ctl
<1>10. CASE CollectWorker
  <2>1. state \in {"SceneRun", "Running"} /\ rqexe' = rqexe /\ UNCHANGED <<request, checked>>
    BY <1>10 DEF CollectWorker, IInv, ControlInv
  <2>2. rqexe = "tasks" /\ failed_fnids' = {} => state' = state
    BY <1>10 DEF CollectWorker, process_waitpid, Collect, AfterFailure, task_fail, tasks_fail
  <2> QED
    BY <2>1, <2>2 DEF IInv, ControlInv
<1>11. CASE TasksExecute
  BY <1>11 DEF TasksExecute, SkipTask, NoexecTask, ForkTask, server
<1>12. CASE SceneExecute
  BY <1>12 DEF SceneExecute, SceneFailOutright, SceneSkip, SceneFork, server, IInv, ControlInv
<1>13. CASE \E t \in T : WorkerStep(t)
  BY <1>13 DEF WorkerStep, WorkerSetpgid, WorkerStamp, WorkerExit, WorkerFail,
               server, marks, ctl
<1> QED
  BY <1>1, <1>2, <1>3, <1>4, <1>5, <1>6, <1>7, <1>8, <1>9, <1>10, <1>11, <1>12, <1>13
     DEF Next, ServerStep

\* A build without setscene tasks that succeeds leaves every task with a current
\* stamp, so that the next build would skip it.
THEOREM Currents ==
    ASSUME Alike PROVE Spec => []CurrentAfterwards
<1> DEFINE Inv == IInv /\ ClockInv /\ InputsInv /\ CurrentInv /\ SharedInv /\ EndInv
<1>1. Init => CurrentInv /\ SharedInv /\ EndInv
  BY DEF Init, CurrentInv, SharedInv, EndInv, InTasks
<1>2. Init => Inv
  BY <1>1, InitIInv, InitStamps
<1>3. Inv /\ [Next]_vars => Inv'
  BY StepIInv, ClockStep, InputsStep, CurrentStep, SharedStep, EndStep
<1>4. ASSUME Inv PROVE CurrentAfterwards
  <2> SUFFICES ASSUME pc = "done", InTasks, Undisturbed, failed_fnids = {}, S = {},
                      NEW t \in T \ (covered \cup rqdata.nostamp),
                      \A d \in rqdata.depends[t] \cap rqdata.nostamp : ~InStampTree(t, d)
               PROVE  check_stamp_task(t)
    BY DEF CurrentAfterwards
  <2>1. runq_complete = T
    BY <1>4 DEF IInv, ControlInv, EndInv
  <2>2. Current(t)
    BY <1>4, <2>1 DEF CurrentInv
  <2> QED
    BY <2>2 DEF Current, check_stamp_task, DependCurrent
<1> HIDE DEF Inv
<1> QED
  BY <1>2, <1>3, <1>4, PTL DEF Spec
=============================================================================
