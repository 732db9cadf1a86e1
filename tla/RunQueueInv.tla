----------------------------- MODULE RunQueueInv -----------------------------
(***************************************************************************)
(* The inductive invariant of RunQueue: what its safety properties rest    *)
(* on.  TLC checks it; RunQueue_proofs proves it.                          *)
(***************************************************************************)
EXTENDS RunQueue

\* Which executor exists in which state, and where an idle call can be.
ControlInv ==
    /\ state = "Prepare" <=> rqexe = "none"
    /\ state = "Prepare" => pc \in {"idle", "exec"}
    /\ state = "SceneInit" => rqexe = "dummy" /\ pc = "exec"
    /\ state = "SceneRun" => rqexe = "scene"
    /\ state = "RunInit" => rqexe = "scene" /\ build_pids = {}
    /\ state = "Running" => rqexe = "tasks"
    /\ rqexe \in {"none", "dummy"} => build_pids = {} /\ stats = NewStats
    /\ pc = "collect" => state \in {"SceneRun", "Running"}
    /\ rqexe = "tasks" /\ rqdata.abort /\ failed_fnids # {}
         => state \in {"CleanUp"} \cup Final
    /\ pc = "done" => state \in Final
    /\ pc \in {"kill", "reap"} => aborted
    /\ state \in Final /\ ~aborted => build_pids = {}

\* A worker the server has not collected is in build_pids.  (Not the other way
\* round: finish_now waits for workers without removing them.)
WorkerInv ==
    /\ Children \subseteq build_pids
    /\ build_pids \subseteq runq_running

\* How the marks of the tasks relate to each other and to the workers.
TasksInv ==
    rqexe = "tasks" =>
        /\ runq_complete \subseteq runq_running
        /\ runq_running \subseteq runq_buildable
        /\ \A t \in T : t \in runq_buildable
                          <=> rqdata.depends[t] \subseteq runq_complete
        /\ \A t \in FailedTasks : rqdata.fn[t] \in failed_fnids
        /\ build_pids \cap runq_complete = {}
        /\ \A t, u \in build_pids : t # u => rqdata.stamp[t] # rqdata.stamp[u]

\* Once the scheduler has found nothing to run, only a worker that ends can
\* change that.
CollectInv ==
    pc = "collect" /\ rqexe \in {"tasks", "scene"} /\ stats.active = 0
        => runq_buildable \subseteq runq_running

\* What TasksInv says, for the setscene tasks.
SceneInv ==
    rqexe = "scene" =>
        /\ covered \cap notcovered = {}
        /\ Processed \subseteq S /\ runq_buildable \subseteq S
        /\ runq_running = Processed \cup build_pids
        /\ build_pids \cap Processed = {}
        /\ \A t \in (runq_buildable \ runq_running) \cup build_pids :
              t \in S /\ rqdata.sq_revdeps[t] \subseteq Processed
        /\ \A t \in S : rqdata.sq_revdeps[t] \subseteq Processed
                          => t \in runq_buildable

\* A build that continues after failures (-k), and that nothing stops, ends
\* when no task is left that could be started.
ContinueInv ==
    /\ aborted => ~Undisturbed
    /\ Undisturbed /\ InTasks /\ ~rqdata.abort =>
         /\ state \in {"Running"} \cup Final
         /\ state \in Final => runq_buildable \subseteq runq_running /\ build_pids = {}

\* Tasks that share a stamp file, as those do that fetch, unpack and patch the
\* sources of several gcc recipes, do not get in each other's way if all of them
\* have a stamp and look at the same stamps.
Looks(b, t) == {d \in b.depends[t] : b.fn[t] = b.fn[d] \/ d \in b.fulldeptree}

LooksAt(b, t) == {b.stamp[d] : d \in Looks(b, t)}

SharedAlike(b) ==
    \A t, u \in 1..b.total :
        t # u /\ b.stamp[t] = b.stamp[u] =>
            /\ t \in b.nostamp <=> u \in b.nostamp
            /\ t \notin b.nostamp => /\ Looks(b, t) \cap b.nostamp = {}
                                     /\ LooksAt(b, t) = LooksAt(b, u)

Alike == \A b \in Builds : SharedAlike(b)

\* The marks, the statistics, the workers and the state machine agree at every
\* step of an idle call, whatever the workers, the disks and the user do.
IInv ==
    /\ TypeOK
    /\ ControlInv
    /\ WorkerInv
    /\ TasksInv
    /\ CollectInv
    /\ SceneInv
    /\ ContinueInv
    /\ StatsCounted

=============================================================================
