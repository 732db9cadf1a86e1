----------------------------- MODULE BuildOrder -----------------------------
(***************************************************************************)
(* What a BitBake build promises about its tasks, without queues, workers, *)
(* signals or stop requests: a task is started, or skipped, when all it    *)
(* depends on is done; tasks with the same stamp are not active together;  *)
(* at most NumberTasks are active; what is done or failed stays so.        *)
(***************************************************************************)
EXTENDS Integers, FiniteSets

CONSTANTS
    Builds,       \* records with fields total, depends and stamp, at least
    NumberTasks

VARIABLES
    build,        \* the build; never changes
    status        \* what has become of each task

Tasks == 1..build.total

Active == {t \in Tasks : status[t] = "active"}

Ready(t) ==
    /\ status[t] = "waiting"
    /\ \A d \in build.depends[t] : status[d] = "done"

Becomes(t, s) ==
    /\ status' = [status EXCEPT ![t] = s]
    /\ UNCHANGED build

Start(t) ==
    /\ Ready(t)
    /\ Cardinality(Active) < NumberTasks
    /\ \A u \in Active : build.stamp[u] # build.stamp[t]
    /\ Becomes(t, "active")

\* A task whose result exists already, or that has no instructions.
Skip(t) == Ready(t) /\ Becomes(t, "done")

Finish(t) == status[t] = "active" /\ Becomes(t, "done")

Fail(t) == status[t] = "active" /\ Becomes(t, "failed")

Init ==
    /\ build \in Builds
    /\ status = [t \in Tasks |-> "waiting"]

Next == \E t \in Tasks : Start(t) \/ Skip(t) \/ Finish(t) \/ Fail(t)

Spec == Init /\ [][Next]_<<build, status>>

=============================================================================
