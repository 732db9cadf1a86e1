# BitBake: models, checks and proofs

The repository is Poky, a Linux distribution builder. Its program is BitBake
(`bitbake/`): it parses recipes, computes a graph of tasks and runs them in
parallel worker processes, skipping what stamps or a cache of earlier results
make unnecessary. Nearly everything else (recipes, classes, layers,
documentation) is data for it. Beside it, for the ML507 board, the repository
holds Xilinx' drivers in C (`xilinx-ml507/`). This directory models BitBake's
core, the run queue with the graphs it works on; the parser of recipes and its
processes; the metadata store; the file lock its processes share; and the DMA
driver of the board. It checks the models with TLC and proves safety properties
with TLAPS.

All paths below are relative to `bitbake/lib/bb/` unless they start with `meta/`
or `xilinx-ml507/`.

## 1. Inventory

| Component | State | Operations | Interacts with |
|---|---|---|---|
| Run queue (`runqueue.py`, `RunQueue`) | the state machine Prepare .. Complete/Failed, the executor | `execute_runqueue`, `finish_runqueue`, `check_stamp_task` | called by the cooker's idle function, owns an executor, calls the disk monitor |
| Executors (`RunQueueExecute` and the two classes derived from it) | buildable/running/complete marks, statistics, `build_pids`, `build_stamps`, failed recipes, covered sets | `execute`, `task_complete/fail/skip`, `finish`, `finish_now`, `runqueue_process_waitpid`, `fork_off_task` | fork, kill and wait for workers; read and write stamps |
| Task graph (`RunQueueData`) | tasks, dependencies, setscene tasks, priorities | `prepare`, `calculate_task_weights`, loop reports | reads TaskData and the recipe cache |
| Workers (`build.py`) | their stamp file, log, event pipe | `exec_task`, `make_stamp`, `del_stamp` | exit status to the queue, events through a pipe |
| Disk monitor (`monitordisk.py`) | `checked`, remembered sizes | `check` | stops the run queue |
| Cooker (`cooker.py`) | `state`, configuration, recipe cache | `buildTargets`, `buildFile`, `updateCache`, `shutdown`, `stop` | registers idle functions, owns the run queue and the parser |
| Server and commands (`server/`, `command.py`) | the idle functions, the command in progress, a pipe to the client | `main`, `idle_commands`, `runCommand`, `runAsyncCommand` | client on the other end of the pipe |
| Parser pool (`CookerParser`) | feeder, parser processes, three queues, counters | `start`, `parse_next`, `shutdown` | recipe cache, parser cache |
| Caches (`cache.py`, `codeparser.py`) | files and dictionaries | load, `sync`, `parser_cache_save`, `savemerge` | the file lock |
| File lock (`utils.py`) | a file name, its inode, `flock` | `lockfile`, `unlockfile`, `fileslocked` | tasks, fetcher, shared state classes, the server itself |
| Task data (`taskdata.py`, `providers.py`) | targets, providers, failed recipes | `add_unresolved`, `fail_fnid`, `remove_buildtarget` | run queue |
| Signatures (`siggen.py`) | hashes per task | `get_taskhash`, `dump_sigtask` | stamp names |
| Metadata store (`data_smart.py`, `COW.py`), parser (`parse/`) | variables and flags | set, get, expand, copy | everything |
| Events (`event.py`, `runQueuePipe`) | handlers, a queue per client, a pipe per worker | `fire`, `fire_from_worker` | user interfaces |
| Fetcher (`fetch2/`) | downloads, their `.done` stamps | `download`, `try_mirrors` | file lock |
| Persistent data and PR service (`persist_data.py`, `prserv/`) | SQLite tables | `__setitem__`, `getValue`, `importone` | recipes, fetcher |
| DMA rings (`xilinx-ml507/.../lldma_v1_01_a`) | per channel a ring of buffer descriptors in four groups, the run state, the engine's registers | `BdRingCreate/Clone/Alloc/UnAlloc/ToHw/FromHw/Free/Start`, `Reset`, `Pause`, `Resume` | the application, the DMA engine |
| Other board drivers (`xilinx-ml507/`) | registers, a started flag | generated vendor code | the hardware |

Behaviours that are hard: worker processes that exit, fail or are killed
between any two steps of the server; stop requests from users and full disks in
the middle of an idle call; failures that must stop some tasks and not others
(`-k`); stamps, compared in whole seconds, from earlier builds; outcomes of
setscene tasks in any order; a lock file that is removed while others wait for
it; recipes that move between a server, a feeder and parser processes through
queues that deliver late, while the user stops and resets; a DMA engine that
writes descriptors while the driver scans them. PROJECT.json lists the hazards
line by line.

What makes each part correct, in short:

* *run queue and executors*: dependencies first; exclusion of tasks that share a
  stamp; the limit on workers; statistics equal to what happened; failures
  contained; a stop is for good, collects the workers and ends; what runs has its
  inputs; after success everything is current.
* *task graph*: acyclic, reduced to what the targets need, priorities that order
  all tasks; *setscene graph*: acyclic and consistent with the task graph.
* *file lock*: exclusion, no file left behind, somebody gets through.
* *server and commands*: one command at a time, each answer goes to its command.
* *parser pool*: every recipe parsed once or an error; all processes end.
* *task data*: a failed provider removes exactly what needs it.
* *caches, fetcher, PR service*: nothing lost between two writers; no value
  handed out twice; a `.done` stamp only next to a complete file.
* *metadata store*: what is done to a copy does not reach its source; cached
  values are current; `finalize` gives each variable the value its overrides and
  appends ask for.
* *DMA rings*: descriptors pass through the four groups in order, none lost or
  duplicated, and come back as whole packets the engine is finished with.

## 2. Modules

| Module | Models |
|---|---|
| `TaskGraph` | `RunQueueData.prepare`: from metadata to the numbered graph of active tasks, weights; the schedulers' orders |
| `SceneGraph` | how the constructor of `RunQueueExecuteScenequeue` derives the graph of setscene tasks |
| `RunQueueExecute` | the state both executors share, `RunQueueStats`, stamps and `check_stamp_task`, worker processes |
| `RunQueueExecuteTasks` | `RunQueueExecuteTasks`: the constructor's cover computation, `setsceneverify`, how a task completes, fails or is skipped, the scheduler's choice |
| `RunQueueExecuteScenequeue` | `RunQueueExecuteScenequeue` for a given graph of setscene tasks |
| `RunQueue` | `execute_runqueue`, `finish`, `finish_now`, the disk monitor, the cooker's idle function, user requests; composes the three above; properties |
| `BuildOrder` | abstract specification: what a build promises about its tasks |
| `RunQueueInv`, `RunQueue_proofs` | the inductive invariant of `RunQueue`; theorems |
| `BuildGraphs_proofs` | theorems about `TaskGraph` and `SceneGraph`, and about the builds they make |
| `MCRunQueue` | the builds TLC checks; what is checked of the two graphs |
| `CookerParser`, `CookerParser_proofs`, `MCCookerParser` | the server's loop, an asynchronous command, `updateCache`, `CookerParser`, `Feeder` and `Parser`; theorems; instances |
| `COW`, `DataSmart`, `MCDataSmart` | the copy-on-write dictionary; the metadata store; instances |
| `Folding` | what a fold over a finite set, or a number of steps, establishes, by induction |
| `DataSmartOps_proofs`, `DataSmart_proofs` | what each operation does to a store; the inductive invariant and theorems |
| `LockFile`, `LockFile_proofs`, `MCLockFile` | `utils.lockfile`, `utils.unlockfile` and `flock(2)`; the inductive invariant; theorems; instances |
| `BdQueues` | abstract specification: four queues of buffer descriptors |
| `XLlDmaBdRing`, `XLlDmaBdRing_proofs` | the ring of one DMA channel, the application and the engine; theorems |

### The run queue

A *build* is a record (`rqdata`): number of tasks, dependencies, recipe, stamp
and name of each task, the setscene tasks and what they wait for, the special
kinds (noexec, nostamp, forced), and the flags. It is chosen once, in `Init`,
from the constant `Builds`, of which the modules assume that both graphs are
acyclic (`calculate_task_weights` refuses others, and the theorems `PreparedRuns`
and `SceneRuns` show that the graphs derived from metadata are such). `MCRunQueue`
writes most
builds down directly, so that all small graphs occur, and makes two of them,
`Image` and `Outputs`, from metadata with the operators of `TaskGraph` and
`SceneGraph`.

An idle call is divided at each point where it looks at, or acts on, something
outside the server: workers, disks, stamps. `pc` says where it is:

    idle -> exec -> disk -> run -> collect -> end -> return -> idle | done
              \________ finish_now: kill <-> reap _______/

Workers run between any two steps. A worker is a value of `proc`: forked (not
yet leader of its own process group), leader, stamped, and the three kinds of
zombies; `none` once it has been waited for. A user's request arrives between
two idle calls, which is when the server reads its command channel. Each method
of an executor is an operator, each branch of its `execute()` a disjunct.

Stamps are mtimes in whole seconds. A clock advances nondeterministically by at
most one second each time a stamp is made, so that equal and different seconds
both occur. `OldTime` bounds the age of stamps that exist at the start.

Abstracted: which schedulable task the scheduler prefers (any); the functions of
a task (they succeed or fail); events, logs, fakeroot, umask; `make_stamp`'s
removal and creation of the file are one step. Sets that the code computes by
loops over task ids are given as least fixed points (`CoveredPass`,
`CoveredClosure`).

### The graphs

`TaskGraph` is `prepare` as a function, in the steps the code's comments number:
each task's direct dependencies (`Direct`), the one pass that adds up what each
recipe needs (`reccumdepends`), `recrdeptask` (`Recursive`), what the targets
need (`mark_active`), weights, and the renumbering. The loops whose outcome
depends on the order of a Python dictionary give a set of results. Beside them
stands what they are for: `Needed` (recipes reached through any number of
others), `WeightsRight` (a task weighs what its dependents weigh together, or one
without any; cycles and nothing else are refused), `PlacesRight` (`completion`
gives each task one place, keeps a recipe's tasks together, heavier first, and
puts each recipe where its heaviest task belongs). `ClosureChecked` and
`OrderChecked` compare them over every small graph when TLC starts. A build
made by `prepare` carries what its metadata ask for in `after`, and the
invariant `MetadataOrder` says that a task runs after it.

`SceneGraph` is the walk `process_endpoints` down the task graph, with every
order in which a pass may take its tasks, and the explicit dependencies.
`WalkChecked` says that each setscene task gets exactly the setscene tasks that
reach it through others, for every graph of four tasks, every choice of setscene
tasks no two of which are neighbours (`Apart`), and every way from two of six
tasks down to a third. Where one setscene task depends directly on another, as
`do_package_write_ipk` does on `do_package`, the result depends on the order:
the lower one may not wait for the upper. What still holds then is checked too
(`WellFormed`: the walk ends, and a task waits for nothing that does not depend
on it); it costs work that was not needed, never an input. `NamesChecked`: names,
also in a circle, make no cycle. The invariant `SceneWaits` says the same of what
is forked, for every task that no setscene task depends on directly; the build
`Written` has both kinds.

Both modules write the code's loops and recursions as recursive functions of the
number of steps taken, which can be proved about (section 5): the walk, which
calls itself once for each pass, as a function to the set of its states after so
many steps.

### The parser

The server runs one step at a time: what it does in one idle call between two
looks at a queue. The feeder's loop and the parsers' loops are actions of their
own; a recipe is in the feeder's list, its hand, the job queue, a parser's hand
or the result queue. Queues of `multiprocessing` deliver some time after `put`,
and their readers poll, so a message that is there may be missed; recipes are
alike and the order of a queue is left open, as no property is about it.
`sys.exit` from inside a parse is what the code makes of it: the command ends,
the idle function is gone. A process that is replaced by a new parser's is told
to end first and then leaves the model. The client may send a command, a reset,
a shutdown or a stop, or end the server, at any time that the server listens.

### The metadata store

A state is the stores' dictionaries, each a copy linked to its source, the two
registers `_seen_overrides` and `_special_values` (copy-on-write dictionaries,
`COW`), the caches and the lists of pending appends, which are objects of their
own since `copy.copy` of a variable's dictionary shares them. A text is a
sequence of words and a word that is a variable a reference to it; `Plain` are the
variables that texts may refer to, of which the texts refer to none, so that
references go one level deep. Two ghost
variables name what the code does not promise: `late`, the copies whose source
was changed afterwards (a copy looks through to its source, but its registers
and cache do not), and `flagged`, the stores with a flag set since the cache was
last empty (`setVarFlag` of a weak default does not clear it).

### The DMA ring

Descriptors are numbered by their place; groups are heads and counts, as in
`XLlDma_BdRing`. Of a descriptor the model keeps the bits COMPLETED and EOP and
whether the engine's last words of a received packet have arrived, since the
engine sets the bits first. The application calls what the documentation allows,
any number of descriptors at a time, with sets that `ToHw` refuses at any
descriptor after it has scrubbed those before, and starts, resets, pauses and
resumes channels in any order. Of the other channel the model keeps whether it
is started, since `XLlDma_Pause` and `XLlDma_Resume` act on both and return at
once only where both are stopped, or started; so a channel that was never
started may be paused, and resumed into the state started with no CDESC. The
driver requires that no call is made while another lasts; the engine runs
beside them all the same. `XLlDma_Reset` is two steps for that reason:
`SnapShot`, which saves CDESC of both rings (`xlldma.c:169`), and `SwReset`, from
SW_RESET on (173), which aborts what the engine is doing, also between the bits
COMPLETED and EOP of a received packet and its last words.

Of the hardware the code assumes, and the model takes: the engine runs from CDESC
until TDESC; a software reset leaves the registers as they are (177-181), but
ends the work TDESC had set the engine to; a pause waits for what the receive
channel still has to write (256). Nothing in the repository says that the engine
looks at the COMPLETED bit of a descriptor it comes to, so it does not. The board's
build is the one for HDMA (`ppc440_0/include/xparameters.h:323` defines
XPAR_XLLDMA_USE_DCR, and `xlldma_hw.h:91` goes by that), so that pausing stops the
engine; the branches for SDMA, where Pause and Resume only set the run state,
are not compiled and not modelled. The SOP bit is left out.

The history variable `strayed` says that the engine has lost its place, which
happens in four ways, each of them necessary (`RingInv` fails without it):

* the engine passes a descriptor between `SnapShot` and `SwReset`: the place
  saved "so later we can resume the rings smoothly" (166-168) is then behind the
  engine, and may be a descriptor that `FromHw` returns before the restart. The
  driver's documentation stops the channels before a reset; the error handlers
  of the example (`xlltemac_example_intr_sgdma.c:1320`, `1392`) reset with the other
  channel running;
* a channel that was never started is reset: CDESC was never written, and
  `BdaRestart`, "the 1st BD in the ring if this is the first time starting the
  channel", is overwritten with whatever it holds;
* a channel that was never started is resumed, and then counts as started;
* a paused channel is started (`BdRingStart` looks at the run state only), which
  writes the restart place of the last reset.

From then on only what the driver alone keeps is promised: the four groups, and
the order of the queues (`Lose` of `BdQueues` leaves open which descriptors of
the work group are finished). Without it the properties hold, resets in the
middle of a packet included: a descriptor left with COMPLETED and EOP but without
its last words is held back by `FromHw` and processed again after the restart. (Where it is
the last one, `BdRingStart` takes its COMPLETED bit for done and writes no TDESC, so
that it waits for the next descriptor; no property promises more.)
Nothing is said of an engine that was never told where its ring is.

### The file lock

One step is one system call. `exists` and `stat` in `lockfile` are one step: the
file vanishing in between raises an exception, with the same outcome as finding
it gone. An inode still open somewhere is not given to a new file.
`drops`, chosen once from `DropsFirst`, says whether `flock` gives up a lock before it
converts it, as its manual page says it does. `Calls` are the pairs of mode and
`retry` in use: who does not wait locks exclusively (`cooker.py:148`,
`codeparser.py:84`). Locks inherited over fork are not modelled.

## 3. Runs

| Run | Instance | Question |
|---|---|---|
| `builds` | all 3-task graphs, of one or two recipes, `-k` or not, noexec/nostamp/forced tasks, shared stamps, old stamps of age 0..1; recipes with cached outputs, every cache content, `sysroot_checkhashes`; two builds prepared from metadata; a disk with STOPTASKS | order of tasks and setscene tasks against metadata, sanity checks, containment of failures, stamps after success, inputs, refinement of `BuildOrder` |
| `stop` | chains, wedges, fans, independent tasks, shared stamps, a cached build; shutdown, stop, an ABORT disk, failures | exclusion, counting, collection of workers, `StoppedForGood`, the inductive invariant, and that the build ends |
| `abort` (violation) | six builds; a stop | see findings |
| `disks` (violation) | one disk of each action | see findings |
| `parse` | three recipes, two parser processes, two commands, one reset, one killed process, parse errors | complete parses, no process left behind, commands and server end |
| `revisions` (violation) | the same, with one `compareRevisions` | see findings |
| `data` | two stores, a variable with two overrides, appends, prepends, a weak default and a reference; five calls | registers, cache, `finalize`, isolation of the source |
| `appends` (violation) | one store; `A_foo` set, appended to, with `foo` active | see findings |
| `bdring` | three descriptors, either channel, the other started or not | the inductive invariant, whole packets, refinement of `BdQueues` |
| `resume` (violation) | two descriptors | see findings |
| `lock` | three processes, shared and exclusive, waiting or not, killed at any step, either kind of conversion | exclusion (where a conversion is one step), removal of the file, progress |
| `lock_convert` (violation) | as `lock`, with a conversion that drops the lock | see findings |

Why these bounds are enough to be interesting: three tasks give every shape of
dependency (chain, fork, join, independent) and two workers give concurrency at
the limit, with a third task waiting for a slot; four tasks are used where two
recipes share a stamp and both have a dependent. Larger builds repeat these
shapes, and what the inductive invariant says has been proved for all of them.
Two disks are needed for the two actions to meet. Three recipes are more than
the job queue of two processes holds, so that the feeder takes one back; one
killed process and one reset bring each way out of a parse. Two stores are a
source and its copy, and five calls suffice to set a variable, copy the store,
and add, rename and finalize in either; `getVar` is not counted, and `FinalRight`
looks one `finalize` beyond. (Smaller inputs were also explored without a bound
on calls.) Three descriptors let a packet of two and another be in different
groups while the ring wraps; the proofs cover every length. For the lock, a holder, one who
has opened the file the holder removes, and one who creates the next file are the
three roles; three inodes suffice, two open and one new.
`lock_convert` uses symmetry of processes and inodes (no temporal property there).

Deadlock is checked but in `parse` and `revisions`, whose server ends.
`Terminated` (a build that is over, no workers) stutters.

**Fairness.** `FairSpec` of the run queue: the server's loop calls the idle
function again and again (weak fairness of `ServerStep`), and a worker that
runs ends (weak fairness of each task's `WorkerStep`): its functions are assumed
to terminate, there is no timeout in the code. No fairness for requests and
disks. `FairSpec` of the lock: a process that runs goes on and leaves its
critical section. `flock` is not fair to any process, so `Progress` says only
that some process gets through; `lockfile`'s comment says itself that it is unfair.
`Progress` assumes that processes are not killed for ever. `FairSpec` of the
parser: the server's loop, the feeder and each parser process go on (weak
fairness: they are loops with timeouts of their own), and the feeder, which
polls its quit queue in every round and may miss a message that is under way,
finds it some time (strong fairness of `FeederQuits`). No fairness for the
client or for deaths. `CommandEnds` and `ServerExits` except runs in which a
parser process was killed, where the code does wait for ever
(`cooker.py:1633`).

### What the stamp properties say

`CurrentAfterwards`: after a successful build without a cache, each task would be
skipped by the next build. (With a cache `setsceneverify` may take back a cover
and leave those below it, so that a task is executed on one without a stamp.) Tasks
without stamps make their dependents run each time, so these are excepted.
`RerunPropagates`: who looks at
the stamp of a task that was executed is executed too, or shares its stamp with
one that was. It is checked with old stamps older than the build. `OldTime < Now`
is a real limit of it: with an old stamp of the very second the build starts in,
equal mtimes count as current (`runqueue.py:922`, `930`).

`ExecutedOnInputs`: a task that is executed finds its dependencies executed,
stamped or installed from the cache. It has one exception, `TakenBack`, that the
code has too: `setsceneverify` removes tasks from the covered set after the
closure was computed (1262-1271), so that a task may run while the task it
depends on remains covered only because of it. The build `TwoBranches` of
`MCRunQueue` reaches that state: `do_populate_sysroot` runs, `do_install` does not.

## 4. Findings

* `abort`: `finish_now` misses a worker that has been forked but has not called
  `setpgid`; the build is over and the worker goes on.
* `disks`: ABORT followed by STOPTASKS within one check leaves `CleanUp` with
  active workers counted and no children; every later idle call raises.
* `lock_convert`: the promotion in `unlockfile` can remove somebody else's file.
* `resume`: descriptors committed while a channel is paused are not processed
  after `XLlDma_Resume`, which writes no TDESC, although its description says so.
* `revisions`: a stop during the parse that `compareRevisions` needs leaves the
  parser processes running, and the server waits for them for ever. (The method
  of `reparseFiles` does not call `updateCache` either; `command.py:335`.)
* `appends`: the manual (`bitbake/doc/manual/usermanual.xml:274`, `283`) says that
  `A_foo_append` is appended to `A_foo`, which then replaces `A` if `foo` is active.
  `finalize` applies overrides first, and `delVar` takes what is pending for `A_foo`
  with it: where `A_foo` has a value, the append is lost for good. (Where it has
  none, the first call gives it the value, and the second, which a recipe gets,
  makes that `A`'s.) `FinalRight` says nothing of a variable's value where this
  applies.

Seen while reading, without a run: `--tryaltconfigs` keeps a failed queue in
Failed after `reset()` (983-988) and is only entered when alternatives exist;
`RunQueueExecuteDummy` inherits `finish_now`, which reads lists that its constructor
(1212) does not make, but it only outlives the first idle call when the
constructor of the setscene executor raises; the branch for an empty queue in
`execute()` is not reached since `prepare` returns 0 first; `BB_NUMBER_THREADS =
"0"` would never run a task (the models assume at least 1).

The task graph: `recrdeptask` reaches a recipe only through tasks some task
depends on, so comments (483-485, 512-514) and manual say more than the code
does; classes work around it with `addtask xall after do_x`. `if not setscene`
(704) overlooks a setscene variant that is task 0.

The parser: after a parse error the state stays "parsing" with an exhausted
generator, so the next command runs on the recipes parsed so far (1202);
`AllParsed` leaves this case out.

The metadata store: the default arguments of `DataSmart.__init__` (112) are
evaluated once, so that all stores without a source share their registers, and
`finalize` of one may take None from a variable only another has. `delVarFlags`
(nobody calls it) of a variable without content removes the copy's layer, so
that the source's flags and value come back. `__iter__` lists a variable that
was deleted in a copy, and `get_hash` counts it as empty. In `COW`, deleting a
key with a mutable value leaves a marker that hides a later one.

## 5. Proofs

`RunQueue_proofs` proves for every set of builds that meets the assumptions (any
number of tasks), every positive number of threads and any sets of disks:

* `Invariance`: `Spec => []IInv`. `IInv` is the inductive invariant: the type
  invariant and, in named parts, which executor and `pc` go with which state
  (`ControlInv`); children of the server are in `build_pids` (`WorkerInv`, not
  conversely: `finish_now` waits without updating it); buildable is the same as
  "all dependencies complete", running workers have distinct stamps (`TasksInv`);
  when nothing is active at `collect`, nothing buildable is left (`CollectInv`);
  the same for setscene tasks (`SceneInv`); what an undisturbed `-k` build keeps
  (`ContinueInv`); `StatsCounted`. The properties alone are not inductive:
  `DependenciesFirst` needs the meaning of "buildable", `StatsCounted` needs that
  a collected worker was in `build_pids`, and so on. One lemma per action group
  shows that it is preserved.
* From it: `TypeOK`, `DependenciesFirst`, `StampExclusive`, `StatsCounted`,
  `SceneOrder`, `WorkersCollected`.
* From it and acyclicity, by taking a minimal element of a set of tasks:
  `NeverStuck` (the tasks that are not complete), `SceneNeverStuck`,
  `FailureContained`; `NoOverlap` from the closure of the set of complete tasks
  under dependencies.
* `StoppedForGood` and the refinement of `BuildOrder` (`ImplementsOrder`), step
  by step from the invariant.

Its second part, about stamps, builds on `IInv` and proves:

* `Inputs`: `ExecutedOnInputs`, for every build. What is complete was executed,
  covered or has a stamp (`InputsInv`), and the constructor's closure covers a task
  that no setscene task installed only together with all that depend on it
  (`ClosureUp`, from the definition as a least set); so one of these that is
  executed all the same was taken back.
* `Reruns`: `RerunPropagates`, under `Distinguishable`. The stamp of an executed
  task is of this build and not older than its setscene stamp (`Written`), and every
  stamp of this build belongs to an executed task (`RanInv`); a dependent whose
  stamp is current against it is of this build too. The first assumption,
  `OldTime < Now`, is the one above. The second, that a task with a setscene variant
  has a stamp, is one that the proof asked for: a task without a stamp whose setscene
  stamp is an old one may be forced and executed, and `check_stamp_task` still takes
  the old setscene stamp as newer and lets its dependents be skipped.
* `Currents`: `CurrentAfterwards`. A task writes its stamp when what it depends on is
  complete, and nobody writes those stamps again (`CurrentInv`); a build that nobody
  disturbs ends with every task complete (`EndInv`). Tasks may share a stamp if they
  look at the same stamps and all of those are written (`Alike`): when one of them is
  complete, the others are found current and skipped, so that whoever is at a stamp
  finds nobody complete who has it (`SharedInv`). The tasks that share stamps in the
  metadata, `do_fetch`, `do_unpack` and `do_patch` of the gcc recipes
  (`gcc-common.inc:61`), each look at the one before. `Alike` is needed: if only one
  of two looks at a third task's stamp, or at a task that has none, it may run after
  the other and what depends on that, which are then out of date (TLC finds this at
  once in builds of four tasks). `SharingChecked` shows that the builds of the runs
  meet it, `Shared` among them.

`BuildGraphs_proofs` proves about `TaskGraph`, for any metadata whose names stand
for tasks (`TaskData`; where they do not, `prepare` ends):

* `OnePass`: `reccumdepends` is `Needed`. One pass is enough because the sets it
  adds grow under it: after step `k` a recipe that depends on one of the first `k`
  tasks has what that task's recipe depends on itself (`passInv`), so that after
  the last step the recipes in a set are closed under dependency.
* `RefusesCircles`: `calculate_task_weights` gives a result exactly when there is no
  cycle. The tasks done are those whose dependents have all passed on their weight
  (`roundInv`); at the end the tasks left, if any, have a topmost one among them
  (`Upwards`) unless they contain a cycle.
* `Weighed`: `WeightsRight`, for every graph. A task's weight is at any time what those
  above it that have passed theirs on weigh together, and the weight of a task that is
  done does not change any more (also `roundInv`). Sums over sets are folds, so that
  `TotalAny` and `TotalUnion`, that they do not depend on the order of adding, rest on
  `Folding`.
* `PreparedRight`: the build made depends, in its own numbers, on exactly what the
  metadata ask for (`Asked`), and nothing that a task left depends on has been
  pruned (`ActiveClosed`): "Invalid mapping - Should never happen!" does not.
  `PreparedRuns`: such a build meets the run queue's assumptions. `MetadataKept`:
  so `MetadataOrder` holds of every run of it.

and about `SceneGraph`, for any task graph without a cycle, any setscene tasks and
any order of the walk:

* `WalkSound`: the walk ends within the steps that `Walks` allows, as after `j`
  passes its points have at least `j` tasks above them (`Deep`); a task has been
  reached only from above (`Reaches`); and what has been reached is taken further
  (`Held`), so that "Something went badly wrong" is never reported.
* `WalkComplete`: a setscene task on which none depends directly is given all
  above it (`Carried`: what is not there yet is at a point it will come from, though
  `newendpoints` keeps one set for each point and overwrites it). `WalkRight`:
  where setscene tasks are apart it is given nothing else, so that the result is
  one (`Derived`).
* `SceneRuns`: the graph derived has no cycle, since each task waits for tasks above
  it (`AboveNoCycle`) and what is named forgets what it waited for
  (`NamedNoCycle`). `SceneKept`: so `SceneWaits` holds.

`LockFile_proofs` proves `LockInv` and `MutualExclusion` for any number of
processes and inodes. Both say what they say where a conversion is one step or
the lock is only used exclusively (`ConvertsAtOnce`), which is exactly what
`lock_convert` is about.
`Removed`, that is `CleanedUp`, needs neither: while the file exists,
somebody has it open who will look after it (`Attended`), as whoever gives up or
fails to convert leaves it to one who has a lock on it.

`CookerParser_proofs` proves for any numbers of recipes, processes, commands,
resets and killed processes, assuming that every command updates the cache first:

* `ParseInvariance`: `Spec => []ParseInv`, which is inductive: a recipe that is
  being parsed is in one place, from the feeder's list to the result queue, and
  not in `status` yet (`OnTheWay`), so that the number of results taken is the
  number of recipes in `status` (`Counted`); whoever runs has been told to end, or
  a command is active that will tell it (`ShutDown`).
* `Parsed` and `Orphans`: `AllParsed`, because a finite set of results as large as
  `willparse` is `willparse`, and `NoOrphans`.

The assumption leaves out `compareRevisions` and `reparseFiles`, which end without
looking at the parser that was started for them: this is the run `revisions`.

`XLlDmaBdRing_proofs` proves for rings of every length, on either channel:

* `RingInvariance`: `Spec => []RingInv`, which is inductive: the four groups
  follow one another around the ring and fill it (`Groups`), whatever the engine
  does; and unless it has strayed, the engine, or the place it will start again
  from, is at a descriptor of the work group or just past it, all before are
  finished and none after has a stale COMPLETED bit, but for the next one if a
  reset cut it off before its last words, and TDESC is among those (`Processed`);
  the registers agree with the run state, and while a reset lasts the place saved
  is the engine's (`ChannelInv`).
* `PacketsWhole`: `WholePackets`, which is part of what `FromHw` keeps.
* `QueuesImplemented`: every step of the ring is a step of `BdQueues` or a
  stutter, from lemmas about sequences cut from a ring; a step in which, or after
  which, the engine has lost its place is one of `Lose`.

`DataSmart_proofs` proves for any variables, overrides, texts and number of stores
(`DataAssumption` names what the inputs are: texts of their variable's words, and
references that go to plain variables only; `ValueAssumption`, that `None`,
`Unset` and `Absent` are none of the other values; `NameAssumption`, that a name is
its base's and its override's together):

* `SpecDataInv`: the inductive invariant. A store's bases are older stores
  (`Linked`); dictionaries, registers and lists are of their types, with only
  variables of an override registered with it and something in every list that a
  variable holds (`Good`); a store that is not made yet holds nothing (`NotMade`),
  which is what makes a copy answer as its source; the lists held are those that
  are not empty. From it: `TypeOK`.
* `SpecIsolation`: `Isolation`. Each operation writes rows of its own store only
  and leaves the lists that others hold alone (`Elsewhere`), because what it puts
  into a dictionary is a list nobody holds (`FreshList`, by counting places).
* `SpecRegisteredRight`: `RegisteredRight`. Each operation, `finalize` and
  `renameVar` included, keeps the registers right (`Right`); a copy takes its
  source's place and its ghost `late` with it. That last part was missing from the
  model until the proof asked for it: the copy of a late copy is late as well.
* `SpecCacheFresh`: `CacheFresh`, which is inductive with the invariant. An
  operation empties the cache, changes no value, or sets a flag (`Current`); what
  reading adds is an expansion with cached values of plain variables, which are
  their texts (`ResolvedPlain`).
* `SpecFinalRight`: `FinalRight`, of any store in any reachable state, by what the
  registers say (`RegisteredRight`) and an invariant for each fold of `finalize`.
  While overrides are applied (`overInv`) a variable has the value of the last of
  them so far, those that gave theirs have none any more, and the rest are as they
  were; an override listed twice counts where it is first, as it then finds nothing.
  While what is pending is applied (`valueInv`), the value is what it was with the
  words of the items so far joined to it (`Joined`), whatever order the variables
  are taken in (`combinedInv`); `InOrder` of `Folding` sets the fold that adds to
  the value beside the one that collects the words. `FinalRight` is about variables
  that are in no name with two overrides: `A_foo_bar` becomes `A_foo` where `bar` is
  active, and that becomes `A` only if `foo` comes later in OVERRIDES.

`DataSmartOps_proofs` has a lemma for each operation. `finalize` is three folds
inside each other, over OVERRIDES, the variables registered and the lists of
pending texts. The library's induction theorems cannot be used for them (they
take an operator); `Folding` declares the step, the order of picking and the
predicate as CONSTANTS instead, proves the induction from the well-foundedness of
strict inclusion, and is instantiated for each fold and what is said of it. Its lemma
`Stepped` does the same for steps that are numbered, as those of the two graphs are.
These lemmas say nothing of the code by themselves.

Model-checked only: `BuildEnds`, `Progress`, `CommandEnds`, `ServerExits`
(liveness is outside TLAPS' reach here); the schedulers' orders (`PlacesRight`):
`completion` is recursive over sequences, and no safety property depends on it; the
violations.

## 6. Not modelled

What would come next, in this order: the client's loop, its half-second poll
(`server/process.py:48`) and the events that end it (`ui/knotty.py:243`);
`fileslocked` over several lock files; the PR service and persistent dictionaries,
which need a model of SQLite's transactions; failed providers (`taskdata.py:485`).

Parts left aside, and why: expansion and text parsing (strings), hashing, the
user interfaces (presentation), other server transports (the same loop), the
fetcher (external tools), events (handlers called in turn), vendored code
(`pysh`, `ply`), the board's other drivers (thin layers over registers whose
hardware the repository does not describe), and recipes and classes other than
the function the run queue calls (`sysroot_checkhashes`).
