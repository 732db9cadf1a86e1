------------------------------ MODULE LockFile ------------------------------
(***************************************************************************)
(* lockfile and unlockfile (bitbake/lib/bb/utils.py): mutual exclusion     *)
(* between processes by flock on a file that the last user removes.  Its   *)
(* users are the tasks' lockfiles, the fetcher, the shared state classes,  *)
(* the parser cache and the server itself (bitbake.lock).                  *)
(*                                                                         *)
(* The file has a name and the name refers to an inode; every step is one  *)
(* system call of one process.  The kernel's flock is modelled from        *)
(* flock(2) as the code relies on it.                                      *)
(***************************************************************************)

CONSTANTS
    Process,     \* the processes that use the lock
    Inode,       \* inodes the file system may give the file
    NoInode,     \* the file does not exist
    Calls,       \* the pairs of a mode and retry that callers pass: the
                 \* server's bitbake.lock and the parser cache's numbered
                 \* files are locked exclusively with retry FALSE
    DropsFirst   \* what flock may be like: the values of drops

VARIABLES
    name,    \* the inode the lock file's name refers to
    pc,      \* what each process does next
    fd,      \* the inode a process has opened
    lock,    \* the lock a process has on that inode
    mode,    \* the arguments of its call to lockfile, while it lasts
    retry,
    killed,  \* history: a process was killed before it had unlocked
    drops    \* whether flock drops a lock before it converts it: others may
             \* run in between, as flock(2) allows

vars == <<name, pc, fd, lock, mode, retry, killed, drops>>

args == <<mode, retry>>

ASSUME LockAssumption ==
    /\ NoInode \notin Inode
    /\ Calls \subseteq {"exclusive", "shared"} \X BOOLEAN
    /\ DropsFirst \subseteq BOOLEAN

Modes == {c[1] : c \in Calls}

-----------------------------------------------------------------------------
(* flock(2) *)

Grantable(p, m) ==
    \A q \in Process \ {p} :
        fd[q] = fd[p] => \/ lock[q] = "none"
                         \/ m = "shared" /\ lock[q] = "shared"

\* close(2), also by the exit of the process: the lock is gone.
Closed(p) ==
    /\ fd' = [fd EXCEPT ![p] = NoInode]
    /\ lock' = [lock EXCEPT ![p] = "none"]

Goto(p, where) == pc' = [pc EXCEPT ![p] = where]

\* The process is done with the lock, with or without having had it.
Done(p) ==
    /\ Closed(p)
    /\ Goto(p, "idle")
    /\ mode' = [mode EXCEPT ![p] = "none"]
    /\ retry' = [retry EXCEPT ![p] = TRUE]

-----------------------------------------------------------------------------
(* lockfile(name, shared, retry) *)

Call(p) ==
    /\ pc[p] = "idle"
    /\ \E c \in Calls :
         /\ mode' = [mode EXCEPT ![p] = c[1]]
         /\ retry' = [retry EXCEPT ![p] = c[2]]
    /\ Goto(p, "open")
    /\ UNCHANGED <<name, fd, lock, killed>>

\* open(name, "a+") creates the file if there is none.  An inode that some
\* process still has open is not used again.
Open(p) ==
    /\ pc[p] = "open"
    /\ \E i \in Inode :
         /\ IF name = NoInode THEN \A q \in Process : fd[q] # i ELSE i = name
         /\ name' = i
         /\ fd' = [fd EXCEPT ![p] = i]
    /\ Goto(p, "flock")
    /\ UNCHANGED <<lock, args, killed>>

\* The lock is granted, or it is not and LOCK_NB makes lockfile return None.
Flock(p) ==
    /\ pc[p] = "flock"
    /\ Grantable(p, mode[p])
    /\ lock' = [lock EXCEPT ![p] = mode[p]]
    /\ Goto(p, "stat")
    /\ UNCHANGED <<name, fd, args, killed>>

Refused(p) ==
    /\ pc[p] = "flock"
    /\ ~Grantable(p, mode[p]) /\ ~retry[p]
    /\ Done(p)
    /\ UNCHANGED <<name, killed>>

Stat_Exists(p) ==
    /\ pc[p] = "stat"
    /\ \/ name # NoInode /\ Goto(p, "held") /\ UNCHANGED <<fd, lock, args>>
       \/ name = NoInode /\ retry[p] /\ Closed(p) /\ Goto(p, "open") /\ UNCHANGED args
       \/ name = NoInode /\ ~retry[p] /\ Done(p)
    /\ UNCHANGED <<name, killed>>

Stat_SameFile(p) ==
    /\ pc[p] = "stat"
    /\ \/ name = fd[p] /\ Goto(p, "held") /\ UNCHANGED <<fd, lock, args>>
       \/ name # fd[p] /\ retry[p] /\ Goto(p, "flock") /\ UNCHANGED <<fd, lock, args>>
       \/ name # fd[p] /\ ~retry[p] /\ Done(p)
    /\ UNCHANGED <<name, killed>>

\* The file that was locked must still be the lock file on disk.
Stat(p) ==
    /\ pc[p] = "stat"
    /\ \/ name = fd[p] /\ Goto(p, "held") /\ UNCHANGED <<fd, lock, args>>
       \/ name # fd[p] /\ retry[p] /\ Closed(p) /\ Goto(p, "open") /\ UNCHANGED args
       \/ name # fd[p] /\ ~retry[p] /\ Done(p)
    /\ UNCHANGED <<name, killed>>

-----------------------------------------------------------------------------
(* unlockfile *)

\* flock(LOCK_EX | LOCK_NB).  A process whose conversion fails has lost the
\* lock it had, and does not remove the file.
Converted(p) ==
    /\ \/ /\ Grantable(p, "exclusive")
          /\ lock' = [lock EXCEPT ![p] = "exclusive"]
          /\ Goto(p, "unlink")
       \/ /\ ~Grantable(p, "exclusive")
          /\ lock' = [lock EXCEPT ![p] = "none"]
          /\ Goto(p, "release")
    /\ UNCHANGED <<name, fd, args, killed>>

Promote(p) ==
    /\ pc[p] = "held"
    /\ lock[p] = "exclusive" \/ ~drops
    /\ Converted(p)

PromoteDrop(p) ==
    /\ pc[p] = "held"
    /\ lock[p] = "shared" /\ drops
    /\ lock' = [lock EXCEPT ![p] = "none"]
    /\ Goto(p, "convert")
    /\ UNCHANGED <<name, fd, args, killed>>

PromoteConvert(p) ==
    /\ pc[p] = "convert"
    /\ Converted(p)

Unlink_Never(p) ==
    /\ pc[p] = "unlink"
    /\ Goto(p, "release")
    /\ UNCHANGED <<name, fd, lock, args, killed>>

\* os.unlink(lf.name): whatever file has the name now.
Unlink(p) ==
    /\ pc[p] = "unlink"
    /\ name' = NoInode
    /\ Goto(p, "release")
    /\ UNCHANGED <<fd, lock, args, killed>>

\* LOCK_UN and close.
Release(p) ==
    /\ pc[p] = "release"
    /\ Done(p)
    /\ UNCHANGED <<name, killed>>

\* A task's worker is killed, or the server dies.
Kill(p) ==
    /\ pc[p] # "idle"
    /\ Done(p)
    /\ killed' = TRUE
    /\ UNCHANGED name

-----------------------------------------------------------------------------

Init ==
    /\ name = NoInode
    /\ pc = [p \in Process |-> "idle"]
    /\ fd = [p \in Process |-> NoInode]
    /\ lock = [p \in Process |-> "none"]
    /\ mode = [p \in Process |-> "none"]
    /\ retry = [p \in Process |-> TRUE]
    /\ killed = FALSE
    /\ drops \in DropsFirst

Lock(p) == Open(p) \/ Flock(p) \/ Refused(p) \/ Stat(p)

Unlock(p) ==
    Promote(p) \/ PromoteDrop(p) \/ PromoteConvert(p) \/ Unlink(p) \/ Release(p)

Next ==
    /\ \E p \in Process : Call(p) \/ Lock(p) \/ Unlock(p) \/ Kill(p)
    /\ UNCHANGED drops

Spec == Init /\ [][Next]_vars

\* A process that runs goes on, and its critical section ends.  flock wakes
\* some waiting process, not every one in turn.
FairSpec ==
    Spec /\ \A p \in Process : WF_vars((Lock(p) \/ Unlock(p)) /\ UNCHANGED drops)

-----------------------------------------------------------------------------
(* Properties *)

Holds(p) == pc[p] = "held"

Waits(p) == pc[p] \in {"open", "flock", "stat"}

TypeOK ==
    /\ name \in Inode \cup {NoInode}
    /\ pc \in [Process -> {"idle", "open", "flock", "stat", "held", "convert",
                           "unlink", "release"}]
    /\ fd \in [Process -> Inode \cup {NoInode}]
    /\ lock \in [Process -> {"none", "shared", "exclusive"}]
    /\ mode \in [Process -> Modes \cup {"none"}]
    /\ retry \in [Process -> BOOLEAN]
    /\ killed \in BOOLEAN
    /\ drops \in DropsFirst

\* A process that holds the lock exclusively holds it alone, as the comments of
\* lockfile and unlockfile have it, although waiting processes may have opened,
\* and be granted, a file that is removed.
OneHolder ==
    \A p, q \in Process :
        p # q /\ Holds(p) /\ Holds(q) => mode[p] = "shared" /\ mode[q] = "shared"

\* Nobody can take the file while a lock is converted.
ConvertsAtOnce == ~drops \/ Modes = {"exclusive"}

\* It does so where flock converts a lock in one step or nobody shares it.
MutualExclusion == ConvertsAtOnce => OneHolder

\* No lock file is left behind when nobody uses it: the last of several
\* processes that share the lock succeeds in removing it.
CleanedUp ==
    (\A p \in Process : pc[p] = "idle") /\ ~killed => name = NoInode

\* While processes wait, some process gets the lock (or all of them give up),
\* if processes are not killed for ever: a retry is always somebody's success.
Progress ==
    <>[][\A p \in Process : ~Kill(p)]_vars =>
        ((\E p \in Process : Waits(p)) ~>
            (\E p \in Process : Holds(p)) \/ (\A p \in Process : ~Waits(p)))

\* The inductive invariant.  Where conversions are atomic, whoever is past the
\* check of the inodes has the file that has the name, and a lock on it; whoever
\* removes the file has the only lock.
Own(p) ==
    /\ fd[p] = NoInode <=> pc[p] \in {"idle", "open"}
    /\ pc[p] \in {"idle", "open", "flock"} => lock[p] = "none"
    /\ pc[p] # "idle" => mode[p] \in Modes
    /\ pc[p] \in {"stat", "held"} => lock[p] = mode[p]
    /\ pc[p] = "unlink" => lock[p] = "exclusive"
    /\ pc[p] \in {"held", "unlink"} => fd[p] = name
    /\ pc[p] # "convert"

Alone ==
    \A p, q \in Process :
        p # q /\ fd[p] = fd[q] /\ lock[p] = "exclusive" => lock[q] = "none"

LockInv == TypeOK /\ (ConvertsAtOnce => (\A p \in Process : Own(p)) /\ Alone)

=============================================================================
