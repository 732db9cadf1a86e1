--------------------------- MODULE LockFile_proofs ---------------------------
(***************************************************************************)
(* The lock of LockFile excludes, for any number of processes and inodes,  *)
(* as long as nobody can take the file while a shared lock is converted:   *)
(* either flock converts in one step or the lock is never shared.  Its     *)
(* file is removed in either case.                                         *)
(***************************************************************************)
EXTENDS LockFile, TLAPS

LEMMA ModesType == Modes \subseteq {"exclusive", "shared"}
  BY LockAssumption DEF Modes

LEMMA InitInv == Init => LockInv
  BY LockAssumption DEF Init, LockInv, TypeOK, Own, Alone

\* One system call preserves the types, whatever flock is like.
LEMMA StepType ==
  ASSUME TypeOK, NEW p \in Process, Call(p) \/ Lock(p) \/ Unlock(p) \/ Kill(p),
         UNCHANGED drops
  PROVE  TypeOK'
<1> USE LockAssumption, ModesType DEF TypeOK
<1>1. CASE Call(p)
  <2>1. \A c \in Calls : c[1] \in Modes /\ c[2] \in BOOLEAN
    BY DEF Modes
  <2>. QED
    BY <1>1, <2>1 DEF Call, Goto
<1>2. CASE Lock(p)
  <2>1. CASE Open(p)
    BY <2>1 DEF Open, Goto, args
  <2>2. CASE Flock(p) \/ Refused(p)
    BY <2>2 DEF Flock, Refused, Done, Closed, Goto, args
  <2>3. CASE Stat(p)
    BY <2>3 DEF Stat, Done, Closed, Goto, args
  <2>. QED
    BY <1>2, <2>1, <2>2, <2>3 DEF Lock
<1>3. CASE Unlock(p)
  BY <1>3 DEF Unlock, Promote, PromoteDrop, PromoteConvert, Converted, Unlink,
     Release, Done, Closed, Goto, args
<1>4. CASE Kill(p)
  BY <1>4 DEF Kill, Done, Closed, Goto
<1>. QED
  BY <1>1, <1>2, <1>3, <1>4

\* One system call preserves the invariant.
LEMMA StepInv ==
  ASSUME ConvertsAtOnce, LockInv, NEW p \in Process,
         Call(p) \/ Lock(p) \/ Unlock(p) \/ Kill(p), UNCHANGED drops
  PROVE  LockInv'
<1> USE LockAssumption, ModesType DEF LockInv, TypeOK, Own, Alone
<1>1. CASE Call(p)
  <2>1. \A c \in Calls : c[1] \in Modes /\ c[2] \in BOOLEAN
    BY DEF Modes
  <2>. QED
    BY <1>1, <2>1 DEF Call, Goto
<1>2. CASE Open(p)
  BY <1>2 DEF Open, Goto, args
<1>3. CASE Flock(p)
  <2>1. /\ mode[p] \in {"exclusive", "shared"}
        /\ lock' = [lock EXCEPT ![p] = mode[p]] /\ pc' = [pc EXCEPT ![p] = "stat"]
        /\ UNCHANGED <<name, fd, mode, retry, killed>>
    BY <1>3 DEF Flock, Goto, args
  <2>2. TypeOK' /\ \A q \in Process : Own(q)'
    BY <1>3, <2>1 DEF Flock
  <2>3. \A q \in Process \ {p} :
          fd[q] = fd[p] => lock[q] = "none" \/ (mode[p] = "shared" /\ lock[q] = "shared")
    BY <1>3 DEF Flock, Grantable
  <2>4. Alone'
    BY <2>1, <2>3
  <2>. QED
    BY <2>2, <2>4
<1>4. CASE Refused(p)
  BY <1>4 DEF Refused, Done, Closed, Goto
<1>5. CASE Stat(p)
  <2>1. CASE name = fd[p]
    <3>1. /\ pc' = [pc EXCEPT ![p] = "held"]
          /\ UNCHANGED <<name, fd, lock, mode, retry, killed>>
      BY <1>5, <2>1 DEF Stat, Goto, args
    <3>. QED
      BY <1>5, <2>1, <3>1 DEF Stat
  <2>2. CASE name # fd[p] /\ retry[p]
    <3>1. /\ fd' = [fd EXCEPT ![p] = NoInode] /\ lock' = [lock EXCEPT ![p] = "none"]
          /\ pc' = [pc EXCEPT ![p] = "open"]
          /\ UNCHANGED <<name, mode, retry, killed>>
      BY <1>5, <2>2 DEF Stat, Closed, Goto, args
    <3>. QED
      BY <1>5, <3>1 DEF Stat
  <2>3. CASE name # fd[p] /\ ~retry[p]
    <3>1. /\ fd' = [fd EXCEPT ![p] = NoInode] /\ lock' = [lock EXCEPT ![p] = "none"]
          /\ pc' = [pc EXCEPT ![p] = "idle"] /\ mode' = [mode EXCEPT ![p] = "none"]
          /\ retry' = [retry EXCEPT ![p] = TRUE] /\ UNCHANGED <<name, killed>>
      BY <1>5, <2>3 DEF Stat, Done, Closed, Goto
    <3>. QED
      BY <3>1
  <2>. QED
    BY <2>1, <2>2, <2>3
<1>6. CASE Promote(p)
  <2>1. CASE Grantable(p, "exclusive")
    <3>1. /\ lock' = [lock EXCEPT ![p] = "exclusive"] /\ pc' = [pc EXCEPT ![p] = "unlink"]
          /\ UNCHANGED <<name, fd, mode, retry, killed>>
      BY <1>6, <2>1 DEF Promote, Converted, Goto, args
    <3>2. TypeOK' /\ \A q \in Process : Own(q)'
      BY <1>6, <3>1 DEF Promote
    <3>3. \A q \in Process \ {p} : fd[q] = fd[p] => lock[q] = "none"
      BY <2>1 DEF Grantable
    <3>4. Alone'
      BY <3>1, <3>3
    <3>. QED
      BY <3>2, <3>4
  <2>2. CASE ~Grantable(p, "exclusive")
    BY <1>6, <2>2 DEF Promote, Converted, Goto, args
  <2>. QED
    BY <2>1, <2>2
<1>7. CASE PromoteDrop(p)
  BY <1>7 DEF PromoteDrop, ConvertsAtOnce
<1>8. CASE PromoteConvert(p)
  BY <1>8 DEF PromoteConvert
<1>9. CASE Unlink(p)
  BY <1>9 DEF Unlink, Goto, args
<1>10. CASE Release(p)
  BY <1>10 DEF Release, Done, Closed, Goto
<1>11. CASE Kill(p)
  BY <1>11 DEF Kill, Done, Closed, Goto
<1>. QED
  BY <1>1, <1>2, <1>3, <1>4, <1>5, <1>6, <1>7, <1>8, <1>9, <1>10, <1>11
     DEF Lock, Unlock

\* Where conversions are atomic, whoever is past the check of the inodes has a
\* lock on the file that has the name, and whoever removes the file has the only
\* one.
THEOREM LockInvariance == Spec => []LockInv
<1>1. ASSUME LockInv, [Next]_vars
      PROVE  LockInv'
  <2>1. CASE Next /\ ConvertsAtOnce
    BY <1>1, <2>1, StepInv DEF Next
  <2>2. CASE Next /\ ~ConvertsAtOnce
    <3>1. ~ConvertsAtOnce'
      BY <2>2 DEF Next, ConvertsAtOnce
    <3>. QED
      BY <1>1, <2>2, <3>1, StepType DEF Next, LockInv
  <2>3. CASE UNCHANGED vars
    BY <1>1, <2>3 DEF LockInv, ConvertsAtOnce, TypeOK, Own, Alone, vars
  <2>. QED
    BY <1>1, <2>1, <2>2, <2>3
<1>. QED
  BY <1>1, InitInv, PTL DEF Spec

\* Two processes hold the lock together only if both share it, whatever files
\* are created and removed under its name, and whoever is killed, unless a
\* shared lock is dropped before it is converted.
THEOREM Exclusion == Spec => []MutualExclusion
<1>1. LockInv => MutualExclusion
  BY ModesType DEF LockInv, TypeOK, Own, Alone, MutualExclusion, OneHolder, Holds
<1>. QED
  BY <1>1, LockInvariance, PTL

-----------------------------------------------------------------------------
(* The lock file is removed in the end, also where a shared lock is dropped *)
(* before it is converted: exclusion is not needed for this.                *)

Attends(p) == fd[p] = name /\ pc[p] \in {"flock", "stat", "held", "convert", "unlink"}

\* While the file exists, somebody has it open who will look after it.
Attended ==
    /\ TypeOK
    /\ \A p \in Process :
        /\ fd[p] = NoInode <=> pc[p] \in {"idle", "open"}
        /\ pc[p] # "idle" => mode[p] \in Modes
        /\ pc[p] \in {"idle", "open", "flock", "convert"} => lock[p] = "none"
        /\ pc[p] = "release" /\ lock[p] # "none" => fd[p] # name
    /\ name # NoInode /\ ~killed => \E p \in Process : Attends(p)

\* One system call: a process that leaves the file to others leaves it to one
\* that has a lock on it, and so has not removed it yet.
LEMMA StepAttended ==
  ASSUME Attended, NEW p \in Process, Call(p) \/ Lock(p) \/ Unlock(p) \/ Kill(p),
         UNCHANGED drops
  PROVE  Attended'
<1> USE LockAssumption, ModesType DEF Attended, TypeOK, Attends
<1>1. CASE Call(p)
  <2>1. \A c \in Calls : c[1] \in Modes /\ c[2] \in BOOLEAN
    BY DEF Modes
  <2>. QED
    BY <1>1, <2>1 DEF Call, Goto
<1>2. CASE Open(p)
  BY <1>2 DEF Open, Goto, args
<1>3. CASE Flock(p)
  BY <1>3 DEF Flock, Goto, args
<1>4. CASE Refused(p)
  <2> PICK q \in Process \ {p} : fd[q] = fd[p] /\ lock[q] # "none"
    BY <1>4 DEF Refused, Grantable
  <2>1. pc[q] \in {"stat", "held", "unlink", "release"}
    OBVIOUS
  <2>2. /\ fd' = [fd EXCEPT ![p] = NoInode] /\ lock' = [lock EXCEPT ![p] = "none"]
        /\ pc' = [pc EXCEPT ![p] = "idle"] /\ mode' = [mode EXCEPT ![p] = "none"]
        /\ retry' = [retry EXCEPT ![p] = TRUE] /\ UNCHANGED <<name, killed>>
    BY <1>4 DEF Refused, Done, Closed, Goto
  <2> QED
    BY <1>4, <2>1, <2>2
<1>5. CASE Stat(p)
  <2>1. CASE name = fd[p]
    BY <1>5, <2>1 DEF Stat, Goto, args
  <2>2. CASE name # fd[p] /\ retry[p]
    BY <1>5, <2>2 DEF Stat, Closed, Goto, args
  <2>3. CASE name # fd[p] /\ ~retry[p]
    <3>1. /\ fd' = [fd EXCEPT ![p] = NoInode] /\ lock' = [lock EXCEPT ![p] = "none"]
          /\ pc' = [pc EXCEPT ![p] = "idle"] /\ mode' = [mode EXCEPT ![p] = "none"]
          /\ retry' = [retry EXCEPT ![p] = TRUE] /\ UNCHANGED <<name, killed>>
      BY <1>5, <2>3 DEF Stat, Done, Closed, Goto
    <3> QED
      BY <2>3, <3>1
  <2> QED
    BY <2>1, <2>2, <2>3
<1>6. CASE PromoteDrop(p)
  BY <1>6 DEF PromoteDrop, Goto, args
<1>7. CASE Promote(p) \/ PromoteConvert(p)
  <2>1. pc[p] \in {"held", "convert"} /\ Converted(p)
    BY <1>7 DEF Promote, PromoteConvert
  <2>2. CASE Grantable(p, "exclusive")
    BY <2>1, <2>2 DEF Converted, Goto, args
  <2>3. CASE ~Grantable(p, "exclusive")
    <3> PICK q \in Process \ {p} : fd[q] = fd[p] /\ lock[q] # "none"
      BY <2>3 DEF Grantable
    <3>1. pc[q] \in {"stat", "held", "unlink", "release"}
      OBVIOUS
    <3>2. /\ lock' = [lock EXCEPT ![p] = "none"] /\ pc' = [pc EXCEPT ![p] = "release"]
          /\ UNCHANGED <<name, fd, mode, retry, killed>>
      BY <2>1, <2>3 DEF Converted, Goto, args
    <3> QED
      BY <2>1, <3>1, <3>2
  <2> QED
    BY <2>2, <2>3
<1>8. CASE Unlink(p)
  BY <1>8 DEF Unlink, Goto, args
<1>9. CASE Release(p)
  BY <1>9 DEF Release, Done, Closed, Goto
<1>10. CASE Kill(p)
  BY <1>10 DEF Kill, Done, Closed, Goto
<1> QED
  BY <1>1, <1>2, <1>3, <1>4, <1>5, <1>6, <1>7, <1>8, <1>9, <1>10 DEF Lock, Unlock

\* When nobody uses the lock, and nobody who did was killed, no lock file is
\* left, for any number of processes, modes and retries and either kind of
\* conversion.
THEOREM Removed == Spec => []CleanedUp
<1>1. Init => Attended
  BY LockAssumption DEF Init, Attended, TypeOK, Attends
<1>2. ASSUME Attended, [Next]_vars
      PROVE  Attended'
  <2>1. CASE Next
    BY <1>2, <2>1, StepAttended DEF Next
  <2>2. CASE UNCHANGED vars
    BY <1>2, <2>2 DEF Attended, Attends, TypeOK, vars
  <2> QED
    BY <1>2, <2>1, <2>2
<1>3. Attended => CleanedUp
  BY DEF Attended, Attends, CleanedUp
<1> QED
  BY <1>1, <1>2, <1>3, PTL DEF Spec
=============================================================================
