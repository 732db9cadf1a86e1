----------------------------- MODULE MCLockFile -----------------------------
(***************************************************************************)
(* Processes for model checking LockFile.                                  *)
(***************************************************************************)
EXTENDS LockFile, TLC

CONSTANTS p1, p2, p3, i1, i2, i3

\* A caller that does not wait locks exclusively.
AllCalls == {<<"exclusive", TRUE>>, <<"exclusive", FALSE>>, <<"shared", TRUE>>}

ThreeProcesses == {p1, p2, p3}

\* Two for the other processes to keep open, and one to create.
ThreeInodes == {i1, i2, i3}

\* Inodes and processes are alike; sound for a run without a temporal property.
Alike == Permutations(Process) \cup Permutations(Inode)
=============================================================================
