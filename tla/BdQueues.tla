------------------------------ MODULE BdQueues ------------------------------
(***************************************************************************)
(* What the buffer descriptors (BDs) of a DMA channel do, as the driver's  *)
(* documentation promises it: they queue for the application to prepare,   *)
(* for the hardware to process and for the application to examine, move    *)
(* from queue to queue in the order they came, and come back from the      *)
(* hardware only when the hardware is finished with them.  The hardware    *)
(* finishes them in order as long as it knows its place.                   *)
(***************************************************************************)
EXTENDS Naturals, Sequences

CONSTANT BdCount             \* BDs, numbered from 0

VARIABLES
    free, pre, hw, post,    \* the four groups, oldest first
    finished,               \* members of hw that the hardware is done with
    lost                    \* the hardware has lost its place

queues == <<free, pre, hw, post, finished, lost>>

First(s, n) == SubSeq(s, 1, n)

Rest(s, n) == SubSeq(s, n + 1, Len(s))

Init ==
    /\ free = [i \in 1..BdCount |-> i - 1]
    /\ pre = <<>>
    /\ hw = <<>>
    /\ post = <<>>
    /\ finished = {}
    /\ lost = FALSE

\* The application takes n free BDs to prepare them.
Alloc(n) ==
    /\ n <= Len(free)
    /\ pre' = pre \o First(free, n)
    /\ free' = Rest(free, n)
    /\ UNCHANGED <<hw, post, finished, lost>>

\* It gives the last n of them back unused: they will be the next taken.
UnAlloc(n) ==
    /\ n <= Len(pre)
    /\ free' = Rest(pre, Len(pre) - n) \o free
    /\ pre' = First(pre, Len(pre) - n)
    /\ UNCHANGED <<hw, post, finished, lost>>

\* It gives the first n to the hardware.
Give(n) ==
    /\ n <= Len(pre)
    /\ hw' = hw \o First(pre, n)
    /\ pre' = Rest(pre, n)
    /\ UNCHANGED <<free, post, finished, lost>>

\* The hardware finishes the oldest BD it has not finished yet.
Finish ==
    \E i \in 1..Len(hw) :
        /\ hw[i] \notin finished
        /\ \A j \in 1..i-1 : hw[j] \in finished
        /\ finished' = finished \cup {hw[i]}
        /\ UNCHANGED <<free, pre, hw, post, lost>>

\* Once it has lost its place it may process any BD again, or leave it out.
Lose ==
    /\ lost' = TRUE
    /\ finished' \in SUBSET {hw[i] : i \in 1..Len(hw)}
    /\ UNCHANGED <<free, pre, hw, post>>

\* The application takes back the n oldest, all finished.
TakeBack(n) ==
    /\ n <= Len(hw)
    /\ \A i \in 1..n : hw[i] \in finished
    /\ post' = post \o First(hw, n)
    /\ hw' = Rest(hw, n)
    /\ finished' = finished \ {hw[i] : i \in 1..n}
    /\ UNCHANGED <<free, pre, lost>>

\* It returns n of those it has examined.
Return(n) ==
    /\ n <= Len(post)
    /\ free' = free \o First(post, n)
    /\ post' = Rest(post, n)
    /\ UNCHANGED <<pre, hw, finished, lost>>

Next ==
    \/ Finish
    \/ Lose
    \/ \E n \in 1..BdCount :
            Alloc(n) \/ UnAlloc(n) \/ Give(n) \/ TakeBack(n) \/ Return(n)

Spec == Init /\ [][Next]_queues
=============================================================================
