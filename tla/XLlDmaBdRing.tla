---------------------------- MODULE XLlDmaBdRing ----------------------------
(***************************************************************************)
(* The buffer descriptor (BD) ring of one channel of the Local-Link DMA    *)
(* driver (xlldma_bdring.c, and what xlldma.c does to both channels), the  *)
(* application that calls it in any order, and the DMA engine, which runs  *)
(* through the ring beside them, also while a call lasts.  Of the other    *)
(* channel there is only whether it is started.                            *)
(*                                                                         *)
(* BDs are numbered from 0 to BdCount - 1, by their place in the ring.  A  *)
(* call that is refused before it changes anything is a stuttering step.   *)
(* As the driver requires, no call is made while another lasts.            *)
(***************************************************************************)
EXTENDS Integers

CONSTANTS
    BdCount,                \* AllCnt: BDs in the ring
    None                    \* no BD

ASSUME BdAssumption ==
    /\ BdCount \in Nat \ {0}
    /\ None \notin 0..BdCount-1

VARIABLES
    ring,                   \* XLlDma_BdRing
    bd,                     \* the BDs in memory
    chan,                   \* the channel's registers, and what they stand for
    other,                  \* the other channel's RunState
    resetting,              \* XLlDma_Reset has read CDESC and not yet written
                            \* SW_RESET
    strayed                 \* history: the application, or the engine during a
                            \* reset, has done what makes the engine lose its
                            \* place

inst == <<other, resetting, strayed>>

ringVars == <<ring, bd, chan, inst>>
-----------------------------------------------------------------------------
(* Places in the ring.                                                     *)

Bds == 0..BdCount-1

Ahead(b, n) == IF b + n > BdCount - 1 THEN b + n - BdCount ELSE b + n

Back(b, n) == IF b - n < 0 THEN b - n + BdCount ELSE b - n

BdNext(b) == IF b >= BdCount - 1 THEN 0 ELSE b + 1

\* The n BDs from h on.
Run(h, n) == {Ahead(h, i) : i \in 0..n-1}
-----------------------------------------------------------------------------
(* State.  Of a BD the model keeps the COMPLETED and EOP bits and whether  *)
(* the user word still has the value the driver writes into it.            *)

BdWords == [done : BOOLEAN, eop : BOOLEAN, app : {"init", "value"}]

RunStates == {"stopped", "started"}

Ring == [IsRxChannel : BOOLEAN,
         FreeHead : Bds, PreHead : Bds, HwHead : Bds, HwTail : Bds,
         PostHead : Bds, BdaRestart : Bds \cup {None},
         FreeCnt : 0..BdCount, PreCnt : 0..BdCount,
         HwCnt : 0..BdCount, PostCnt : 0..BdCount,
         RunState : RunStates]

\* cdesc is the BD the engine is at (None until it has been written), tdesc the
\* last one it was told of (None when it has reached it), flushing that the user
\* words of a received packet are still to be written.
Chan == [cdesc : Bds \cup {None}, tdesc : Bds \cup {None},
         paused : BOOLEAN, flushing : BOOLEAN]

Created(rx) ==
    [IsRxChannel |-> rx, RunState |-> "stopped", BdaRestart |-> 0,
     FreeHead |-> 0, PreHead |-> 0, HwHead |-> 0, HwTail |-> 0, PostHead |-> 0,
     FreeCnt |-> BdCount, PreCnt |-> 0, HwCnt |-> 0, PostCnt |-> 0]

\* The last BD's status word is left at zero.
CreatedBds ==
    [b \in Bds |-> [done |-> b # BdCount - 1, eop |-> FALSE, app |-> "value"]]

InitAs(rx) ==
    /\ ring = Created(rx)
    /\ bd = CreatedBds
    /\ chan = [cdesc |-> None, tdesc |-> None,
               paused |-> FALSE, flushing |-> FALSE]
    /\ other = "stopped" /\ resetting = FALSE /\ strayed = FALSE

Init == \E rx \in BOOLEAN : InitAs(rx)
-----------------------------------------------------------------------------
(* Calls of the application.                                               *)

Clone(template) ==
    /\ ring.RunState = "stopped"
    /\ ring.FreeCnt = BdCount
    /\ bd' = [b \in Bds |-> [template EXCEPT !.done = TRUE]]
    /\ UNCHANGED <<ring, chan>>

Alloc(n) ==
    /\ n <= ring.FreeCnt
    /\ ring' = [ring EXCEPT !.FreeHead = Ahead(@, n),
                            !.FreeCnt = @ - n, !.PreCnt = @ + n]
    /\ UNCHANGED <<bd, chan>>

UnAlloc(n) ==
    /\ n <= ring.PreCnt
    /\ ring' = [ring EXCEPT !.FreeHead = Back(@, n),
                            !.FreeCnt = @ + n, !.PreCnt = @ - n]
    /\ UNCHANGED <<bd, chan>>

\* For a mutant: COMPLETED stays as the last use of the BD left it.
Scrub_KeepsDone(word, end) ==
    [done |-> word.done,
     eop |-> end /\ ~ring.IsRxChannel,
     app |-> IF ring.IsRxChannel THEN "init" ELSE word.app]

\* What ToHw does to each BD of the set, marked by the application as the end
\* of a packet or not.
Scrub(word, end) ==
    [done |-> FALSE,
     eop |-> end /\ ~ring.IsRxChannel,
     app |-> IF ring.IsRxChannel THEN "init" ELSE word.app]

\* Writing TDESC sets the engine to work.
WriteTdesc(b) == [chan EXCEPT !.tdesc = b]

ToHw(n, ends) ==
    LET last == Ahead(ring.PreHead, n - 1) IN
    /\ n \in 1..ring.PreCnt
    /\ ring.IsRxChannel \/ last \in ends
    /\ bd' = [b \in Bds |-> IF b \in Run(ring.PreHead, n)
                            THEN Scrub(bd[b], b \in ends) ELSE bd[b]]
    /\ ring' = [ring EXCEPT !.PreHead = Ahead(@, n), !.PreCnt = @ - n,
                            !.HwTail = last, !.HwCnt = @ + n]
    /\ chan' = IF ring.RunState = "started" THEN WriteTdesc(last) ELSE chan

\* A set is refused at its BD number k (length zero, the first without SOP,
\* the last without EOP): those before it have been scrubbed.
ToHwRefused(n, ends, k) ==
    /\ n \in 1..ring.PreCnt
    /\ k \in 0..n-1
    /\ bd' = [b \in Bds |-> IF b \in Run(ring.PreHead, k)
                            THEN Scrub(bd[b], b \in ends) ELSE bd[b]]
    /\ UNCHANGED <<ring, chan>>

\* The hardware is done with the BD, and with the words it adds to the last
\* BD of a received packet.
Finished(b) ==
    /\ bd[b].done
    /\ ring.IsRxChannel /\ bd[b].eop => bd[b].app # "init"

\* The scan from HwHead, which ends at HwTail, gets past n BDs.
Scanned(n) ==
    /\ \A i \in 0..n-1 : Finished(Ahead(ring.HwHead, i))
    /\ \A i \in 0..n-2 : Ahead(ring.HwHead, i) # ring.HwTail

\* For a mutant: the BDs of a packet that is not complete are not subtracted.
Whole_Partial(n) == Scanned(n)

\* The first n BDs are whole packets, all finished.
Whole(n) == Scanned(n) /\ bd[Ahead(ring.HwHead, n - 1)].eop

FromHw(limit) ==
    /\ ring.HwCnt > 0
    /\ \E n \in 1..limit :
        /\ Whole(n)
        /\ \A m \in n+1..limit : ~Whole(m)
        /\ ring' = [ring EXCEPT !.HwHead = Ahead(@, n),
                                !.HwCnt = @ - n, !.PostCnt = @ + n]
    /\ UNCHANGED <<bd, chan>>

Free(n) ==
    /\ n <= ring.PostCnt
    /\ bd' = [b \in Bds |-> IF b \in Run(ring.PostHead, n)
                            THEN [bd[b] EXCEPT !.done = FALSE, !.eop = FALSE]
                            ELSE bd[b]]
    /\ ring' = [ring EXCEPT !.PostHead = Ahead(@, n),
                            !.FreeCnt = @ + n, !.PostCnt = @ - n]
    /\ UNCHANGED chan

\* A paused channel is stopped for the driver, and is put to BdaRestart as well.
Start ==
    /\ ring.RunState = "stopped"
    /\ ring' = [ring EXCEPT !.RunState = "started"]
    /\ chan' = [chan EXCEPT
                    !.cdesc = ring.BdaRestart,
                    !.tdesc = IF ring.HwCnt > 0 /\ ~bd[ring.HwTail].done
                              THEN ring.HwTail ELSE @]
    /\ strayed' = (strayed \/ (chan.paused /\ chan.cdesc # None))
    /\ UNCHANGED <<bd, other, resetting>>

StartOther ==
    /\ other' = "started"
    /\ UNCHANGED <<ring, bd, chan, resetting, strayed>>

\* For a mutant: the engine's place is not saved.
SnapShot_Unsaved ==
    /\ resetting' = TRUE
    /\ strayed' = (strayed \/ chan.cdesc = None)
    /\ UNCHANGED <<ring, bd, chan, other>>

\* XLlDma_Reset up to SW_RESET: CDESC of both channels is saved, also of one
\* that has never been started.
SnapShot ==
    /\ ring' = [ring EXCEPT !.BdaRestart = chan.cdesc]
    /\ resetting' = TRUE
    /\ strayed' = (strayed \/ chan.cdesc = None)
    /\ UNCHANGED <<bd, chan, other>>

\* The rest of it: the engine aborts what it was doing, keeps its registers, but
\* forgets that it had work to do.
SwReset ==
    /\ resetting
    /\ ring' = [ring EXCEPT !.RunState = "stopped"]
    /\ chan' = [chan EXCEPT !.tdesc = None, !.paused = FALSE, !.flushing = FALSE]
    /\ other' = "stopped" /\ resetting' = FALSE
    /\ UNCHANGED <<bd, strayed>>

\* Both channels, if one is started; busy waiting until the receive channel has
\* written all it has to write.
Pause ==
    /\ ring.RunState = "started" \/ other = "started"
    /\ ~chan.flushing
    /\ ring' = [ring EXCEPT !.RunState = "stopped"]
    /\ chan' = [chan EXCEPT !.paused = TRUE]
    /\ other' = "stopped"
    /\ UNCHANGED <<bd, resetting, strayed>>

\* Both channels, if one is stopped, and also where neither was paused, or the
\* engine has never been told where its ring is.
Resume ==
    /\ ring.RunState = "stopped" \/ other = "stopped"
    /\ ring' = [ring EXCEPT !.RunState = "started"]
    /\ chan' = [chan EXCEPT !.paused = FALSE]
    /\ other' = "started"
    /\ strayed' = (strayed \/ chan.cdesc = None)
    /\ UNCHANGED <<bd, resetting>>
-----------------------------------------------------------------------------
(* The DMA engine.                                                         *)

Working == chan.tdesc # None /\ ~chan.paused /\ ~chan.flushing

PastBd ==
    [chan EXCEPT !.cdesc = BdNext(@), !.flushing = FALSE,
                 !.tdesc = IF chan.cdesc = @ THEN None ELSE @]

\* The engine goes on between the two lines of XLlDma_Reset.
Passes ==
    /\ chan' = PastBd
    /\ strayed' = (strayed \/ resetting)

Transmit ==
    /\ ~ring.IsRxChannel
    /\ Working
    /\ bd' = [bd EXCEPT ![chan.cdesc].done = TRUE]
    /\ Passes

Receive ==
    /\ ring.IsRxChannel
    /\ Working
    /\ \E end \in BOOLEAN :
        /\ bd' = [bd EXCEPT ![chan.cdesc].done = TRUE, ![chan.cdesc].eop = end]
        /\ \/ end /\ chan' = [chan EXCEPT !.flushing = TRUE] /\ UNCHANGED strayed
           \/ ~end /\ Passes

Flush ==
    /\ chan.flushing
    /\ bd' = [bd EXCEPT ![chan.cdesc].app = "value"]
    /\ Passes
-----------------------------------------------------------------------------
Calls ==
    \/ \E template \in BdWords : Clone(template)
    \/ \E n \in 1..BdCount :
        \/ Alloc(n)
        \/ UnAlloc(n)
        \/ \E ends \in SUBSET Run(ring.PreHead, n) :
            \/ ToHw(n, ends)
            \/ \E k \in 0..n-1 : ToHwRefused(n, ends, k)
        \/ FromHw(n)
        \/ Free(n)

Control == Start \/ StartOther \/ SnapShot \/ Pause \/ Resume

\* Nothing is said of an engine that was never told where its ring is.
Engine ==
    /\ chan.cdesc # None
    /\ Transmit \/ Receive \/ Flush
    /\ UNCHANGED <<ring, other, resetting>>

Next ==
    \/ ~resetting /\ Calls /\ UNCHANGED inst
    \/ ~resetting /\ Control
    \/ SwReset
    \/ Engine

Spec == Init /\ [][Next]_ringVars
-----------------------------------------------------------------------------
(* Properties.                                                             *)

TypeOK ==
    /\ ring \in Ring /\ bd \in [Bds -> BdWords] /\ chan \in Chan
    /\ other \in RunStates /\ resetting \in BOOLEAN /\ strayed \in BOOLEAN

\* The four groups follow each other in the ring and fill it.
Groups ==
    /\ ring.FreeCnt + ring.PreCnt + ring.HwCnt + ring.PostCnt = BdCount
    /\ ring.HwHead = Ahead(ring.PostHead, ring.PostCnt)
    /\ ring.PreHead = Ahead(ring.HwHead, ring.HwCnt)
    /\ ring.FreeHead = Ahead(ring.PreHead, ring.PreCnt)
    /\ ring.HwCnt > 0 => ring.HwTail = Ahead(ring.HwHead, ring.HwCnt - 1)

\* Where the engine is, or will be put by Start.
Position == IF chan.cdesc = None THEN ring.BdaRestart ELSE chan.cdesc

\* The engine has processed k of the BDs it was given; a reset may have left the
\* next one without its last words.
Processed(k) ==
    /\ Position = Ahead(ring.HwHead, k)
    /\ \A i \in 0..k-1 : Finished(Ahead(ring.HwHead, i))
    /\ \A i \in k..ring.HwCnt-1 :
            /\ bd[Ahead(ring.HwHead, i)].done =>
                    i = k /\ ~Finished(Ahead(ring.HwHead, i))
            /\ ring.IsRxChannel => bd[Ahead(ring.HwHead, i)].app = "init"
    /\ chan.tdesc # None =>
            \E i \in k..ring.HwCnt-1 : chan.tdesc = Ahead(ring.HwHead, i)

ChannelInv ==
    /\ chan.tdesc # None => ring.RunState = "started" \/ chan.paused
    /\ chan.cdesc # None =>
            (resetting \/ (ring.RunState = "stopped" /\ ~chan.paused) =>
                ring.BdaRestart = chan.cdesc)
    /\ chan.cdesc = None => chan.tdesc = None /\ ring.RunState = "stopped"
    /\ chan.flushing => /\ ring.IsRxChannel
                        /\ chan.tdesc # None
                        /\ LET word == bd[chan.cdesc] IN
                             word.done /\ word.eop /\ word.app = "init"

OnCourse == ChannelInv /\ \E k \in 0..ring.HwCnt : Processed(k)

\* The driver's four groups partition the ring in its order, whatever the order
\* of calls, resets, restarts and pauses.  Unless it has strayed, the engine is
\* at a BD that it was given or will be given next: it never runs over a BD of
\* the application, nor over one it has processed already, and a restart puts it
\* where it was.  It strays when it passes a BD while XLlDma_Reset is between
\* saving CDESC and stopping it, when a channel is reset or resumed that has
\* never been started, and when one is started that has been paused.
RingInv ==
    /\ TypeOK
    /\ Groups
    /\ ~strayed => OnCourse

\* FromHw returns whole packets only, unless the engine has strayed: the last BD
\* returned ends a packet, and each one returned is complete, with the words that
\* the hardware adds to a received packet after it has set the COMPLETED bit,
\* also when a reset has cut it off in between.
WholePackets ==
    ~strayed =>
        /\ ring.PostCnt > 0 => bd[Back(ring.HwHead, 1)].eop
        /\ \A b \in Run(ring.PostHead, ring.PostCnt) : Finished(b)

\* While the channel is started, the engine knows the last BD that it was given
\* and has not processed: what was committed while the channel was paused is
\* processed after Resume, as its description says.
NothingForgotten ==
    /\ ~strayed
    /\ ring.RunState = "started"
    /\ ring.HwCnt > 0 /\ ~bd[ring.HwTail].done
    => chan.tdesc = ring.HwTail

\* Each group read as a queue behaves as the documentation says: BDs move from
\* one to the next in order, none is lost or duplicated, and none comes back
\* from the hardware before it is finished.
Queue(head, cnt) == [i \in 1..cnt |-> Ahead(head, i - 1)]

FinishedBds == {b \in Run(ring.HwHead, ring.HwCnt) : Finished(b)}

Queues == INSTANCE BdQueues WITH
    free <- Queue(ring.FreeHead, ring.FreeCnt),
    pre <- Queue(ring.PreHead, ring.PreCnt),
    hw <- Queue(ring.HwHead, ring.HwCnt),
    post <- Queue(ring.PostHead, ring.PostCnt),
    finished <- FinishedBds,
    lost <- strayed

ImplementsQueues == Queues!Spec
=============================================================================
