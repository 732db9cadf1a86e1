------------------------ MODULE XLlDmaBdRing_proofs ------------------------
(***************************************************************************)
(* Rings of any size keep their order, and implement the queues of         *)
(* BdQueues.                                                               *)
(***************************************************************************)
EXTENDS XLlDmaBdRing, SequenceTheorems, TLAPS

-----------------------------------------------------------------------------
(* Arithmetic of the ring.                                                 *)

LEMMA AheadType ==
  ASSUME NEW b \in Bds, NEW n \in 0..BdCount
  PROVE  Ahead(b, n) \in Bds
  BY BdAssumption DEF Ahead, Bds

LEMMA AheadZero ==
  ASSUME NEW b \in Bds
  PROVE  Ahead(b, 0) = b /\ Ahead(b, BdCount) = b
  BY BdAssumption DEF Ahead, Bds

LEMMA AheadAhead ==
  ASSUME NEW b \in Bds, NEW m \in Nat, NEW n \in Nat, m + n <= BdCount
  PROVE  Ahead(Ahead(b, m), n) = Ahead(b, m + n)
  BY BdAssumption DEF Ahead, Bds

LEMMA AheadInjective ==
  ASSUME NEW b \in Bds, NEW i \in 0..BdCount-1, NEW j \in 0..BdCount-1,
         Ahead(b, i) = Ahead(b, j)
  PROVE  i = j
  BY BdAssumption DEF Ahead, Bds

LEMMA BackAhead ==
  ASSUME NEW b \in Bds, NEW m \in 0..BdCount, NEW n \in 0..m
  PROVE  Back(Ahead(b, m), n) = Ahead(b, m - n)
  BY BdAssumption DEF Ahead, Back, Bds

LEMMA NextAhead ==
  ASSUME NEW b \in Bds, NEW i \in 0..BdCount-1
  PROVE  BdNext(Ahead(b, i)) = Ahead(b, i + 1)
  BY BdAssumption DEF Ahead, BdNext, Bds

\* Two runs of BDs that follow each other do not overlap.
LEMMA RunsApart ==
  ASSUME NEW b \in Bds, NEW m \in Nat, NEW n \in Nat, m + n <= BdCount
  PROVE  /\ \A i \in 0..m-1 : Ahead(b, i) \notin Run(Ahead(b, m), n)
         /\ Run(b, m) \cap Run(Ahead(b, m), n) = {}
<1>1. \A i \in 0..m-1, j \in 0..n-1 : Ahead(b, i) # Ahead(Ahead(b, m), j)
  <2> TAKE i \in 0..m-1, j \in 0..n-1
  <2>1. Ahead(Ahead(b, m), j) = Ahead(b, m + j)
    BY BdAssumption, AheadAhead
  <2>2. i # m + j /\ i \in 0..BdCount-1 /\ m + j \in 0..BdCount-1
    BY BdAssumption
  <2>. QED
    BY <2>1, <2>2, AheadInjective
<1>. QED
  BY <1>1 DEF Run

\* The BDs of the hardware are neither the ones next to be given nor the ones
\* next to be freed.
LEMMA HwApart ==
  ASSUME TypeOK, Groups
  PROVE  \A i \in 0..ring.HwCnt-1 :
            /\ Ahead(ring.HwHead, i) \in Bds
            /\ \A n \in 0..ring.PreCnt : Ahead(ring.HwHead, i) \notin Run(ring.PreHead, n)
            /\ \A n \in 0..ring.PostCnt : Ahead(ring.HwHead, i) \notin Run(ring.PostHead, n)
<1> USE DEF TypeOK, Ring, Groups
<1>1. SUFFICES ASSUME NEW i \in 0..ring.HwCnt-1
               PROVE  /\ Ahead(ring.HwHead, i) \in Bds
                      /\ \A n \in 0..ring.PreCnt :
                            Ahead(ring.HwHead, i) \notin Run(ring.PreHead, n)
                      /\ \A n \in 0..ring.PostCnt :
                            Ahead(ring.HwHead, i) \notin Run(ring.PostHead, n)
  OBVIOUS
<1>2. Ahead(ring.HwHead, i) \in Bds
  BY AheadType
<1>3. ASSUME NEW n \in 0..ring.PreCnt
      PROVE  Ahead(ring.HwHead, i) \notin Run(ring.PreHead, n)
  <2>1. ring.HwCnt + n <= BdCount /\ ring.HwCnt \in Nat /\ n \in Nat
    BY BdAssumption
  <2>. QED
    BY RunsApart, <2>1
<1>4. ASSUME NEW n \in 0..ring.PostCnt
      PROVE  Ahead(ring.HwHead, i) \notin Run(ring.PostHead, n)
  <2>1. Ahead(ring.HwHead, i) \in Run(ring.HwHead, ring.HwCnt)
    BY DEF Run
  <2>2. Run(ring.PostHead, n) \subseteq Run(ring.PostHead, ring.PostCnt)
    BY DEF Run
  <2>. QED
    BY RunsApart, <2>1, <2>2
<1>. QED
  BY <1>2, <1>3, <1>4

\* Nothing the engine did is disturbed by a step that leaves the hardware's
\* BDs, its registers and the run state alone.
LEMMA ProcessedFrame ==
  ASSUME TypeOK, Groups, ChannelInv,
         ring'.HwHead = ring.HwHead, ring'.HwCnt = ring.HwCnt,
         ring'.RunState = ring.RunState, ring'.BdaRestart = ring.BdaRestart,
         ring'.IsRxChannel = ring.IsRxChannel, chan' = chan, resetting' = resetting,
         \A i \in 0..ring.HwCnt-1 :
            bd'[Ahead(ring.HwHead, i)] = bd[Ahead(ring.HwHead, i)],
         NEW k \in 0..ring.HwCnt, Processed(k)
  PROVE  Processed(k)' /\ ChannelInv'
<1> USE DEF TypeOK, Ring
<1>1. Processed(k)'
  BY DEF Processed, Position, Finished
<1>2. CASE chan.flushing
  <2>1. PICK i \in k..ring.HwCnt-1 : chan.tdesc = Ahead(ring.HwHead, i)
    BY <1>2 DEF Processed, ChannelInv
  <2>2. k \in 0..ring.HwCnt-1 /\ chan.cdesc = Ahead(ring.HwHead, k)
    BY <1>2, <2>1 DEF Processed, Position, ChannelInv
  <2>. QED
    BY <1>1, <1>2, <2>2 DEF ChannelInv
<1>3. CASE ~chan.flushing
  BY <1>1, <1>3 DEF ChannelInv
<1>. QED
  BY <1>2, <1>3

LEMMA InitRing == Init => RingInv
<1> SUFFICES ASSUME Init PROVE RingInv
  OBVIOUS
<1> USE BdAssumption DEF Init, InitAs, Created, CreatedBds
<1>1. TypeOK
  <2>1. 0 \in Bds /\ 0 \in 0..BdCount /\ BdCount \in 0..BdCount
    BY DEF Bds
  <2>2. ring \in Ring
    BY <2>1 DEF Ring, RunStates
  <2>3. bd \in [Bds -> BdWords]
    BY DEF BdWords
  <2>4. chan \in Chan
    BY DEF Chan
  <2>5. other \in RunStates /\ resetting \in BOOLEAN /\ strayed \in BOOLEAN
    BY DEF RunStates
  <2>. QED
    BY <2>2, <2>3, <2>4, <2>5 DEF TypeOK
<1>2. Groups
  BY DEF Groups, Ahead
<1>3. Processed(0) /\ 0 \in 0..ring.HwCnt
  BY DEF Processed, Position, Ahead
<1>4. ChannelInv
  BY DEF ChannelInv
<1>. QED
  BY <1>1, <1>2, <1>3, <1>4 DEF RingInv, OnCourse

LEMMA CloneRing ==
  ASSUME RingInv, NEW template \in BdWords, Clone(template), UNCHANGED inst
  PROVE  RingInv'
<1> USE DEF Clone, inst
<1>2. TypeOK'
  BY DEF RingInv, TypeOK, BdWords
<1>3. Groups'
  BY DEF RingInv, Groups
<1>4. ASSUME ChannelInv, NEW k \in 0..ring.HwCnt, Processed(k)
      PROVE  Processed(k)' /\ ChannelInv'
  BY <1>4, ProcessedFrame DEF RingInv, TypeOK, Ring, Groups
<1>. QED
  BY <1>2, <1>3, <1>4 DEF RingInv, OnCourse

LEMMA AllocRing ==
  ASSUME RingInv, NEW n \in 1..BdCount, Alloc(n), UNCHANGED inst
  PROVE  RingInv'
<1> USE DEF Alloc, inst
<1>2. Ahead(ring.FreeHead, n) = Ahead(ring.PreHead, ring.PreCnt + n)
  BY AheadAhead DEF RingInv, TypeOK, Ring, Groups
<1>3. Ahead(ring.FreeHead, n) \in Bds
  BY AheadType DEF RingInv, TypeOK, Ring
<1>4. TypeOK'
  <2>1. ring.FreeCnt - n \in 0..BdCount /\ ring.PreCnt + n \in 0..BdCount
    BY DEF RingInv, TypeOK, Ring, Groups
  <2>. QED
    BY <1>3, <2>1 DEF RingInv, TypeOK, Ring
<1>5. Groups'
  BY <1>2 DEF RingInv, TypeOK, Ring, Groups
<1>6. ASSUME ChannelInv, NEW k \in 0..ring.HwCnt, Processed(k)
      PROVE  Processed(k)' /\ ChannelInv'
  BY <1>6, ProcessedFrame DEF RingInv, TypeOK, Ring
<1>. QED
  BY <1>4, <1>5, <1>6 DEF RingInv, OnCourse, TypeOK, Ring

LEMMA UnAllocRing ==
  ASSUME RingInv, NEW n \in 1..BdCount, UnAlloc(n), UNCHANGED inst
  PROVE  RingInv'
<1> USE DEF UnAlloc, inst
<1>2. Back(ring.FreeHead, n) = Ahead(ring.PreHead, ring.PreCnt - n)
  BY BackAhead DEF RingInv, TypeOK, Ring, Groups
<1>3. Back(ring.FreeHead, n) \in Bds
  <2>1. ring.PreCnt - n \in 0..BdCount /\ ring.PreHead \in Bds
    BY BdAssumption DEF RingInv, TypeOK, Ring
  <2>. QED
    BY <1>2, <2>1, AheadType
<1>4. TypeOK'
  <2>1. ring.FreeCnt + n \in 0..BdCount /\ ring.PreCnt - n \in 0..BdCount
    BY DEF RingInv, TypeOK, Ring, Groups
  <2>. QED
    BY <1>3, <2>1 DEF RingInv, TypeOK, Ring
<1>5. Groups'
  BY <1>2 DEF RingInv, TypeOK, Ring, Groups
<1>6. ASSUME ChannelInv, NEW k \in 0..ring.HwCnt, Processed(k)
      PROVE  Processed(k)' /\ ChannelInv'
  BY <1>6, ProcessedFrame DEF RingInv, TypeOK, Ring
<1>. QED
  BY <1>4, <1>5, <1>6 DEF RingInv, OnCourse, TypeOK, Ring

LEMMA ToHwRing ==
  ASSUME RingInv, NEW n \in 1..BdCount, NEW ends, ToHw(n, ends), UNCHANGED inst
  PROVE  RingInv'
<1> DEFINE last == Ahead(ring.PreHead, n - 1)
           Given == Run(ring.PreHead, n)
<1>0. n \in 1..ring.PreCnt /\ ring.PreCnt \in 0..BdCount /\ ring.HwCnt \in 0..BdCount
      /\ ring.HwHead \in Bds /\ ring.PreHead \in Bds
      /\ ring.HwCnt + ring.PreCnt <= BdCount
  BY DEF ToHw, RingInv, TypeOK, Ring, Groups
<1>2. /\ Ahead(ring.PreHead, n) = Ahead(ring.HwHead, ring.HwCnt + n)
      /\ last = Ahead(ring.HwHead, ring.HwCnt + n - 1)
      /\ Ahead(ring.PreHead, ring.PreCnt) = Ahead(Ahead(ring.PreHead, n), ring.PreCnt - n)
  BY <1>0, AheadAhead, BdAssumption DEF RingInv, Groups
<1>3. last \in Bds /\ Ahead(ring.PreHead, n) \in Bds
  <2>1. n \in 0..BdCount /\ n - 1 \in 0..BdCount /\ ring.PreHead \in Bds
    BY <1>0, BdAssumption
  <2>. QED
    BY <2>1, AheadType
<1>4. \A b \in Bds : Scrub(bd[b], b \in ends) \in BdWords
  BY DEF RingInv, TypeOK, Ring, BdWords, Scrub
<1>5. TypeOK'
  <2>1. ring' \in Ring
    <3>1. ring.PreCnt - n \in 0..BdCount /\ ring.HwCnt + n \in 0..BdCount
      BY <1>0, BdAssumption
    <3>. QED
      BY <1>3, <3>1 DEF ToHw, RingInv, TypeOK, Ring
  <2>2. bd' \in [Bds -> BdWords]
    BY <1>4 DEF ToHw, RingInv, TypeOK
  <2>3. chan' \in Chan
    BY <1>3 DEF ToHw, RingInv, TypeOK, Chan, WriteTdesc
  <2>. QED
    BY <2>1, <2>2, <2>3 DEF RingInv, TypeOK, inst
<1>6. Groups'
  BY <1>0, <1>2 DEF ToHw, RingInv, TypeOK, Ring, Groups
<1>7. /\ ring'.HwHead = ring.HwHead /\ ring'.HwCnt = ring.HwCnt + n
      /\ ring'.RunState = ring.RunState /\ ring'.BdaRestart = ring.BdaRestart
      /\ ring'.IsRxChannel = ring.IsRxChannel
      /\ chan'.cdesc = chan.cdesc /\ chan'.paused = chan.paused
      /\ chan'.flushing = chan.flushing
      /\ chan'.tdesc = IF ring.RunState = "started" THEN last ELSE chan.tdesc
  BY DEF ToHw, RingInv, TypeOK, Ring, Chan, WriteTdesc
<1>8. \A i \in 0..ring.HwCnt-1 :
         bd'[Ahead(ring.HwHead, i)] = bd[Ahead(ring.HwHead, i)]
  BY <1>0, HwApart DEF ToHw, RingInv
<1>9. \A i \in ring.HwCnt..ring.HwCnt+n-1 :
         /\ ~bd'[Ahead(ring.HwHead, i)].done
         /\ ring.IsRxChannel => bd'[Ahead(ring.HwHead, i)].app = "init"
  <2> TAKE i \in ring.HwCnt..ring.HwCnt+n-1
  <2>1. Ahead(ring.HwHead, i) = Ahead(ring.PreHead, i - ring.HwCnt)
    BY <1>0, AheadAhead, BdAssumption DEF RingInv, Groups
  <2>2. Ahead(ring.HwHead, i) \in Given /\ Ahead(ring.HwHead, i) \in Bds
    <3>1. i - ring.HwCnt \in 0..n-1 /\ i \in 0..BdCount
      BY <1>0, BdAssumption
    <3>. QED
      BY <1>0, <2>1, <3>1, AheadType DEF Run
  <2>3. bd'[Ahead(ring.HwHead, i)]
          = Scrub(bd[Ahead(ring.HwHead, i)], Ahead(ring.HwHead, i) \in ends)
    BY <2>2 DEF ToHw
  <2>. QED
    BY <2>3 DEF Scrub
<1>10. ASSUME ChannelInv, NEW k \in 0..ring.HwCnt, Processed(k)
       PROVE  Processed(k)' /\ ChannelInv'
  <2>1. Position' = Position
    BY <1>7 DEF Position
  <2>2. \A i \in 0..k-1 : Finished(Ahead(ring.HwHead, i))'
    BY <1>0, <1>10, <1>7, <1>8 DEF Processed, Finished
  <2>3. \A i \in k..ring.HwCnt+n-1 :
          /\ bd'[Ahead(ring.HwHead, i)].done => i = k /\ ~Finished(Ahead(ring.HwHead, i))'
          /\ ring.IsRxChannel => bd'[Ahead(ring.HwHead, i)].app = "init"
    BY <1>0, <1>10, <1>7, <1>8, <1>9 DEF Processed, Finished
  <2>4. chan'.tdesc # None =>
          \E i \in k..ring.HwCnt+n-1 : chan'.tdesc = Ahead(ring.HwHead, i)
    BY <1>0, <1>10, <1>2, <1>7 DEF Processed
  <2>5. Position' = Ahead(ring.HwHead, k)
    BY <1>10, <2>1 DEF Processed
  <2>6. k..ring'.HwCnt-1 = k..ring.HwCnt+n-1
    BY <1>0, <1>7
  <2>7. Processed(k)'
    BY <1>7, <2>2, <2>3, <2>4, <2>5, <2>6, Zenon DEF Processed
  <2>8. ASSUME chan.flushing PROVE bd'[chan.cdesc] = bd[chan.cdesc]
    <3>1. PICK i \in k..ring.HwCnt-1 : chan.tdesc = Ahead(ring.HwHead, i)
      BY <1>10, <2>8 DEF Processed, ChannelInv
    <3>2. k \in 0..ring.HwCnt-1 /\ chan.cdesc = Ahead(ring.HwHead, k)
      BY <1>0, <1>10, <2>8, <3>1 DEF Processed, Position, ChannelInv
    <3>. QED
      BY <1>8, <3>2
  <2>9. last # None
    BY <1>3, BdAssumption DEF Bds
  <2>10. ChannelInv'
    BY <1>7, <1>10, <2>8, <2>9 DEF inst, ChannelInv
  <2>. QED
    BY <2>7, <2>10
<1>. QED
  BY <1>0, <1>5, <1>6, <1>7, <1>10 DEF RingInv, OnCourse, inst

LEMMA ToHwRefusedRing ==
  ASSUME RingInv, NEW n \in 1..BdCount, NEW ends, NEW m \in 0..n-1,
         ToHwRefused(n, ends, m), UNCHANGED inst
  PROVE  RingInv'
<1> USE DEF ToHwRefused, inst
<1>2. m \in 0..ring.PreCnt
  BY DEF RingInv, TypeOK, Ring
<1>3. \A b \in Bds : Scrub(bd[b], b \in ends) \in BdWords
  BY DEF RingInv, TypeOK, Ring, BdWords, Scrub
<1>4. TypeOK'
  BY <1>3 DEF RingInv, TypeOK
<1>5. Groups'
  BY DEF RingInv, Groups
<1>6. ASSUME ChannelInv, NEW k \in 0..ring.HwCnt, Processed(k)
      PROVE  Processed(k)' /\ ChannelInv'
  BY <1>2, <1>6, HwApart, ProcessedFrame DEF RingInv
<1>. QED
  BY <1>4, <1>5, <1>6 DEF RingInv, OnCourse

\* A BD that the engine has not processed is not taken for finished.
LEMMA ScannedBound ==
  ASSUME RingInv, ring.HwCnt > 0, NEW n \in 1..BdCount, Scanned(n)
  PROVE  /\ n <= ring.HwCnt
         /\ \A k \in 0..ring.HwCnt : Processed(k) => n <= k
<1>0. ring.HwCnt \in 1..BdCount /\ ring.HwTail = Ahead(ring.HwHead, ring.HwCnt - 1)
  BY DEF RingInv, TypeOK, Ring, Groups
<1>1. n <= ring.HwCnt
  BY <1>0 DEF Scanned
<1>2. ASSUME NEW k \in 0..ring.HwCnt, Processed(k), k < n PROVE FALSE
  <2>1. k \in 0..n-1 /\ k \in k..ring.HwCnt-1
    BY <1>0, <1>1, <1>2
  <2>2. Finished(Ahead(ring.HwHead, k))
    BY <2>1 DEF Scanned
  <2>. QED
    BY <1>2, <2>1, <2>2 DEF Processed, Finished
<1>3. \A k \in 0..ring.HwCnt : k < n \/ n <= k
  BY <1>0
<1>. QED
  BY <1>1, <1>2, <1>3

LEMMA FromHwRing ==
  ASSUME RingInv, NEW limit \in 1..BdCount, FromHw(limit), UNCHANGED inst
  PROVE  RingInv'
<1>2. PICK n \in 1..limit :
         /\ Whole(n)
         /\ ring' = [ring EXCEPT !.HwHead = Ahead(@, n),
                                 !.HwCnt = @ - n, !.PostCnt = @ + n]
  BY DEF FromHw
<1>3. ring.HwCnt > 0 /\ UNCHANGED <<bd, chan>>
  BY DEF FromHw
<1>4. /\ n \in 1..ring.HwCnt /\ ring.HwCnt \in 0..BdCount /\ ring.HwHead \in Bds
      /\ ring.PostHead \in Bds /\ ring.PostCnt \in 0..BdCount
      /\ ring.PostCnt + ring.HwCnt <= BdCount
      /\ BdCount \in Nat
  <2>1. n \in 1..BdCount
    BY BdAssumption
  <2>2. n <= ring.HwCnt
    BY <1>2, <1>3, <2>1, ScannedBound DEF Whole
  <2>. QED
    BY <2>2, BdAssumption DEF RingInv, TypeOK, Ring, Groups
<1>5. /\ Ahead(ring.HwHead, n) \in Bds
      /\ Ahead(ring.HwHead, n) = Ahead(ring.PostHead, ring.PostCnt + n)
      /\ \A i \in 0..ring.HwCnt-n :
            Ahead(Ahead(ring.HwHead, n), i) = Ahead(ring.HwHead, n + i)
  <2>1. n \in 0..BdCount /\ n \in Nat /\ ring.PostCnt \in Nat /\ ring.PostCnt + n <= BdCount
    BY <1>4
  <2>2. Ahead(ring.HwHead, n) = Ahead(ring.PostHead, ring.PostCnt + n)
    BY <1>4, <2>1, AheadAhead DEF RingInv, Groups
  <2>3. ASSUME NEW i \in 0..ring.HwCnt-n
        PROVE  Ahead(Ahead(ring.HwHead, n), i) = Ahead(ring.HwHead, n + i)
    <3>1. i \in Nat /\ n + i <= BdCount
      BY <1>4
    <3>. QED
      BY <1>4, <2>1, <3>1, AheadAhead
  <2>. QED
    BY <1>4, <2>1, <2>2, <2>3, AheadType
<1>6. TypeOK'
  <2>1. ring.HwCnt - n \in 0..BdCount /\ ring.PostCnt + n \in 0..BdCount
    BY <1>4
  <2>. QED
    BY <1>2, <1>3, <1>5, <2>1 DEF RingInv, TypeOK, Ring, inst
<1>7. Groups'
  <2>1. Ahead(Ahead(ring.HwHead, n), ring.HwCnt - n) = Ahead(ring.HwHead, ring.HwCnt)
    BY <1>4, <1>5
  <2>2. ring.HwCnt - n > 0 =>
          Ahead(Ahead(ring.HwHead, n), ring.HwCnt - n - 1) = Ahead(ring.HwHead, ring.HwCnt - 1)
    BY <1>4, <1>5
  <2>. QED
    BY <1>2, <1>4, <1>5, <2>1, <2>2 DEF RingInv, TypeOK, Ring, Groups
<1>8. /\ ring'.HwHead = Ahead(ring.HwHead, n) /\ ring'.HwCnt = ring.HwCnt - n
      /\ ring'.RunState = ring.RunState /\ ring'.BdaRestart = ring.BdaRestart
      /\ ring'.IsRxChannel = ring.IsRxChannel
  BY <1>2 DEF RingInv, TypeOK, Ring
<1>9. ASSUME NEW k \in 0..ring.HwCnt, Processed(k)
      PROVE  Processed(k - n)' /\ k - n \in 0..ring'.HwCnt
  <2>0. n <= k
    BY <1>2, <1>3, <1>4, <1>9, ScannedBound DEF Whole
  <2>1. Position' = Ahead(Ahead(ring.HwHead, n), k - n)
    BY <1>3, <1>4, <1>5, <1>8, <1>9, <2>0 DEF Processed, Position
  <2>2. \A i \in 0..k-n-1 : Finished(Ahead(ring.HwHead, i))'
    <3> TAKE i \in 0..k-n-1
    <3>1. n + i \in 0..k-1 /\ i \in 0..ring.HwCnt-n
      BY <1>4, <2>0
    <3>. QED
      BY <1>3, <1>5, <1>8, <1>9, <3>1 DEF Processed, Finished
  <2>3. \A i \in k-n..ring.HwCnt-n-1 :
          /\ bd[Ahead(Ahead(ring.HwHead, n), i)].done =>
                i = k - n /\ ~Finished(Ahead(Ahead(ring.HwHead, n), i))
          /\ ring.IsRxChannel => bd[Ahead(Ahead(ring.HwHead, n), i)].app = "init"
    <3> TAKE i \in k-n..ring.HwCnt-n-1
    <3>1. n + i \in k..ring.HwCnt-1 /\ i \in 0..ring.HwCnt-n /\ (n + i = k => i = k - n)
      BY <1>4, <2>0
    <3>. QED
      BY <1>5, <1>9, <3>1 DEF Processed
  <2>4. chan.tdesc # None => \E i \in k-n..ring.HwCnt-n-1 :
          chan.tdesc = Ahead(Ahead(ring.HwHead, n), i)
    <3> SUFFICES ASSUME chan.tdesc # None
                 PROVE  \E i \in k-n..ring.HwCnt-n-1 :
                          chan.tdesc = Ahead(Ahead(ring.HwHead, n), i)
      OBVIOUS
    <3>1. PICK j \in k..ring.HwCnt-1 : chan.tdesc = Ahead(ring.HwHead, j)
      BY <1>9 DEF Processed
    <3>2. j - n \in k-n..ring.HwCnt-n-1 /\ j - n \in 0..ring.HwCnt-n /\ n + (j - n) = j
      BY <1>4, <2>0
    <3>3. chan.tdesc = Ahead(Ahead(ring.HwHead, n), j - n)
      BY <1>5, <3>1, <3>2
    <3>. QED
      BY <3>2, <3>3
  <2>5. ring'.HwCnt-1 = ring.HwCnt-n-1
    BY <1>4, <1>8
  <2>6. bd' = bd /\ chan' = chan
    BY <1>3
  <2>7. \A b : Finished(b)' <=> Finished(b)
    BY <1>8, <2>6 DEF Finished
  <2>8. Processed(k - n)'
    BY <1>8, <2>1, <2>2, <2>3, <2>4, <2>5, <2>6, <2>7, Zenon DEF Processed
  <2>. QED
    BY <1>4, <1>8, <2>0, <2>8
<1>10. ChannelInv => ChannelInv'
  BY <1>3, <1>8 DEF ChannelInv, inst
<1>. QED
  BY <1>6, <1>7, <1>9, <1>10 DEF RingInv, OnCourse, inst

LEMMA FreeRing ==
  ASSUME RingInv, NEW n \in 1..BdCount, Free(n), UNCHANGED inst
  PROVE  RingInv'
<1>2. n \in 0..ring.PostCnt /\ ring.PostCnt \in 0..BdCount /\ BdCount \in Nat
      /\ ring.PostHead \in Bds
  <2>1. n <= ring.PostCnt
    BY DEF Free
  <2>. QED
    BY <2>1, BdAssumption DEF RingInv, TypeOK, Ring
<1>3. /\ Ahead(ring.PostHead, n) \in Bds
      /\ Ahead(Ahead(ring.PostHead, n), ring.PostCnt - n) = Ahead(ring.PostHead, ring.PostCnt)
  <2>1. n \in 0..BdCount /\ n \in Nat /\ ring.PostCnt - n \in Nat /\ n + (ring.PostCnt - n) = ring.PostCnt
    BY <1>2
  <2>. QED
    BY <1>2, <2>1, AheadType, AheadAhead
<1>4. TypeOK'
  <2>1. ring.FreeCnt + n \in 0..BdCount /\ ring.PostCnt - n \in 0..BdCount
    BY <1>2 DEF RingInv, TypeOK, Ring, Groups
  <2>2. ring' \in Ring
    BY <1>3, <2>1 DEF Free, RingInv, TypeOK, Ring
  <2>3. bd' \in [Bds -> BdWords]
    BY DEF Free, RingInv, TypeOK, BdWords
  <2>. QED
    BY <2>2, <2>3 DEF Free, inst, RingInv, TypeOK
<1>5. Groups'
  <2>1. /\ ring' = [ring EXCEPT !.PostHead = Ahead(@, n),
                                !.FreeCnt = @ + n, !.PostCnt = @ - n]
        /\ ring.FreeCnt \in 0..BdCount
    BY DEF Free, RingInv, TypeOK, Ring
  <2>. QED
    BY <1>2, <1>3, <2>1 DEF RingInv, TypeOK, Ring, Groups
<1>6. ASSUME ChannelInv, NEW k \in 0..ring.HwCnt, Processed(k)
      PROVE  Processed(k)' /\ ChannelInv'
  BY <1>2, <1>6, HwApart, ProcessedFrame DEF Free, inst, RingInv, TypeOK, Ring
<1>. QED
  BY <1>4, <1>5, <1>6 DEF Free, inst, RingInv, OnCourse, TypeOK, Ring

\* A call that starts or stops channels leaves the groups and the BDs alone.
LEMMA ControlFrame ==
  ASSUME TypeOK, Control \/ SwReset
  PROVE  /\ ring'.FreeCnt = ring.FreeCnt /\ ring'.FreeHead = ring.FreeHead
         /\ ring'.PreCnt = ring.PreCnt /\ ring'.PreHead = ring.PreHead
         /\ ring'.HwCnt = ring.HwCnt /\ ring'.HwHead = ring.HwHead
         /\ ring'.HwTail = ring.HwTail
         /\ ring'.PostCnt = ring.PostCnt /\ ring'.PostHead = ring.PostHead
         /\ ring'.IsRxChannel = ring.IsRxChannel
         /\ UNCHANGED bd /\ (strayed => strayed')
  BY DEF Control, Start, StartOther, SnapShot, SwReset, Pause, Resume, TypeOK, Ring

\* Unless it strays, a call that starts or stops channels leaves the engine where
\* it was.
LEMMA ControlRing ==
  ASSUME RingInv, (~resetting /\ Control) \/ SwReset
  PROVE  RingInv'
<1> USE DEF Control, Start, StartOther, SnapShot, SwReset, Pause, Resume
<1>1. /\ ring'.FreeCnt = ring.FreeCnt /\ ring'.FreeHead = ring.FreeHead
      /\ ring'.PreCnt = ring.PreCnt /\ ring'.PreHead = ring.PreHead
      /\ ring'.HwCnt = ring.HwCnt /\ ring'.HwHead = ring.HwHead
      /\ ring'.HwTail = ring.HwTail
      /\ ring'.PostCnt = ring.PostCnt /\ ring'.PostHead = ring.PostHead
      /\ ring'.IsRxChannel = ring.IsRxChannel
      /\ UNCHANGED bd
  BY ControlFrame DEF RingInv
<1>2. TypeOK'
  <2>1. ring' \in Ring
    BY DEF RingInv, TypeOK, Ring, Chan, RunStates
  <2>2. chan' \in Chan
    BY DEF RingInv, TypeOK, Ring, Chan
  <2>3. other' \in RunStates /\ resetting' \in BOOLEAN /\ strayed' \in BOOLEAN
    BY DEF RingInv, TypeOK, RunStates
  <2>. QED
    BY <1>1, <2>1, <2>2, <2>3 DEF RingInv, TypeOK
<1>3. Groups'
  BY <1>1 DEF RingInv, Groups
<1>4. strayed => strayed'
  OBVIOUS
<1>5. ASSUME ~strayed', ChannelInv, NEW k \in 0..ring.HwCnt, Processed(k)
      PROVE  Processed(k)' /\ ChannelInv'
  <2>0. Ahead(ring.HwHead, k) \in Bds /\ Ahead(ring.HwHead, k) # None
    <3>1. k \in 0..BdCount /\ ring.HwHead \in Bds
      BY BdAssumption DEF RingInv, TypeOK, Ring
    <3>. QED
      BY <3>1, AheadType, BdAssumption DEF Bds
  <2>1. ASSUME Position' = Position, ChannelInv',
               \/ chan'.tdesc \in {None, chan.tdesc}
               \/ /\ chan'.tdesc = ring.HwTail
                  /\ ring.HwCnt > 0 /\ ~bd[ring.HwTail].done
        PROVE  Processed(k)' /\ ChannelInv'
    <3>1. chan'.tdesc # None =>
            \E i \in k..ring.HwCnt-1 : chan'.tdesc = Ahead(ring.HwHead, i)
      <4>1. CASE chan'.tdesc \in {None, chan.tdesc}
        BY <1>5, <4>1 DEF Processed
      <4>2. CASE /\ chan'.tdesc = ring.HwTail
                 /\ ring.HwCnt > 0 /\ ~bd[ring.HwTail].done
        <5>1. ring.HwTail = Ahead(ring.HwHead, ring.HwCnt - 1) /\ ring.HwCnt \in Nat
          BY <4>2 DEF RingInv, TypeOK, Ring, Groups
        <5>2. k # ring.HwCnt
          BY <1>5, <4>2, <5>1 DEF Processed, Finished
        <5>. QED
          BY <4>2, <5>1, <5>2
      <4>. QED
        BY <2>1, <4>1, <4>2
    <3>. QED
      BY <1>1, <1>5, <2>1, <3>1 DEF Processed, Finished
  <2>2. CASE ~resetting /\ Start
    <3>1. /\ ring' = [ring EXCEPT !.RunState = "started"] /\ resetting' = resetting
          /\ ring.RunState = "stopped" /\ (chan.cdesc = None \/ ~chan.paused)
          /\ chan'.cdesc = ring.BdaRestart
          /\ chan'.paused = chan.paused /\ chan'.flushing = chan.flushing
          /\ chan'.tdesc = IF ring.HwCnt > 0 /\ ~bd[ring.HwTail].done
                           THEN ring.HwTail ELSE chan.tdesc
      BY <1>5, <2>2 DEF RingInv, TypeOK, Chan
    <3>2. ring.BdaRestart = Position /\ Position # None
      BY <1>5, <2>0, <3>1 DEF ChannelInv, Processed, Position
    <3>3. ring'.RunState = "started"
      BY <3>1 DEF RingInv, TypeOK, Ring
    <3>4. ring.HwTail # None
      BY BdAssumption DEF RingInv, TypeOK, Ring, Bds
    <3>5. chan.flushing => chan.cdesc = ring.BdaRestart
      BY <1>5, <3>2 DEF ChannelInv, Position
    <3>6. ChannelInv'
      BY <1>1, <1>5, <2>2, <3>1, <3>2, <3>3, <3>4, <3>5 DEF ChannelInv
    <3>. QED
      BY <2>1, <3>1, <3>2, <3>6 DEF Position
  <2>3. CASE ~resetting /\ StartOther
    <3>1. ChannelInv'
      BY <1>5, <2>3 DEF ChannelInv
    <3>. QED
      BY <2>1, <2>3, <3>1 DEF Position
  <2>4. CASE ~resetting /\ SnapShot
    <3>1. /\ ring'.BdaRestart = chan.cdesc /\ ring'.RunState = ring.RunState
          /\ UNCHANGED chan /\ chan.cdesc # None
      BY <1>5, <2>4 DEF RingInv, TypeOK, Ring
    <3>2. ChannelInv'
      BY <1>1, <1>5, <3>1 DEF ChannelInv
    <3>. QED
      BY <2>1, <3>1, <3>2 DEF Position
  <2>5. CASE SwReset
    <3>1. /\ ring'.BdaRestart = ring.BdaRestart /\ ring'.RunState = "stopped" /\ resetting
          /\ chan'.cdesc = chan.cdesc /\ chan'.tdesc = None
          /\ ~chan'.paused /\ ~chan'.flushing
      BY <2>5 DEF RingInv, TypeOK, Ring, Chan
    <3>2. ChannelInv'
      BY <1>5, <3>1 DEF ChannelInv
    <3>. QED
      BY <2>1, <3>1, <3>2 DEF Position
  <2>6. CASE ~resetting /\ Pause
    <3>1. /\ ring'.BdaRestart = ring.BdaRestart /\ ring'.RunState = "stopped"
          /\ ~resetting' /\ chan'.cdesc = chan.cdesc /\ chan'.tdesc = chan.tdesc
          /\ chan'.paused /\ ~chan'.flushing
      BY <2>6 DEF RingInv, TypeOK, Ring, Chan
    <3>2. ChannelInv'
      BY <1>5, <3>1 DEF ChannelInv
    <3>. QED
      BY <2>1, <3>1, <3>2 DEF Position
  <2>7. CASE ~resetting /\ Resume
    <3>1. /\ ring'.BdaRestart = ring.BdaRestart /\ ring'.RunState = "started"
          /\ ~resetting' /\ chan'.cdesc = chan.cdesc /\ chan'.tdesc = chan.tdesc
          /\ ~chan'.paused /\ chan'.flushing = chan.flushing /\ chan.cdesc # None
      BY <1>5, <2>7 DEF RingInv, TypeOK, Ring, Chan
    <3>2. ChannelInv'
      BY <1>1, <1>5, <3>1 DEF ChannelInv
    <3>. QED
      BY <2>1, <3>1, <3>2 DEF Position
  <2>. QED
    BY <2>2, <2>3, <2>4, <2>5, <2>6, <2>7
<1>. QED
  BY <1>1, <1>2, <1>3, <1>4, <1>5 DEF RingInv, OnCourse

\* Where the engine works.
LEMMA EngineAt ==
  ASSUME RingInv, ChannelInv, NEW k \in 0..ring.HwCnt, Processed(k),
         chan.tdesc # None
  PROVE  /\ k \in 0..ring.HwCnt-1
         /\ chan.cdesc = Ahead(ring.HwHead, k)
         /\ chan.cdesc \in Bds
         /\ BdNext(chan.cdesc) = Ahead(ring.HwHead, k + 1)
         /\ BdNext(chan.cdesc) \in Bds
         /\ \A i \in 0..ring.HwCnt-1 : Ahead(ring.HwHead, i) = chan.cdesc => i = k
<1>1. PICK j \in k..ring.HwCnt-1 : chan.tdesc = Ahead(ring.HwHead, j)
  BY DEF Processed
<1>2. ring.HwCnt \in 0..BdCount /\ ring.HwHead \in Bds
  BY DEF RingInv, TypeOK, Ring
<1>3. k \in 0..ring.HwCnt-1 /\ k \in 0..BdCount-1 /\ k + 1 \in 0..BdCount
  BY <1>1, <1>2, BdAssumption
<1>4. chan.cdesc = Ahead(ring.HwHead, k)
  BY DEF ChannelInv, Processed, Position
<1>5. ASSUME NEW i \in 0..ring.HwCnt-1, Ahead(ring.HwHead, i) = chan.cdesc
      PROVE  i = k
  <2>1. i \in 0..BdCount-1
    BY <1>2, BdAssumption
  <2>. QED
    BY <1>2, <1>3, <1>4, <1>5, <2>1, AheadInjective
<1>6. k \in 0..BdCount
  BY <1>3, BdAssumption
<1>7. chan.cdesc \in Bds
  BY <1>2, <1>4, <1>6, AheadType
<1>8. BdNext(chan.cdesc) = Ahead(ring.HwHead, k + 1)
  BY <1>2, <1>3, <1>4, NextAhead
<1>9. BdNext(chan.cdesc) \in Bds
  BY <1>2, <1>3, <1>8, AheadType
<1>. QED
  BY <1>3, <1>4, <1>5, <1>7, <1>8, <1>9

\* The engine completes the BD it is at and goes on to the next.
LEMMA PastBdRing ==
  ASSUME RingInv, ChannelInv, NEW k \in 0..ring.HwCnt, Processed(k),
         chan.tdesc # None, ~resetting, UNCHANGED resetting,
         chan' = PastBd, UNCHANGED ring,
         NEW word \in BdWords, bd' = [bd EXCEPT ![chan.cdesc] = word],
         word.done, ring.IsRxChannel /\ word.eop => word.app # "init"
  PROVE  OnCourse'
<1>1. ring.HwCnt \in 0..BdCount /\ k \in 0..ring.HwCnt-1 /\ k + 1 \in 0..ring.HwCnt
  BY EngineAt DEF RingInv, TypeOK, Ring
<1>2. /\ chan'.cdesc = Ahead(ring.HwHead, k + 1) /\ chan'.cdesc \in Bds
      /\ ~chan'.flushing /\ chan'.paused = chan.paused
      /\ chan'.tdesc = IF chan.cdesc = chan.tdesc THEN None ELSE chan.tdesc
  BY EngineAt DEF PastBd, RingInv, TypeOK, Chan
<1>3. /\ bd'[Ahead(ring.HwHead, k)] = word
      /\ \A i \in 0..ring.HwCnt-1 : i # k =>
            bd'[Ahead(ring.HwHead, i)] = bd[Ahead(ring.HwHead, i)]
  <2>1. bd'[chan.cdesc] = word /\ \A b \in Bds : b # chan.cdesc => bd'[b] = bd[b]
    BY EngineAt DEF RingInv, TypeOK
  <2>. QED
    BY <2>1, EngineAt, HwApart DEF RingInv
<1>6. (ring.RunState = "started" \/ chan.paused) /\ chan'.cdesc # None
  BY <1>2, BdAssumption DEF ChannelInv, Bds
<1>7. ChannelInv'
  BY <1>2, <1>6 DEF ChannelInv
<1>8. Processed(k + 1)'
  <2>1. Position' = Ahead(ring.HwHead, k + 1)
    BY <1>2, <1>6 DEF Position
  <2>2. \A i \in 0..k : Finished(Ahead(ring.HwHead, i))'
    <3> TAKE i \in 0..k
    <3>1. CASE i = k
      BY <1>3, <3>1 DEF Finished
    <3>2. CASE i # k
      <4>1. i \in 0..k-1 /\ i \in 0..ring.HwCnt-1
        BY <1>1, <3>2
      <4>. QED
        BY <1>3, <3>2, <4>1 DEF Processed, Finished
    <3>. QED
      BY <3>1, <3>2
  <2>3. \A i \in k+1..ring.HwCnt-1 :
          /\ ~bd'[Ahead(ring.HwHead, i)].done
          /\ ring.IsRxChannel => bd'[Ahead(ring.HwHead, i)].app = "init"
    <3> TAKE i \in k+1..ring.HwCnt-1
    <3>1. i \in k..ring.HwCnt-1 /\ i \in 0..ring.HwCnt-1 /\ i # k
      BY <1>1
    <3>. QED
      BY <1>3, <3>1 DEF Processed
  <2>4. chan'.tdesc # None =>
          \E i \in k+1..ring.HwCnt-1 : chan'.tdesc = Ahead(ring.HwHead, i)
    <3> SUFFICES ASSUME chan'.tdesc # None
                 PROVE  \E i \in k+1..ring.HwCnt-1 : chan'.tdesc = Ahead(ring.HwHead, i)
      OBVIOUS
    <3>1. PICK j \in k..ring.HwCnt-1 : chan.tdesc = Ahead(ring.HwHead, j)
      BY DEF Processed
    <3>2. j # k /\ chan'.tdesc = chan.tdesc
      BY <1>2, <3>1, EngineAt
    <3>. QED
      BY <1>1, <3>1, <3>2
  <2>5. (k + 1) - 1 = k
    BY <1>1
  <2>. QED
    BY <2>1, <2>2, <2>3, <2>4, <2>5 DEF Processed
<1>. QED
  BY <1>1, <1>7, <1>8 DEF OnCourse

LEMMA EngineRing ==
  ASSUME RingInv, Engine
  PROVE  RingInv'
<1>1. /\ UNCHANGED <<ring, other, resetting>> /\ (strayed => strayed')
      /\ chan.cdesc \in Bds /\ bd[chan.cdesc] \in BdWords
  BY DEF Engine, Transmit, Receive, Flush, Passes, RingInv, TypeOK, Chan
<1>2. TypeOK'
  <2>1. BdNext(chan.cdesc) \in Bds
    BY <1>1, BdAssumption DEF BdNext, Bds
  <2>2. PastBd \in Chan
    BY <2>1 DEF PastBd, RingInv, TypeOK, Chan
  <2>3. chan' \in Chan /\ strayed' \in BOOLEAN
    BY <2>2 DEF Engine, Transmit, Receive, Flush, Passes, RingInv, TypeOK, Chan
  <2>4. bd' \in [Bds -> BdWords]
    <3>1. ASSUME NEW end \in BOOLEAN
          PROVE  /\ [bd[chan.cdesc] EXCEPT !.done = TRUE] \in BdWords
                 /\ [bd[chan.cdesc] EXCEPT !.done = TRUE, !.eop = end] \in BdWords
                 /\ [bd[chan.cdesc] EXCEPT !.app = "value"] \in BdWords
      BY <1>1 DEF BdWords
    <3>2. PICK word \in BdWords : bd' = [bd EXCEPT ![chan.cdesc] = word]
      <4>1. CASE Transmit
        BY <3>1, <4>1 DEF Transmit
      <4>2. CASE Receive
        <5>1. PICK end \in BOOLEAN :
                bd' = [bd EXCEPT ![chan.cdesc].done = TRUE, ![chan.cdesc].eop = end]
          BY <4>2 DEF Receive
        <5>2. bd' = [bd EXCEPT ![chan.cdesc] = [@ EXCEPT !.done = TRUE, !.eop = end]]
          BY <1>1, <5>1 DEF RingInv, TypeOK, BdWords
        <5>. QED
          BY <3>1, <5>2
      <4>3. CASE Flush
        BY <3>1, <4>3 DEF Flush
      <4>. QED
        BY <4>1, <4>2, <4>3 DEF Engine
    <3>. QED
      BY <3>2 DEF RingInv, TypeOK
  <2>. QED
    BY <1>1, <2>3, <2>4 DEF RingInv, TypeOK
<1>3. Groups'
  BY <1>1 DEF RingInv, Groups
<1>4. SUFFICES ASSUME ~strayed' PROVE OnCourse'
  BY <1>2, <1>3 DEF RingInv
<1>5. ChannelInv /\ ~strayed
  BY <1>1, <1>4 DEF RingInv, OnCourse
<1>6. PICK k \in 0..ring.HwCnt : Processed(k)
  BY <1>5 DEF RingInv, OnCourse
<1>7. chan.tdesc # None
  BY <1>5 DEF Engine, Transmit, Receive, Flush, Working, ChannelInv
<1>8. k \in k..ring.HwCnt-1 /\ chan.cdesc = Ahead(ring.HwHead, k)
  BY <1>5, <1>6, <1>7, EngineAt DEF RingInv, TypeOK
<1>9. CASE Transmit
  <2> DEFINE word == [bd[chan.cdesc] EXCEPT !.done = TRUE]
  <2>1. word \in BdWords /\ word.done
    BY <1>1 DEF BdWords
  <2>2. bd' = [bd EXCEPT ![chan.cdesc] = word] /\ ~resetting /\ chan' = PastBd
    BY <1>4, <1>9 DEF Transmit, Passes
  <2>. QED
    BY <1>1, <1>5, <1>6, <1>7, <1>9, <2>1, <2>2, PastBdRing DEF Transmit
<1>10. CASE Receive
  <2>1. PICK end \in BOOLEAN :
          /\ bd' = [bd EXCEPT ![chan.cdesc].done = TRUE, ![chan.cdesc].eop = end]
          /\ \/ end /\ chan' = [chan EXCEPT !.flushing = TRUE] /\ UNCHANGED strayed
             \/ ~end /\ Passes
    BY <1>10 DEF Receive
  <2> DEFINE word == [bd[chan.cdesc] EXCEPT !.done = TRUE, !.eop = end]
  <2>2. word \in BdWords /\ word.done /\ word.eop = end /\ word.app = bd[chan.cdesc].app
    BY <1>1 DEF BdWords
  <2>3. bd' = [bd EXCEPT ![chan.cdesc] = word]
    BY <1>1, <2>1 DEF RingInv, TypeOK, BdWords
  <2>4. CASE ~end
    <3>1. chan' = PastBd /\ ~resetting
      BY <1>4, <2>1, <2>4 DEF Passes
    <3>. QED
      BY <1>1, <1>5, <1>6, <1>7, <2>2, <2>3, <2>4, <3>1, PastBdRing
  <2>5. CASE end
    <3>1. /\ chan'.flushing /\ chan'.cdesc = chan.cdesc /\ chan'.tdesc = chan.tdesc
          /\ chan'.paused = chan.paused
      BY <2>1, <2>5 DEF RingInv, TypeOK, Chan
    <3>2. ring.IsRxChannel
      BY <1>10 DEF Receive
    <3>3. word.app = "init"
      BY <1>6, <1>8, <2>2, <3>2 DEF Processed
    <3>4. /\ bd'[chan.cdesc] = word
          /\ \A i \in 0..ring.HwCnt-1 : i # k =>
                bd'[Ahead(ring.HwHead, i)] = bd[Ahead(ring.HwHead, i)]
      <4>1. bd'[chan.cdesc] = word /\ \A b \in Bds : b # chan.cdesc => bd'[b] = bd[b]
        BY <1>1, <2>3 DEF RingInv, TypeOK
      <4>. QED
        BY <1>5, <1>6, <1>7, <4>1, EngineAt, HwApart DEF RingInv
    <3>5. ChannelInv'
      BY <1>1, <1>5, <1>7, <2>2, <2>5, <3>1, <3>2, <3>3, <3>4 DEF ChannelInv
    <3>6. Processed(k)'
      <4>1. Position' = Position
        BY <1>1, <3>1 DEF Position
      <4>2. \A i \in 0..k-1 : Finished(Ahead(ring.HwHead, i))'
        <5> TAKE i \in 0..k-1
        <5>1. i \in 0..ring.HwCnt-1 /\ i # k
          BY <1>8 DEF RingInv, TypeOK, Ring
        <5>. QED
          BY <1>1, <1>6, <3>4, <5>1 DEF Processed, Finished
      <4>3. \A i \in k..ring.HwCnt-1 :
              /\ bd'[Ahead(ring.HwHead, i)].done =>
                    i = k /\ ~Finished(Ahead(ring.HwHead, i))'
              /\ bd'[Ahead(ring.HwHead, i)].app = "init"
        <5> TAKE i \in k..ring.HwCnt-1
        <5>1. CASE i = k
          BY <1>1, <1>8, <2>2, <2>5, <3>2, <3>3, <3>4, <5>1 DEF Finished
        <5>2. CASE i # k
          <6>1. i \in 0..ring.HwCnt-1
            BY DEF RingInv, TypeOK, Ring
          <6>. QED
            BY <1>1, <1>6, <3>2, <3>4, <5>2, <6>1 DEF Processed
        <5>. QED
          BY <5>1, <5>2
      <4>. QED
        BY <1>1, <1>6, <3>1, <4>1, <4>2, <4>3 DEF Processed
    <3>. QED
      BY <1>1, <3>5, <3>6 DEF OnCourse
  <2>. QED
    BY <2>4, <2>5
<1>11. CASE Flush
  <2> DEFINE word == [bd[chan.cdesc] EXCEPT !.app = "value"]
  <2>1. word \in BdWords /\ word.done /\ word.app # "init"
    BY <1>1, <1>5, <1>11 DEF Flush, BdWords, ChannelInv
  <2>2. bd' = [bd EXCEPT ![chan.cdesc] = word] /\ ~resetting /\ chan' = PastBd
    BY <1>4, <1>11 DEF Flush, Passes
  <2>. QED
    BY <1>1, <1>5, <1>6, <1>7, <2>1, <2>2, PastBdRing
<1>. QED
  BY <1>9, <1>10, <1>11 DEF Engine

\* The ring's invariant holds in every state, for rings of every size and any
\* order of calls: the four groups partition the ring, and the engine, unless it
\* has strayed, works only on BDs that it was given and has not processed.
THEOREM RingInvariance == Spec => []RingInv
<1>1. ASSUME RingInv, [Next]_ringVars PROVE RingInv'
  <2>1. CASE UNCHANGED ringVars
    BY <1>1, <2>1 DEF ringVars, inst, RingInv, TypeOK, Groups, OnCourse, Processed,
       Position, Finished, ChannelInv
  <2>2. CASE ~resetting /\ Calls /\ UNCHANGED inst
    <3>1. CASE \E template \in BdWords : Clone(template)
      BY <1>1, <2>2, <3>1, CloneRing
    <3>2. ASSUME NEW n \in 1..BdCount, Alloc(n) \/ UnAlloc(n) \/ FromHw(n) \/ Free(n)
          PROVE  RingInv'
      BY <1>1, <2>2, <3>2, AllocRing, UnAllocRing, FromHwRing, FreeRing
    <3>3. ASSUME NEW n \in 1..BdCount, NEW ends,
                 ToHw(n, ends) \/ \E k \in 0..n-1 : ToHwRefused(n, ends, k)
          PROVE  RingInv'
      BY <1>1, <2>2, <3>3, ToHwRing, ToHwRefusedRing
    <3>. QED
      BY <2>2, <3>1, <3>2, <3>3 DEF Calls
  <2>3. CASE (~resetting /\ Control) \/ SwReset
    BY <1>1, <2>3, ControlRing
  <2>4. CASE Engine
    BY <1>1, <2>4, EngineRing
  <2>. QED
    BY <1>1, <2>1, <2>2, <2>3, <2>4 DEF Next
<1>. QED
  BY <1>1, InitRing, PTL DEF Spec
-----------------------------------------------------------------------------
(* Whole packets.                                                          *)

\* The last of the BDs taken back, and who else touches them.
LEMMA PostFacts ==
  ASSUME TypeOK, Groups
  PROVE  /\ ring.PostCnt > 0 => /\ Back(ring.HwHead, 1) = Ahead(ring.PostHead, ring.PostCnt - 1)
                                /\ Back(ring.HwHead, 1) \in Run(ring.PostHead, ring.PostCnt)
         /\ Run(ring.PostHead, ring.PostCnt) \subseteq Bds
         /\ \A n \in 0..ring.PreCnt :
               Run(ring.PostHead, ring.PostCnt) \cap Run(ring.PreHead, n) = {}
<1>1. /\ ring.PostHead \in Bds /\ ring.PostCnt \in 0..BdCount /\ ring.HwCnt \in 0..BdCount
      /\ ring.PreCnt \in 0..BdCount /\ ring.PostCnt + ring.HwCnt + ring.PreCnt <= BdCount
      /\ BdCount \in Nat
  BY BdAssumption DEF TypeOK, Ring, Groups
<1>2. ASSUME ring.PostCnt > 0
      PROVE  /\ Back(ring.HwHead, 1) = Ahead(ring.PostHead, ring.PostCnt - 1)
             /\ Back(ring.HwHead, 1) \in Run(ring.PostHead, ring.PostCnt)
  <2>1. 1 \in 0..ring.PostCnt /\ ring.PostCnt - 1 \in 0..ring.PostCnt-1
    BY <1>1, <1>2
  <2>2. Back(ring.HwHead, 1) = Ahead(ring.PostHead, ring.PostCnt - 1)
    BY <1>1, <2>1, BackAhead DEF Groups
  <2>. QED
    BY <2>1, <2>2 DEF Run
<1>3. Run(ring.PostHead, ring.PostCnt) \subseteq Bds
  <2>1. \A i \in 0..ring.PostCnt-1 : i \in 0..BdCount
    BY <1>1
  <2>. QED
    BY <1>1, <2>1, AheadType DEF Run
<1>4. ASSUME NEW n \in 0..ring.PreCnt
      PROVE  Run(ring.PostHead, ring.PostCnt) \cap Run(ring.PreHead, n) = {}
  <2>1. /\ ring.PostCnt + ring.HwCnt \in Nat /\ n \in Nat
        /\ ring.PostCnt + ring.HwCnt + n <= BdCount
        /\ ring.PostCnt \in Nat /\ ring.HwCnt \in Nat /\ ring.PostCnt + ring.HwCnt <= BdCount
    BY <1>1
  <2>2. ring.PreHead = Ahead(ring.PostHead, ring.PostCnt + ring.HwCnt)
    BY <1>1, <2>1, AheadAhead DEF Groups
  <2>3. Run(ring.PostHead, ring.PostCnt) \subseteq Run(ring.PostHead, ring.PostCnt + ring.HwCnt)
    BY <2>1 DEF Run
  <2>. QED
    BY <1>1, <2>1, <2>2, <2>3, RunsApart
<1>. QED
  BY <1>2, <1>3, <1>4

LEMMA WholeFrame ==
  ASSUME RingInv, WholePackets, strayed => strayed',
         ring'.PostHead = ring.PostHead, ring'.PostCnt = ring.PostCnt,
         ring'.HwHead = ring.HwHead, ring'.IsRxChannel = ring.IsRxChannel,
         \A b \in Run(ring.PostHead, ring.PostCnt) : bd'[b] = bd[b]
  PROVE  WholePackets'
  BY PostFacts DEF RingInv, WholePackets, Finished, Run

LEMMA FromHwWhole ==
  ASSUME RingInv, RingInv', WholePackets, NEW limit \in 1..BdCount, FromHw(limit),
         UNCHANGED inst, ~strayed
  PROVE  WholePackets'
<1>1. PICK n \in 1..limit :
         /\ Whole(n)
         /\ ring' = [ring EXCEPT !.HwHead = Ahead(@, n),
                                 !.HwCnt = @ - n, !.PostCnt = @ + n]
  BY DEF FromHw
<1>2. UNCHANGED bd
  BY DEF FromHw
<1>3. /\ ring'.HwHead = Ahead(ring.HwHead, n) /\ ring'.PostHead = ring.PostHead
      /\ ring'.PostCnt = ring.PostCnt + n /\ ring'.IsRxChannel = ring.IsRxChannel
      /\ ring.HwHead \in Bds /\ ring.PostHead \in Bds /\ ring.PostCnt \in 0..BdCount
      /\ ring.PostCnt + n <= BdCount /\ ring.HwHead = Ahead(ring.PostHead, ring.PostCnt)
      /\ BdCount \in Nat
  <2>1. /\ ring'.HwHead = Ahead(ring.HwHead, n) /\ ring'.PostHead = ring.PostHead
        /\ ring'.PostCnt = ring.PostCnt + n /\ ring'.IsRxChannel = ring.IsRxChannel
    BY <1>1 DEF RingInv, TypeOK, Ring
  <2>2. ring'.PostCnt \in 0..BdCount
    BY DEF RingInv, TypeOK, Ring
  <2>. QED
    BY <2>1, <2>2, BdAssumption DEF RingInv, TypeOK, Ring, Groups
<1>4. n \in 0..BdCount /\ 1 \in 0..n /\ n - 1 \in 0..n-1
  BY <1>3
<1>5. bd'[Back(ring'.HwHead, 1)].eop
  <2>1. Back(ring'.HwHead, 1) = Ahead(ring.HwHead, n - 1)
    BY <1>3, <1>4, BackAhead
  <2>. QED
    BY <1>1, <1>2, <2>1 DEF Whole
<1>6. ASSUME NEW i \in 0..ring.PostCnt+n-1
      PROVE  Finished(Ahead(ring.PostHead, i))'
  <2>1. CASE i < ring.PostCnt
    <3>1. Ahead(ring.PostHead, i) \in Run(ring.PostHead, ring.PostCnt)
      BY <1>3, <2>1 DEF Run
    <3>. QED
      BY <1>2, <1>3, <3>1 DEF WholePackets, Finished
  <2>2. CASE i >= ring.PostCnt
    <3>1. /\ i - ring.PostCnt \in 0..n-1 /\ i - ring.PostCnt \in Nat /\ ring.PostCnt \in Nat
          /\ ring.PostCnt + (i - ring.PostCnt) = i /\ i <= BdCount
      BY <1>3, <2>2
    <3>2. Ahead(ring.PostHead, i) = Ahead(ring.HwHead, i - ring.PostCnt)
      BY <1>3, <3>1, AheadAhead
    <3>. QED
      BY <1>1, <1>2, <1>3, <3>1, <3>2 DEF Whole, Scanned, Finished
  <2>. QED
    BY <1>3, <2>1, <2>2
<1>. QED
  BY <1>3, <1>5, <1>6 DEF WholePackets, Run

LEMMA FreeWhole ==
  ASSUME RingInv, RingInv', WholePackets, NEW n \in 1..BdCount, Free(n),
         UNCHANGED inst, ~strayed
  PROVE  WholePackets'
<1>1. /\ n <= ring.PostCnt
      /\ ring' = [ring EXCEPT !.PostHead = Ahead(@, n),
                              !.FreeCnt = @ + n, !.PostCnt = @ - n]
      /\ bd' = [b \in Bds |-> IF b \in Run(ring.PostHead, n)
                              THEN [bd[b] EXCEPT !.done = FALSE, !.eop = FALSE]
                              ELSE bd[b]]
  BY DEF Free
<1>2. /\ ring'.PostHead = Ahead(ring.PostHead, n) /\ ring'.PostCnt = ring.PostCnt - n
      /\ ring'.HwHead = ring.HwHead /\ ring'.IsRxChannel = ring.IsRxChannel
      /\ ring.PostHead \in Bds /\ ring.PostCnt \in 0..BdCount /\ BdCount \in Nat
      /\ n \in 1..ring.PostCnt
  <2>1. ring \in Ring /\ ring.PostCnt \in 0..BdCount /\ BdCount \in Nat
    BY BdAssumption DEF RingInv, TypeOK, Ring
  <2>2. n <= ring.PostCnt
    BY <1>1, Zenon
  <2>3. n \in 1..ring.PostCnt
    BY <2>1, <2>2
  <2>. QED
    BY <1>1, <2>1, <2>3 DEF Ring
<1>3. ASSUME NEW b \in Run(ring'.PostHead, ring'.PostCnt)
      PROVE  b \in Run(ring.PostHead, ring.PostCnt) /\ bd'[b] = bd[b]
  <2>1. PICK i \in 0..ring.PostCnt-n-1 : b = Ahead(Ahead(ring.PostHead, n), i)
    BY <1>2, <1>3 DEF Run
  <2>2. n \in Nat /\ i \in Nat /\ n + i \in 0..ring.PostCnt-1 /\ n + i <= BdCount
        /\ ring.PostCnt - n \in Nat /\ n + (ring.PostCnt - n) <= BdCount
    BY <1>2, <2>1
  <2>3. b = Ahead(ring.PostHead, n + i)
    BY <1>2, <2>1, <2>2, AheadAhead
  <2>4. b \in Run(ring.PostHead, ring.PostCnt) /\ b \in Bds
    BY <2>2, <2>3, PostFacts DEF Run, RingInv
  <2>5. b \notin Run(ring.PostHead, n)
    BY <1>2, <1>3, <2>2, RunsApart
  <2>. QED
    BY <1>1, <2>4, <2>5
<1>4. ASSUME ring'.PostCnt > 0
      PROVE  Back(ring'.HwHead, 1) \in Run(ring'.PostHead, ring'.PostCnt) /\ ring.PostCnt > 0
  <2>1. /\ n \in Nat /\ ring.PostCnt - n - 1 \in 0..ring.PostCnt-n-1 /\ ring.PostCnt > 0
        /\ ring.PostCnt - n - 1 \in Nat
        /\ n + (ring.PostCnt - n - 1) = ring.PostCnt - 1 /\ ring.PostCnt - 1 <= BdCount
    BY <1>2, <1>4
  <2>2. Back(ring.HwHead, 1) = Ahead(Ahead(ring.PostHead, n), ring.PostCnt - n - 1)
    BY <1>2, <2>1, PostFacts, AheadAhead DEF RingInv
  <2>. QED
    BY <1>2, <2>1, <2>2 DEF Run
<1>. QED
  BY <1>2, <1>3, <1>4 DEF WholePackets, Finished, Run

\* Whatever is taken back from the hardware is complete, and ends with the end
\* of a packet, unless the engine has strayed.
THEOREM PacketsWhole == Spec => []WholePackets
<1>1. Init => WholePackets
  BY BdAssumption DEF Init, InitAs, Created, WholePackets, Run
<1>2. ASSUME RingInv, RingInv', WholePackets, [Next]_ringVars PROVE WholePackets'
  <2>0. SUFFICES ASSUME ~strayed' PROVE WholePackets'
    BY DEF WholePackets
  <2>1. CASE UNCHANGED ringVars
    BY <1>2, <2>1 DEF ringVars, inst, WholePackets, Finished, Run
  <2>2. CASE Calls /\ UNCHANGED inst
    <3>0. strayed' = strayed /\ ~strayed
      BY <2>0, <2>2 DEF inst
    <3>1. CASE \E template \in BdWords : Clone(template)
      BY <1>2, <3>1 DEF Clone, RingInv, TypeOK, Ring, Groups, WholePackets, Run
    <3>2. ASSUME NEW n \in 1..BdCount, Alloc(n) \/ UnAlloc(n)
          PROVE  WholePackets'
      BY <1>2, <3>0, <3>2, WholeFrame DEF Alloc, UnAlloc, RingInv, TypeOK, Ring
    <3>3. ASSUME NEW n \in 1..BdCount, FromHw(n) \/ Free(n)
          PROVE  WholePackets'
      BY <1>2, <2>2, <3>0, <3>3, FromHwWhole, FreeWhole
    <3>4. ASSUME NEW n \in 1..BdCount, NEW ends, ToHw(n, ends)
          PROVE  WholePackets'
      <4>1. n \in 0..ring.PreCnt /\ \A b \in Run(ring.PostHead, ring.PostCnt) : bd'[b] = bd[b]
        BY <1>2, <3>4, PostFacts DEF ToHw, RingInv, TypeOK, Ring
      <4>. QED
        BY <1>2, <3>0, <3>4, <4>1, WholeFrame DEF ToHw, RingInv, TypeOK, Ring
    <3>5. ASSUME NEW n \in 1..BdCount, NEW ends, NEW k \in 0..n-1, ToHwRefused(n, ends, k)
          PROVE  WholePackets'
      <4>1. k \in 0..ring.PreCnt
        BY <1>2, <3>5 DEF ToHwRefused, RingInv, TypeOK, Ring
      <4>2. \A b \in Run(ring.PostHead, ring.PostCnt) : bd'[b] = bd[b]
        BY <1>2, <3>5, <4>1, PostFacts DEF ToHwRefused, RingInv
      <4>. QED
        BY <1>2, <3>0, <3>5, <4>2, WholeFrame DEF ToHwRefused
    <3>. QED
      BY <2>2, <3>1, <3>2, <3>3, <3>4, <3>5 DEF Calls
  <2>3. CASE Control \/ SwReset
    BY <1>2, <2>3, ControlFrame, WholeFrame DEF RingInv
  <2>4. CASE Engine
    <3>1. (strayed => strayed') /\ UNCHANGED ring
          /\ \A b \in Bds : b # chan.cdesc => bd'[b] = bd[b]
      <4>1. strayed => strayed'
        BY <2>4 DEF Engine, Transmit, Receive, Flush, Passes
      <4>2. \A b \in Bds : b # chan.cdesc => bd'[b] = bd[b]
        BY <1>2, <2>4 DEF Engine, Transmit, Receive, Flush, RingInv, TypeOK
      <4>. QED
        BY <2>4, <4>1, <4>2 DEF Engine
    <3>2. OnCourse
      BY <1>2, <2>0, <3>1 DEF RingInv
    <3>3. PICK k \in 0..ring.HwCnt : Processed(k)
      BY <3>2 DEF OnCourse
    <3>4. chan.tdesc # None
      BY <2>4, <3>2 DEF Engine, Transmit, Receive, Flush, Working, OnCourse, ChannelInv
    <3>5. chan.cdesc \notin Run(ring.PostHead, ring.PostCnt)
      BY <1>2, <3>2, <3>3, <3>4, EngineAt, HwApart DEF RingInv, OnCourse, TypeOK, Ring
    <3>. QED
      BY <1>2, <3>1, <3>5, PostFacts, WholeFrame DEF RingInv
  <2>. QED
    BY <1>2, <2>1, <2>2, <2>3, <2>4 DEF Next
<1>. QED
  BY <1>1, <1>2, RingInvariance, PTL DEF Spec
-----------------------------------------------------------------------------
(* The groups as queues.                                                   *)

LEMMA QueueSeq ==
  ASSUME NEW h \in Bds, NEW c \in 0..BdCount
  PROVE  /\ Queue(h, c) \in Seq(Bds)
         /\ Len(Queue(h, c)) = c
         /\ \A i \in 1..c : Queue(h, c)[i] = Ahead(h, i - 1) /\ Queue(h, c)[i] \in Bds
<1>1. c \in Nat
  BY BdAssumption
<1>2. \A i \in 1..c : i - 1 \in 0..BdCount
  BY BdAssumption
<1>3. \A i \in 1..c : Ahead(h, i - 1) \in Bds
  BY <1>2, AheadType
<1>4. Queue(h, c) \in [1..c -> Bds]
  BY <1>3 DEF Queue
<1>. QED
  BY <1>1, <1>3, <1>4 DEF Queue

LEMMA QueueFirst ==
  ASSUME NEW h \in Bds, NEW c \in 0..BdCount, NEW n \in 0..c
  PROVE  SubSeq(Queue(h, c), 1, n) = Queue(h, n)
<1> DEFINE s == SubSeq(Queue(h, c), 1, n)
<1>1. n \in 0..BdCount /\ n \in Int /\ n - 1 + 1 = n /\ (1 <= n \/ n = 0)
      /\ \A i \in 1..n : i \in 1..c /\ 1 + i - 1 = i
  BY BdAssumption
<1>2. s \in Seq(Bds) /\ Len(s) = n /\ \A i \in 1..n : s[i] = Queue(h, c)[i]
  BY <1>1, QueueSeq, SubSeqProperties
<1>3. \A i \in 1..n : s[i] = Queue(h, n)[i]
  BY <1>1, <1>2, QueueSeq
<1>. QED
  BY <1>1, <1>2, <1>3, QueueSeq, SeqEqual

LEMMA QueueRest ==
  ASSUME NEW h \in Bds, NEW c \in 0..BdCount, NEW n \in 0..c
  PROVE  SubSeq(Queue(h, c), n + 1, c) = Queue(Ahead(h, n), c - n)
<1> DEFINE s == SubSeq(Queue(h, c), n + 1, c)
<1>1. /\ n \in 0..BdCount /\ n + 1 \in Int /\ c \in Int /\ c - n \in 0..BdCount
      /\ c - (n + 1) + 1 = c - n /\ (n + 1 <= c \/ c - n = 0)
      /\ n \in Nat
  BY BdAssumption
<1>2. \A i \in n+1..c : Queue(h, c)[i] \in Bds
  BY <1>1, QueueSeq
<1>3. s \in Seq(Bds) /\ Len(s) = c - n
  BY <1>1, <1>2, SubSeqProperties
<1>4. \A i \in 1..c-n : s[i] = Queue(h, c)[n + 1 + i - 1]
  BY <1>1, <1>2, SubSeqProperties
<1>5. Ahead(h, n) \in Bds
  BY <1>1, AheadType
<1>6. ASSUME NEW i \in 1..c-n
      PROVE  s[i] = Queue(Ahead(h, n), c - n)[i]
  <2>1. /\ n + 1 + i - 1 \in 1..c /\ n + 1 + i - 1 - 1 = n + (i - 1)
        /\ i - 1 \in Nat /\ n + (i - 1) <= BdCount
    BY BdAssumption
  <2>2. Queue(h, c)[n + 1 + i - 1] = Ahead(h, n + (i - 1))
    BY <2>1, QueueSeq
  <2>3. Queue(Ahead(h, n), c - n)[i] = Ahead(Ahead(h, n), i - 1)
    BY <1>1, <1>5, QueueSeq
  <2>. QED
    BY <1>1, <1>4, <2>1, <2>2, <2>3, AheadAhead
<1>. QED
  BY <1>1, <1>3, <1>5, <1>6, QueueSeq, SeqEqual

LEMMA QueueConcat ==
  ASSUME NEW h \in Bds, NEW m \in Nat, NEW n \in Nat, m + n <= BdCount
  PROVE  Queue(h, m) \o Queue(Ahead(h, m), n) = Queue(h, m + n)
<1> DEFINE s == Queue(h, m) \o Queue(Ahead(h, m), n)
<1>1. m \in 0..BdCount /\ n \in 0..BdCount /\ m + n \in 0..BdCount
  BY BdAssumption
<1>2. Ahead(h, m) \in Bds
  BY <1>1, AheadType
<1>3. /\ s \in Seq(Bds) /\ Len(s) = m + n
      /\ \A i \in 1..m+n : s[i] = IF i <= m THEN Queue(h, m)[i]
                                            ELSE Queue(Ahead(h, m), n)[i - m]
  <2>1. Queue(h, m) \in Seq(Bds) /\ Len(Queue(h, m)) = m
    BY <1>1, QueueSeq
  <2>2. Queue(Ahead(h, m), n) \in Seq(Bds) /\ Len(Queue(Ahead(h, m), n)) = n
    BY <1>1, <1>2, QueueSeq
  <2>3. \A q \in Seq(Bds), r \in Seq(Bds) :
          /\ q \o r \in Seq(Bds) /\ Len(q \o r) = Len(q) + Len(r)
          /\ \A i \in 1..Len(q)+Len(r) :
                (q \o r)[i] = IF i <= Len(q) THEN q[i] ELSE r[i - Len(q)]
    BY ConcatProperties
  <2>4. /\ s \in Seq(Bds) /\ Len(s) = Len(Queue(h, m)) + Len(Queue(Ahead(h, m), n))
        /\ \A i \in 1..Len(Queue(h, m))+Len(Queue(Ahead(h, m), n)) :
              s[i] = IF i <= Len(Queue(h, m)) THEN Queue(h, m)[i]
                     ELSE Queue(Ahead(h, m), n)[i - Len(Queue(h, m))]
    BY <2>1, <2>2, <2>3, Zenon
  <2>. QED
    BY <2>1, <2>2, <2>4
<1>4. ASSUME NEW i \in 1..m+n
      PROVE  s[i] = Queue(h, m + n)[i]
  <2>1. CASE i <= m
    BY <1>1, <1>3, <2>1, QueueSeq
  <2>2. CASE i > m
    <3>1. i - m \in 1..n /\ i - m - 1 \in Nat /\ m + (i - m - 1) = i - 1
          /\ m + (i - m - 1) <= BdCount /\ ~(i <= m)
      BY <1>1, <2>2, BdAssumption
    <3>2. Queue(Ahead(h, m), n)[i - m] = Ahead(Ahead(h, m), i - m - 1)
      BY <1>1, <1>2, <3>1, QueueSeq
    <3>. QED
      <4>1. s[i] = Ahead(Ahead(h, m), i - m - 1)
        BY <1>3, <3>1, <3>2
      <4>2. Ahead(Ahead(h, m), i - m - 1) = Ahead(h, i - 1)
        BY <3>1, AheadAhead
      <4>3. Queue(h, m + n)[i] = Ahead(h, i - 1)
        BY <1>1, QueueSeq
      <4>. QED
        BY <4>1, <4>2, <4>3
  <2>3. i <= m \/ i > m
    BY <1>1
  <2>. QED
    BY <2>1, <2>2, <2>3
<1>. QED
  BY <1>1, <1>3, <1>4, QueueSeq, SeqEqual

\* What the steps below use of the invariant.
LEMMA GroupFacts ==
  ASSUME RingInv
  PROVE  /\ BdCount \in Nat
         /\ ring.FreeHead \in Bds /\ ring.PreHead \in Bds /\ ring.HwHead \in Bds
         /\ ring.PostHead \in Bds
         /\ ring.FreeCnt \in 0..BdCount /\ ring.PreCnt \in 0..BdCount
         /\ ring.HwCnt \in 0..BdCount /\ ring.PostCnt \in 0..BdCount
         /\ ring.FreeCnt + ring.PreCnt + ring.HwCnt + ring.PostCnt = BdCount
         /\ ring.FreeHead = Ahead(ring.PreHead, ring.PreCnt)
         /\ ring.PreHead = Ahead(ring.HwHead, ring.HwCnt)
         /\ ring.HwHead = Ahead(ring.PostHead, ring.PostCnt)
  BY BdAssumption DEF RingInv, TypeOK, Ring, Groups

\* The first n BDs of one queue go to the end of the one before it in the ring.
LEMMA QueueMove ==
  ASSUME NEW h \in Bds, NEW c \in 0..BdCount, NEW e \in Bds, NEW d \in 0..BdCount,
         c + d <= BdCount, e = Ahead(h, c), NEW n \in 1..BdCount, n <= d
  PROVE  Queue(h, c) \o SubSeq(Queue(e, d), 1, n) = Queue(h, c + n)
<1>1. c \in Nat /\ n \in Nat /\ n \in 0..d /\ c + n <= BdCount
  BY BdAssumption
<1>2. SubSeq(Queue(e, d), 1, n) = Queue(e, n)
  BY <1>1, QueueFirst
<1>3. Queue(h, c) \o Queue(e, n) = Queue(h, c + n)
  BY <1>1, QueueConcat
<1>. QED
  BY <1>2, <1>3

LEMMA QueueLeave ==
  ASSUME NEW e \in Bds, NEW d \in 0..BdCount, NEW n \in 1..BdCount, n <= d
  PROVE  /\ SubSeq(Queue(e, d), n + 1, d) = Queue(Ahead(e, n), d - n)
         /\ Len(Queue(e, d)) = d
<1>1. n \in 0..d
  BY BdAssumption
<1>. QED
  BY <1>1, QueueRest, QueueSeq

LEMMA AllocQueues ==
  ASSUME RingInv, NEW n \in 1..BdCount, Alloc(n), UNCHANGED strayed
  PROVE  Queues!Alloc(n)
<1>1. /\ n <= ring.FreeCnt /\ UNCHANGED <<bd, chan>>
      /\ ring'.FreeHead = Ahead(ring.FreeHead, n) /\ ring'.FreeCnt = ring.FreeCnt - n
      /\ ring'.PreHead = ring.PreHead /\ ring'.PreCnt = ring.PreCnt + n
      /\ ring'.HwHead = ring.HwHead /\ ring'.HwCnt = ring.HwCnt
      /\ ring'.PostHead = ring.PostHead /\ ring'.PostCnt = ring.PostCnt
      /\ ring'.IsRxChannel = ring.IsRxChannel
  BY DEF Alloc, RingInv, TypeOK, Ring
<1>2. /\ ring.PreHead \in Bds /\ ring.PreCnt \in 0..BdCount
      /\ ring.FreeHead \in Bds /\ ring.FreeCnt \in 0..BdCount
      /\ ring.FreeHead = Ahead(ring.PreHead, ring.PreCnt)
      /\ ring.PreCnt + ring.FreeCnt <= BdCount
      /\ n <= ring.FreeCnt
  BY <1>1, GroupFacts
<1>3. /\ Queue(ring.PreHead, ring.PreCnt) \o SubSeq(Queue(ring.FreeHead, ring.FreeCnt), 1, n)
           = Queue(ring.PreHead, ring.PreCnt + n)
      /\ SubSeq(Queue(ring.FreeHead, ring.FreeCnt), n + 1, ring.FreeCnt)
           = Queue(Ahead(ring.FreeHead, n), ring.FreeCnt - n)
      /\ Len(Queue(ring.FreeHead, ring.FreeCnt)) = ring.FreeCnt
  <2>1. Queue(ring.PreHead, ring.PreCnt) \o SubSeq(Queue(ring.FreeHead, ring.FreeCnt), 1, n)
          = Queue(ring.PreHead, ring.PreCnt + n)
    BY <1>2, QueueMove
  <2>. QED
    BY <1>2, <2>1, QueueLeave
<1>4. FinishedBds' = FinishedBds
  BY <1>1 DEF FinishedBds, Finished, Run
<1>. QED
  BY <1>1, <1>3, <1>4 DEF Queues!Alloc, Queues!First, Queues!Rest

LEMMA UnAllocQueues ==
  ASSUME RingInv, NEW n \in 1..BdCount, UnAlloc(n), UNCHANGED strayed
  PROVE  Queues!UnAlloc(n)
<1> DEFINE kept == ring.PreCnt - n
<1>1. /\ n <= ring.PreCnt /\ UNCHANGED <<bd, chan>>
      /\ ring'.FreeHead = Back(ring.FreeHead, n) /\ ring'.FreeCnt = ring.FreeCnt + n
      /\ ring'.PreHead = ring.PreHead /\ ring'.PreCnt = kept
      /\ ring'.HwHead = ring.HwHead /\ ring'.HwCnt = ring.HwCnt
      /\ ring'.PostHead = ring.PostHead /\ ring'.PostCnt = ring.PostCnt
      /\ ring'.IsRxChannel = ring.IsRxChannel
  BY DEF UnAlloc, RingInv, TypeOK, Ring
<1>2. Len(Queue(ring.PreHead, ring.PreCnt)) = ring.PreCnt
  BY GroupFacts, QueueSeq
<1>3. /\ kept \in 0..ring.PreCnt /\ kept \in 0..BdCount /\ kept \in Nat /\ n \in Nat
      /\ n \in 0..ring.PreCnt /\ kept + n = ring.PreCnt /\ kept + n <= BdCount
      /\ ring.FreeCnt \in Nat /\ n + ring.FreeCnt <= BdCount /\ ring.PreCnt - kept = n
      /\ n + ring.FreeCnt = ring.FreeCnt + n
  <2>1. n <= ring.PreCnt
    BY <1>1
  <2>2. /\ ring.PreCnt \in 0..BdCount /\ ring.FreeCnt \in 0..BdCount /\ BdCount \in Nat
        /\ ring.FreeCnt + ring.PreCnt <= BdCount
    BY GroupFacts
  <2>. QED
    BY <2>1, <2>2
<1>4. /\ Back(ring.FreeHead, n) = Ahead(ring.PreHead, kept)
      /\ Ahead(ring.PreHead, kept) \in Bds
      /\ Ahead(Ahead(ring.PreHead, kept), n) = ring.FreeHead
  <2>1. ring.FreeHead = Ahead(ring.PreHead, ring.PreCnt) /\ ring.PreHead \in Bds
        /\ ring.PreCnt \in 0..BdCount
    BY GroupFacts
  <2>2. Back(ring.FreeHead, n) = Ahead(ring.PreHead, kept)
    BY <1>3, <2>1, BackAhead
  <2>3. Ahead(Ahead(ring.PreHead, kept), n) = ring.FreeHead
    BY <1>3, <2>1, AheadAhead
  <2>. QED
    BY <1>3, <2>1, <2>2, <2>3, AheadType
<1>5. SubSeq(Queue(ring.PreHead, ring.PreCnt), kept + 1, ring.PreCnt)
        = Queue(Ahead(ring.PreHead, kept), n)
  <2>1. ring.PreHead \in Bds /\ ring.PreCnt \in 0..BdCount
    BY GroupFacts
  <2>2. SubSeq(Queue(ring.PreHead, ring.PreCnt), kept + 1, ring.PreCnt)
          = Queue(Ahead(ring.PreHead, kept), ring.PreCnt - kept)
    BY <1>3, <2>1, QueueRest
  <2>. QED
    BY <1>3, <2>2
<1>6. Queue(Ahead(ring.PreHead, kept), n) \o Queue(ring.FreeHead, ring.FreeCnt)
        = Queue(Ahead(ring.PreHead, kept), ring.FreeCnt + n)
  BY <1>3, <1>4, QueueConcat
<1>7. SubSeq(Queue(ring.PreHead, ring.PreCnt), 1, kept) = Queue(ring.PreHead, kept)
  BY <1>3, GroupFacts, QueueFirst
<1>8. FinishedBds' = FinishedBds
  BY <1>1 DEF FinishedBds, Finished, Run
<1>. QED
  BY <1>1, <1>2, <1>4, <1>5, <1>6, <1>7, <1>8 DEF Queues!UnAlloc, Queues!First, Queues!Rest

LEMMA ToHwQueues ==
  ASSUME RingInv, NEW n \in 1..BdCount, NEW ends, ToHw(n, ends), UNCHANGED strayed
  PROVE  Queues!Give(n)
<1>1. /\ n <= ring.PreCnt
      /\ bd' = [b \in Bds |-> IF b \in Run(ring.PreHead, n)
                              THEN Scrub(bd[b], b \in ends) ELSE bd[b]]
      /\ ring'.FreeHead = ring.FreeHead /\ ring'.FreeCnt = ring.FreeCnt
      /\ ring'.PreHead = Ahead(ring.PreHead, n) /\ ring'.PreCnt = ring.PreCnt - n
      /\ ring'.HwHead = ring.HwHead /\ ring'.HwCnt = ring.HwCnt + n
      /\ ring'.PostHead = ring.PostHead /\ ring'.PostCnt = ring.PostCnt
      /\ ring'.IsRxChannel = ring.IsRxChannel
  BY DEF ToHw, RingInv, TypeOK, Ring
<1>2. /\ ring.HwHead \in Bds /\ ring.HwCnt \in 0..BdCount
      /\ ring.PreHead \in Bds /\ ring.PreCnt \in 0..BdCount
      /\ ring.PreHead = Ahead(ring.HwHead, ring.HwCnt)
      /\ ring.HwCnt + ring.PreCnt <= BdCount /\ n <= ring.PreCnt
      /\ BdCount \in Nat
  BY <1>1, GroupFacts
<1>3. /\ Queue(ring.HwHead, ring.HwCnt) \o SubSeq(Queue(ring.PreHead, ring.PreCnt), 1, n)
           = Queue(ring.HwHead, ring.HwCnt + n)
      /\ SubSeq(Queue(ring.PreHead, ring.PreCnt), n + 1, ring.PreCnt)
           = Queue(Ahead(ring.PreHead, n), ring.PreCnt - n)
      /\ Len(Queue(ring.PreHead, ring.PreCnt)) = ring.PreCnt
  <2>1. Queue(ring.HwHead, ring.HwCnt) \o SubSeq(Queue(ring.PreHead, ring.PreCnt), 1, n)
          = Queue(ring.HwHead, ring.HwCnt + n)
    BY <1>2, QueueMove
  <2>. QED
    BY <1>2, <2>1, QueueLeave
<1>4. FinishedBds' = FinishedBds
  <2>1. ASSUME NEW i \in 0..ring.HwCnt-1
        PROVE  Finished(Ahead(ring.HwHead, i))' <=> Finished(Ahead(ring.HwHead, i))
    <3>1. n \in 0..ring.PreCnt
      BY <1>2
    <3>2. bd'[Ahead(ring.HwHead, i)] = bd[Ahead(ring.HwHead, i)]
      BY <1>1, <3>1, HwApart DEF RingInv
    <3>. QED
      BY <1>1, <3>2 DEF Finished
  <2>2. ASSUME NEW i \in ring.HwCnt..ring.HwCnt+n-1
        PROVE  ~Finished(Ahead(ring.HwHead, i))'
    <3>1. /\ i - ring.HwCnt \in 0..n-1 /\ i - ring.HwCnt \in Nat /\ ring.HwCnt \in Nat
          /\ i - ring.HwCnt \in 0..BdCount
          /\ ring.HwCnt + (i - ring.HwCnt) = i /\ i <= BdCount
      BY <1>2
    <3>2. Ahead(ring.HwHead, i) = Ahead(ring.PreHead, i - ring.HwCnt)
      BY <1>2, <3>1, AheadAhead
    <3>3. Ahead(ring.HwHead, i) \in Run(ring.PreHead, n) /\ Ahead(ring.HwHead, i) \in Bds
      BY <1>2, <3>1, <3>2, AheadType DEF Run
    <3>. QED
      BY <1>1, <3>3 DEF Finished, Scrub
  <2>3. Run(ring.HwHead, ring.HwCnt)' = {Ahead(ring.HwHead, i) : i \in 0..ring.HwCnt+n-1}
    <3>1. ring'.HwHead = ring.HwHead /\ ring'.HwCnt = ring.HwCnt + n
      BY <1>1, Zenon
    <3>. QED
      BY <1>2, <3>1 DEF Run
  <2>4. \A i \in 0..ring.HwCnt+n-1 : i \in 0..ring.HwCnt-1 \/ i \in ring.HwCnt..ring.HwCnt+n-1
    BY <1>2
  <2>5. \A i \in 0..ring.HwCnt-1 : i \in 0..ring.HwCnt+n-1
    BY <1>2
  <2>6. \A b : b \in FinishedBds' <=> b \in FinishedBds
    BY <1>1, <2>1, <2>2, <2>3, <2>4, <2>5 DEF FinishedBds, Run
  <2>. QED
    BY <2>6
<1>. QED
  BY <1>1, <1>3, <1>4 DEF Queues!Give, Queues!First, Queues!Rest

LEMMA FreeQueues ==
  ASSUME RingInv, NEW n \in 1..BdCount, Free(n), UNCHANGED strayed
  PROVE  Queues!Return(n)
<1>1. /\ n <= ring.PostCnt
      /\ bd' = [b \in Bds |-> IF b \in Run(ring.PostHead, n)
                              THEN [bd[b] EXCEPT !.done = FALSE, !.eop = FALSE]
                              ELSE bd[b]]
      /\ ring'.FreeHead = ring.FreeHead /\ ring'.FreeCnt = ring.FreeCnt + n
      /\ ring'.PreHead = ring.PreHead /\ ring'.PreCnt = ring.PreCnt
      /\ ring'.HwHead = ring.HwHead /\ ring'.HwCnt = ring.HwCnt
      /\ ring'.PostHead = Ahead(ring.PostHead, n) /\ ring'.PostCnt = ring.PostCnt - n
      /\ ring'.IsRxChannel = ring.IsRxChannel
  BY DEF Free, RingInv, TypeOK, Ring
<1>2. n <= ring.PostCnt
  BY <1>1, Zenon
<1>3. /\ ring.FreeHead \in Bds /\ ring.FreeCnt \in 0..BdCount
      /\ ring.PostHead \in Bds /\ ring.PostCnt \in 0..BdCount
      /\ ring.FreeCnt + ring.PostCnt <= BdCount /\ BdCount \in Nat
  BY GroupFacts
<1>4. ring.PostHead = Ahead(ring.FreeHead, ring.FreeCnt)
  <2>1. /\ ring.PostHead \in Bds /\ ring.PostCnt \in Nat /\ ring.HwCnt \in Nat
        /\ ring.PreCnt \in Nat /\ ring.FreeCnt \in Nat
        /\ ring.PostCnt + ring.HwCnt <= BdCount
        /\ ring.PostCnt + ring.HwCnt \in Nat
        /\ ring.PostCnt + ring.HwCnt + ring.PreCnt <= BdCount
        /\ ring.PostCnt + ring.HwCnt + ring.PreCnt \in Nat
        /\ ring.PostCnt + ring.HwCnt + ring.PreCnt + ring.FreeCnt = BdCount
        /\ BdCount <= BdCount
    BY GroupFacts
  <2>2. ring.PreHead = Ahead(ring.PostHead, ring.PostCnt + ring.HwCnt)
    BY <2>1, GroupFacts, AheadAhead
  <2>3. ring.FreeHead = Ahead(ring.PostHead, ring.PostCnt + ring.HwCnt + ring.PreCnt)
    BY <2>1, <2>2, GroupFacts, AheadAhead
  <2>4. Ahead(ring.FreeHead, ring.FreeCnt) = Ahead(ring.PostHead, BdCount)
    BY <2>1, <2>3, AheadAhead
  <2>. QED
    BY <2>1, <2>4, AheadZero
<1>5. /\ Queue(ring.FreeHead, ring.FreeCnt) \o SubSeq(Queue(ring.PostHead, ring.PostCnt), 1, n)
           = Queue(ring.FreeHead, ring.FreeCnt + n)
      /\ SubSeq(Queue(ring.PostHead, ring.PostCnt), n + 1, ring.PostCnt)
           = Queue(Ahead(ring.PostHead, n), ring.PostCnt - n)
      /\ Len(Queue(ring.PostHead, ring.PostCnt)) = ring.PostCnt
  <2>1. Queue(ring.FreeHead, ring.FreeCnt) \o SubSeq(Queue(ring.PostHead, ring.PostCnt), 1, n)
           = Queue(ring.FreeHead, ring.FreeCnt + n)
    BY <1>2, <1>3, <1>4, QueueMove
  <2>. QED
    BY <1>2, <1>3, <2>1, QueueLeave
<1>6. FinishedBds' = FinishedBds
  <2>1. n \in 0..ring.PostCnt
    BY <1>2, <1>3
  <2>2. \A b \in Run(ring.HwHead, ring.HwCnt) : bd'[b] = bd[b]
    BY <1>1, <2>1, HwApart DEF RingInv, Run
  <2>3. /\ ring'.HwHead = ring.HwHead /\ ring'.HwCnt = ring.HwCnt
        /\ ring'.IsRxChannel = ring.IsRxChannel
    BY <1>1, Zenon
  <2>4. \A b \in Run(ring.HwHead, ring.HwCnt) : Finished(b)' <=> Finished(b)
    BY <2>2, <2>3 DEF Finished
  <2>5. Run(ring.HwHead, ring.HwCnt)' = Run(ring.HwHead, ring.HwCnt)
    BY <2>3 DEF Run
  <2>. QED
    BY <2>4, <2>5 DEF FinishedBds
<1>. QED
  BY <1>1, <1>5, <1>6 DEF Queues!Return, Queues!First, Queues!Rest

LEMMA FromHwQueues ==
  ASSUME RingInv, NEW limit \in 1..BdCount, FromHw(limit), UNCHANGED strayed
  PROVE  \E n \in 1..BdCount : Queues!TakeBack(n)
<1>2. PICK n \in 1..limit :
         /\ Whole(n)
         /\ ring' = [ring EXCEPT !.HwHead = Ahead(@, n),
                                 !.HwCnt = @ - n, !.PostCnt = @ + n]
  BY DEF FromHw
<1>3. ring.HwCnt > 0 /\ UNCHANGED <<bd, chan>>
  BY DEF FromHw
<1>4. n \in 1..BdCount
  BY BdAssumption
<1>5. n <= ring.HwCnt
  BY <1>2, <1>3, <1>4, ScannedBound DEF Whole
<1>6. /\ ring'.FreeHead = ring.FreeHead /\ ring'.FreeCnt = ring.FreeCnt
      /\ ring'.PreHead = ring.PreHead /\ ring'.PreCnt = ring.PreCnt
      /\ ring'.HwHead = Ahead(ring.HwHead, n) /\ ring'.HwCnt = ring.HwCnt - n
      /\ ring'.PostHead = ring.PostHead /\ ring'.PostCnt = ring.PostCnt + n
      /\ ring'.IsRxChannel = ring.IsRxChannel
  BY <1>2 DEF RingInv, TypeOK, Ring
<1>7. /\ ring.PostHead \in Bds /\ ring.PostCnt \in 0..BdCount
      /\ ring.HwHead \in Bds /\ ring.HwCnt \in 0..BdCount
      /\ ring.HwHead = Ahead(ring.PostHead, ring.PostCnt)
      /\ ring.PostCnt + ring.HwCnt <= BdCount /\ n <= ring.HwCnt
      /\ BdCount \in Nat
  BY <1>4, <1>5, GroupFacts
<1>8. /\ Queue(ring.PostHead, ring.PostCnt) \o SubSeq(Queue(ring.HwHead, ring.HwCnt), 1, n)
           = Queue(ring.PostHead, ring.PostCnt + n)
      /\ SubSeq(Queue(ring.HwHead, ring.HwCnt), n + 1, ring.HwCnt)
           = Queue(Ahead(ring.HwHead, n), ring.HwCnt - n)
      /\ Len(Queue(ring.HwHead, ring.HwCnt)) = ring.HwCnt
  <2>1. Queue(ring.PostHead, ring.PostCnt) \o SubSeq(Queue(ring.HwHead, ring.HwCnt), 1, n)
           = Queue(ring.PostHead, ring.PostCnt + n)
    BY <1>4, <1>7, QueueMove
  <2>. QED
    BY <1>4, <1>7, <2>1, QueueLeave
<1>9. \A i \in 1..n : /\ i - 1 \in 0..n-1 /\ i - 1 \in 0..ring.HwCnt-1
                      /\ Queue(ring.HwHead, ring.HwCnt)[i] = Ahead(ring.HwHead, i - 1)
                      /\ Finished(Ahead(ring.HwHead, i - 1))
  <2> TAKE i \in 1..n
  <2>1. i - 1 \in 0..n-1 /\ i - 1 \in 0..ring.HwCnt-1 /\ i \in 1..ring.HwCnt
    BY <1>7
  <2>. QED
    BY <1>2, <1>7, <2>1, QueueSeq DEF Whole, Scanned
<1>10. \A i \in 1..n : Queue(ring.HwHead, ring.HwCnt)[i] \in FinishedBds
  BY <1>9 DEF FinishedBds, Run
<1>11. FinishedBds' = FinishedBds \ {Queue(ring.HwHead, ring.HwCnt)[i] : i \in 1..n}
  <2>1. ASSUME NEW b \in FinishedBds, b \notin {Queue(ring.HwHead, ring.HwCnt)[i] : i \in 1..n}
        PROVE  b \in FinishedBds'
    <3>1. PICK j \in 0..ring.HwCnt-1 : b = Ahead(ring.HwHead, j)
      BY DEF FinishedBds, Run
    <3>2. j >= n
      <4>1. SUFFICES ASSUME j < n PROVE FALSE
        BY <1>7
      <4>2. j + 1 \in 1..n /\ (j + 1) - 1 = j
        BY <1>7, <4>1
      <4>. QED
        BY <1>9, <2>1, <3>1, <4>2
    <3>3. /\ j - n \in 0..ring.HwCnt-n-1 /\ n \in Nat /\ j - n \in Nat
          /\ n + (j - n) = j /\ j <= BdCount
      BY <1>4, <1>7, <3>2
    <3>4. b = Ahead(Ahead(ring.HwHead, n), j - n)
      BY <1>7, <3>1, <3>3, AheadAhead
    <3>. QED
      BY <1>3, <1>6, <3>3, <3>4 DEF FinishedBds, Finished, Run
  <2>2. ASSUME NEW b \in FinishedBds'
        PROVE  b \in FinishedBds /\ b \notin {Queue(ring.HwHead, ring.HwCnt)[i] : i \in 1..n}
    <3>1. PICK j \in 0..ring.HwCnt-n-1 : b = Ahead(Ahead(ring.HwHead, n), j)
      BY <1>6, <2>2 DEF FinishedBds, Run
    <3>2. /\ n \in Nat /\ j \in Nat /\ n + j <= BdCount /\ n + j \in 0..ring.HwCnt-1
          /\ n + j \in 0..BdCount-1
      BY <1>4, <1>7, <3>1
    <3>3. b = Ahead(ring.HwHead, n + j)
      BY <1>7, <3>1, <3>2, AheadAhead
    <3>4. b \in FinishedBds
      BY <1>3, <1>6, <2>2, <3>2, <3>3 DEF FinishedBds, Finished, Run
    <3>5. ASSUME NEW i \in 1..n PROVE b # Queue(ring.HwHead, ring.HwCnt)[i]
      <4>1. i - 1 \in 0..BdCount-1 /\ i - 1 # n + j
        BY <1>4, <1>7, <3>2
      <4>. QED
        BY <1>7, <1>9, <3>2, <3>3, <4>1, AheadInjective
    <3>. QED
      BY <3>4, <3>5
  <2>. QED
    BY <2>1, <2>2
<1>. QED
  BY <1>3, <1>4, <1>6, <1>7, <1>8, <1>10, <1>11
     DEF Queues!TakeBack, Queues!First, Queues!Rest

\* What a step that has made the engine stray does to the queues: nothing but to
\* what is finished.
LEMMA StrayQueues ==
  ASSUME RingInv, strayed',
         ring'.FreeHead = ring.FreeHead, ring'.FreeCnt = ring.FreeCnt,
         ring'.PreHead = ring.PreHead, ring'.PreCnt = ring.PreCnt,
         ring'.HwHead = ring.HwHead, ring'.HwCnt = ring.HwCnt,
         ring'.PostHead = ring.PostHead, ring'.PostCnt = ring.PostCnt,
         strayed' \in BOOLEAN
  PROVE  Queues!Lose
<1>1. FinishedBds' \subseteq Run(ring.HwHead, ring.HwCnt)
  BY DEF FinishedBds, Run
<1>2. Run(ring.HwHead, ring.HwCnt) \subseteq
        {Queue(ring.HwHead, ring.HwCnt)[i] : i \in 1..Len(Queue(ring.HwHead, ring.HwCnt))}
  <2>1. ring.HwHead \in Bds /\ ring.HwCnt \in 0..BdCount
    BY GroupFacts
  <2>2. ASSUME NEW b \in Run(ring.HwHead, ring.HwCnt)
        PROVE  \E i \in 1..ring.HwCnt : b = Queue(ring.HwHead, ring.HwCnt)[i]
    <3>1. PICK j \in 0..ring.HwCnt-1 : b = Ahead(ring.HwHead, j)
      BY DEF Run
    <3>2. j + 1 \in 1..ring.HwCnt /\ (j + 1) - 1 = j
      BY <2>1
    <3>. QED
      BY <2>1, <3>1, <3>2, QueueSeq
  <2>. QED
    BY <2>1, <2>2, QueueSeq
<1>. QED
  BY <1>1, <1>2 DEF Queues!Lose

\* The engine finishes the oldest unfinished BD, or nothing changes yet.
LEMMA EngineQueues ==
  ASSUME RingInv, Engine, strayed' = FALSE
  PROVE  Queues!Finish \/ UNCHANGED Queues!queues
<1>. PICK c : c = chan.cdesc
  OBVIOUS
<1>0. UNCHANGED strayed /\ ChannelInv /\ OnCourse
  <2>1. ~strayed
    BY DEF Engine, Transmit, Receive, Flush, Passes, RingInv, TypeOK
  <2>. QED
    BY <2>1 DEF RingInv, OnCourse, TypeOK
<1>1. PICK k \in 0..ring.HwCnt : Processed(k)
  BY <1>0 DEF OnCourse
<1>2. chan.tdesc # None
  BY <1>0 DEF Engine, Transmit, Receive, Flush, Working, ChannelInv
<1>3. /\ k \in 0..ring.HwCnt-1 /\ c = Ahead(ring.HwHead, k) /\ c \in Bds
      /\ k \in k..ring.HwCnt-1
      /\ \A i \in 0..ring.HwCnt-1 : Ahead(ring.HwHead, i) = c => i = k
  BY <1>0, <1>1, <1>2, EngineAt
<1>4. UNCHANGED ring /\ \A b \in Bds : b # c => bd'[b] = bd[b]
  BY DEF Engine, Transmit, Receive, Flush, RingInv, TypeOK
<1>5. ~Finished(c)
  BY <1>1, <1>3 DEF Processed, Finished
<1>6. \A b \in Run(ring.HwHead, ring.HwCnt) : b \in Bds
  BY HwApart DEF RingInv, Run
<1>7. \A b \in Run(ring.HwHead, ring.HwCnt) : b # c => (Finished(b)' <=> Finished(b))
  BY <1>4, <1>6 DEF Finished
<1>8. /\ Queue(ring.HwHead, ring.HwCnt)[k + 1] = c
      /\ Len(Queue(ring.HwHead, ring.HwCnt)) = ring.HwCnt
      /\ k + 1 \in 1..ring.HwCnt
  <2>1. ring.HwHead \in Bds /\ ring.HwCnt \in 0..BdCount
    BY GroupFacts
  <2>2. k + 1 \in 1..ring.HwCnt /\ (k + 1) - 1 = k
    BY <1>3, <2>1
  <2>. QED
    BY <1>3, <2>1, <2>2, QueueSeq
<1>9. \A j \in 1..(k+1)-1 : Queue(ring.HwHead, ring.HwCnt)[j] \in FinishedBds
  <2> TAKE j \in 1..(k+1)-1
  <2>1. ring.HwHead \in Bds /\ ring.HwCnt \in 0..BdCount
    BY GroupFacts
  <2>2. j \in 1..ring.HwCnt /\ j - 1 \in 0..k-1 /\ j - 1 \in 0..ring.HwCnt-1
    BY <1>3, <2>1
  <2>3. Queue(ring.HwHead, ring.HwCnt)[j] = Ahead(ring.HwHead, j - 1)
    BY <2>1, <2>2, QueueSeq
  <2>. QED
    BY <1>1, <2>2, <2>3 DEF Processed, FinishedBds, Run
<1>10. CASE Finished(c)'
  <2>1. FinishedBds' = FinishedBds \cup {c}
    BY <1>3, <1>4, <1>7, <1>10 DEF FinishedBds, Run
  <2>2. c \notin FinishedBds
    BY <1>5 DEF FinishedBds
  <2>. QED
    BY <1>0, <1>4, <1>8, <1>9, <2>1, <2>2 DEF Queues!Finish
<1>11. CASE ~Finished(c)'
  <2>1. FinishedBds' = FinishedBds
    <3>1. \A b \in Run(ring.HwHead, ring.HwCnt) : Finished(b)' <=> Finished(b)
      BY <1>5, <1>7, <1>11
    <3>2. Run(ring.HwHead, ring.HwCnt)' = Run(ring.HwHead, ring.HwCnt)
      BY <1>4 DEF Run
    <3>. QED
      BY <3>1, <3>2 DEF FinishedBds
  <2>. QED
    BY <1>0, <1>4, <2>1 DEF Queues!queues
<1>. QED
  BY <1>10, <1>11

\* A step that leaves the groups and the hardware's BDs alone.
LEMMA QueuesFrame ==
  ASSUME RingInv,
         ring'.FreeHead = ring.FreeHead, ring'.FreeCnt = ring.FreeCnt,
         ring'.PreHead = ring.PreHead, ring'.PreCnt = ring.PreCnt,
         ring'.HwHead = ring.HwHead, ring'.HwCnt = ring.HwCnt,
         ring'.PostHead = ring.PostHead, ring'.PostCnt = ring.PostCnt,
         ring'.IsRxChannel = ring.IsRxChannel, UNCHANGED strayed,
         \A b \in Run(ring.HwHead, ring.HwCnt) : bd'[b] = bd[b]
  PROVE  UNCHANGED Queues!queues
<1>1. FinishedBds' = FinishedBds
  <2>1. \A b \in Run(ring.HwHead, ring.HwCnt) : Finished(b)' <=> Finished(b)
    BY DEF Finished
  <2>2. Run(ring.HwHead, ring.HwCnt)' = Run(ring.HwHead, ring.HwCnt)
    BY DEF Run
  <2>. QED
    BY <2>1, <2>2 DEF FinishedBds
<1>. QED
  BY <1>1 DEF Queues!queues

LEMMA InitQueues == Init => Queues!Init
<1> SUFFICES ASSUME Init PROVE Queues!Init
  OBVIOUS
<1>1. /\ ring.FreeHead = 0 /\ ring.PreHead = 0 /\ ring.HwHead = 0 /\ ring.PostHead = 0
      /\ ring.FreeCnt = BdCount /\ ring.PreCnt = 0 /\ ring.HwCnt = 0 /\ ring.PostCnt = 0
      /\ strayed = FALSE
  BY DEF Init, InitAs, Created
<1>2. \A i \in 1..BdCount : Ahead(0, i - 1) = i - 1
  BY BdAssumption DEF Ahead
<1>3. Queue(0, BdCount) = [i \in 1..BdCount |-> i - 1]
  BY <1>2 DEF Queue
<1>4. 0 \in Bds /\ 0 \in 0..BdCount
  BY BdAssumption DEF Bds
<1>5. Queue(0, 0) = <<>>
  <2>1. Queue(0, 0) \in Seq(Bds) /\ Len(Queue(0, 0)) = 0
    BY <1>4, QueueSeq
  <2>. QED
    BY <2>1, EmptySeq
<1>6. FinishedBds = {}
  BY <1>1 DEF FinishedBds, Run
<1>. QED
  BY <1>1, <1>3, <1>5, <1>6 DEF Queues!Init

\* The groups of a ring of any size, read as queues, behave as BdQueues says:
\* no BD is lost, duplicated or overtaken, and none leaves the hardware before
\* it is finished.
THEOREM QueuesImplemented == Spec => ImplementsQueues
<1>1. ASSUME RingInv, RingInv', [Next]_ringVars
      PROVE  [Queues!Next]_(Queues!queues)
  <2>1. CASE UNCHANGED ringVars
    BY <1>1, <2>1, QueuesFrame DEF ringVars, inst
  <2>2. CASE Calls /\ UNCHANGED inst
    <3>0. UNCHANGED strayed
      BY <2>2 DEF inst
    <3>1. CASE \E template \in BdWords : Clone(template)
      <4>1. UNCHANGED ring /\ Run(ring.HwHead, ring.HwCnt) = {}
        BY <1>1, <3>1 DEF Clone, RingInv, TypeOK, Ring, Groups, Run
      <4>. QED
        BY <1>1, <3>0, <4>1, QueuesFrame
    <3>2. ASSUME NEW n \in 1..BdCount, Alloc(n) \/ UnAlloc(n) \/ Free(n)
          PROVE  [Queues!Next]_(Queues!queues)
      BY <1>1, <3>0, <3>2, AllocQueues, UnAllocQueues, FreeQueues DEF Queues!Next
    <3>3. ASSUME NEW n \in 1..BdCount, FromHw(n)
          PROVE  [Queues!Next]_(Queues!queues)
      BY <1>1, <3>0, <3>3, FromHwQueues DEF Queues!Next
    <3>4. ASSUME NEW n \in 1..BdCount, NEW ends, ToHw(n, ends)
          PROVE  [Queues!Next]_(Queues!queues)
      BY <1>1, <3>0, <3>4, ToHwQueues DEF Queues!Next
    <3>5. ASSUME NEW n \in 1..BdCount, NEW ends, NEW k \in 0..n-1, ToHwRefused(n, ends, k)
          PROVE  [Queues!Next]_(Queues!queues)
      <4>1. k \in 0..ring.PreCnt
        BY <1>1, <3>5 DEF ToHwRefused, RingInv, TypeOK, Ring
      <4>2. UNCHANGED ring /\ \A b \in Run(ring.HwHead, ring.HwCnt) : bd'[b] = bd[b]
        BY <1>1, <3>5, <4>1, HwApart DEF ToHwRefused, RingInv, Run
      <4>. QED
        BY <1>1, <3>0, <4>2, QueuesFrame
    <3>. QED
      BY <2>2, <3>1, <3>2, <3>3, <3>4, <3>5 DEF Calls
  <2>3. strayed' \in BOOLEAN /\ strayed \in BOOLEAN
    BY <1>1 DEF RingInv, TypeOK
  <2>4. CASE Control \/ SwReset
    <3>1. CASE strayed'
      BY <1>1, <2>3, <2>4, <3>1, ControlFrame, StrayQueues DEF RingInv, Queues!Next
    <3>2. CASE ~strayed'
      BY <1>1, <2>3, <2>4, <3>2, ControlFrame, QueuesFrame DEF RingInv
    <3>. QED
      BY <3>1, <3>2
  <2>5. CASE Engine
    <3>1. CASE strayed'
      BY <1>1, <2>3, <2>5, <3>1, StrayQueues DEF Engine, Queues!Next
    <3>2. CASE ~strayed'
      BY <1>1, <2>3, <2>5, <3>2, EngineQueues DEF Queues!Next
    <3>. QED
      BY <3>1, <3>2
  <2>. QED
    BY <1>1, <2>1, <2>2, <2>4, <2>5 DEF Next
<1>. QED
  BY <1>1, InitQueues, RingInvariance, PTL DEF Spec, ImplementsQueues, Queues!Spec
=============================================================================
