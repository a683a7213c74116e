------------------------------ MODULE Rng_proofs ------------------------------
(***************************************************************************)
(* Theorems about the entropy device of Rng.  No lock spans rng::update,   *)
(* so its chains and its stream are safe only while one vCPU at a time     *)
(* can find a chain: the driver has one request outstanding, as Linux's    *)
(* virtio_rng does, or the vm has one vCPU.  Without either,               *)
(* StreamExclusive and ReturnsWhatItFilled fail.  That no interrupt is     *)
(* lost needs no such condition.                                           *)
(***************************************************************************)
EXTENDS Rng, Rings_proofs

(* No two vCPUs can find a chain at once. *)
OneAtATime == MaxOutstanding = 1 \/ \A v, w \in VCpus : v = w

LEMMA OneQueue ==
  Queues = {0} /\ 0 \in Queues
  BY RngConstants DEF RngConstants, Queues

-----------------------------------------------------------------------------
(* Who holds the chains                                                    *)

(* A vCPU between next() and the end of add_used. *)
Serving(v) == pc[v] \in {"id", "read", "elem", "idx"}

Held(s, c) == Custody(vq[0], free[0], posted[0], last_used[0], s, c)

Types ==
  /\ pc \in [VCpus -> {"guest", "next", "id", "read", "elem", "idx", "irq"}]
  /\ cur \in [VCpus -> Heads] /\ start \in [VCpus -> Heads]
  /\ good \in BOOLEAN /\ buf \in [Heads -> {"empty", "filled", "failed"}]

(* At most one vCPU serves, and it has the chain taken last. *)
OneServes ==
  /\ \A v \in VCpus : Serving(v) => vq[0].ready /\ Held(1, cur[v])
  /\ \A v, w \in VCpus : Serving(v) /\ Serving(w) => v = w
  /\ (\A v \in VCpus : ~Serving(v)) => Held(0, 0)

(* The chains that are not the driver's, when it waits for each. *)
OneOut == MaxOutstanding = 1 => \A a, b \in Heads \ free[0] : a = b

(* What the vCPU that serves has done so far to its chain. *)
Progress ==
  \A v \in VCpus :
    /\ pc[v] \in {"read", "elem", "idx"} => start[v] = cur[v]
    /\ pc[v] \in {"elem", "idx"} => Returnable(cur[v])
    /\ pc[v] = "idx" => UsedAt(vq[0], vq[0].used_idx) = cur[v]

ReturnedFilled == \A n \in NotReaped(vq[0], last_used[0]) : Returnable(UsedAt(vq[0], n))

RngInv == GuestInv /\ Types /\ OneServes /\ OneOut /\ Progress /\ ReturnedFilled

LEMMA RngInvInit == Init => RngInv
<1> SUFFICES ASSUME Init PROVE RngInv
  OBVIOUS
<1>1. GuestInv
  BY GuestInvInit DEF Init
<1>2. vq[0] = FreshQueue /\ free[0] = Heads /\ posted[0] = 0 /\ last_used[0] = 0
  BY OneQueue DEF Init, GuestInit
<1>3. 0 \in Heads
  BY RingSizes DEF Heads
<1>4. Types
  BY <1>3 DEF Init, Types
<1>5. \A v \in VCpus : pc[v] = "guest"
  BY DEF Init
<1>6. OneServes
  BY <1>2, <1>5, CustodyOfFresh DEF OneServes, Serving, Held
<1>7. OneOut /\ Progress
  BY <1>2, <1>5 DEF OneOut, Progress
<1>8. ReturnedFilled
  <2>1. NotReaped(FreshQueue, 0) = {}
    BY DEF NotReaped, FreshQueue
  <2> QED
    BY <1>2, <2>1 DEF ReturnedFilled
<1> QED
  BY <1>1, <1>4, <1>6, <1>7, <1>8 DEF RngInv

(* The queue and the guest's part of the state. *)
LEMMA QueueFacts ==
  ASSUME RngInv
  PROVE  /\ vq \in [Queues -> Queue] /\ vq[0] \in Queue /\ RingsHoldHeads(vq[0])
         /\ posted[0] \in Nat /\ last_used[0] \in Nat /\ free[0] \in SUBSET Heads
         /\ vq[0].ready => vq[0] \in ProgrammedQueue
         /\ \A v \in VCpus : Serving(v) =>
              vq[0].ready /\ vq[0] \in ProgrammedQueue /\ Held(1, cur[v])
<1>1. GuestInv /\ OneServes /\ 0 \in Queues
  BY OneQueue DEF RngInv
<1> QED
  BY <1>1, GuestTypes DEF GuestInv, OneServes

(* However many chains are being served, the queue is in custody. *)
LEMMA InCustody ==
  ASSUME RngInv
  PROVE  \E s \in {0, 1} : \E c : Held(s, c)
<1>1. CASE \E v \in VCpus : Serving(v)
  BY <1>1 DEF RngInv, OneServes
<1>2. CASE \A v \in VCpus : ~Serving(v)
  BY <1>2 DEF RngInv, OneServes
<1> QED
  BY <1>1, <1>2

-----------------------------------------------------------------------------
(* The guest's steps                                                       *)

LEMMA GuestKeeps ==
  ASSUME RngInv, GuestStep, UNCHANGED <<cur, start>>,
         pc' \in [VCpus -> {"guest", "next", "id", "read", "elem", "idx", "irq"}],
         \A v \in VCpus : pc'[v] = pc[v] \/ (~Serving(v) /\ ~Serving(v)'),
         \A h \in Heads : h \notin free[0] => buf'[h] = buf[h],
         good' = good, buf' \in [Heads -> {"empty", "filled", "failed"}], OneOut'
  PROVE  RngInv'
<1>0. GuestInv /\ Types /\ OneServes /\ Progress /\ ReturnedFilled /\ 0 \in Queues
  BY OneQueue DEF RngInv
<1>1. GuestInv'
  BY <1>0, GuestInvStep
<1>2. UNCHANGED <<cur, start>>
  OBVIOUS
<1>3. Types'
  BY <1>0, <1>2 DEF Types
<1>4. \A s \in {0, 1} : \A c : Held(s, c) =>
        /\ Held(s, c)' /\ (vq[0].ready => vq'[0].ready)
        /\ vq'[0].used_ring = vq[0].used_ring /\ vq'[0].used_idx = vq[0].used_idx
  BY <1>0, GuestCustody DEF Held
<1>5. \A v \in VCpus : (Serving(v)' <=> Serving(v)) /\ (Serving(v) => pc'[v] = pc[v])
  BY DEF Serving
<1>6. OneServes'
  BY <1>0, <1>2, <1>4, <1>5 DEF OneServes
<1>7. PICK s \in {0, 1} : \E c : Held(s, c)
  BY InCustody
<1>8. PICK c : Held(s, c)
  BY <1>7
<1>9. vq'[0].used_ring = vq[0].used_ring /\ vq'[0].used_idx = vq[0].used_idx
  BY <1>4, <1>8
<1>10. \A v \in VCpus : Serving(v) => cur[v] \in Heads /\ cur[v] \notin free[0]
  BY <1>0 DEF OneServes, Held, Custody, Alone, Types
<1>11. Progress'
  BY <1>0, <1>2, <1>5, <1>9, <1>10 DEF Progress, Serving, UsedAt, Returnable
<1>12. \A n \in NotReaped(vq'[0], last_used'[0]) :
         /\ n \in NotReaped(vq[0], last_used[0])
         /\ UsedAt(vq'[0], n) = UsedAt(vq[0], n)
  <2>1. /\ \A n \in NotReaped(vq'[0], last_used'[0]) : n \in NotReaped(vq[0], last_used[0])
        /\ \A n \in Int : UsedAt(vq'[0], n) = UsedAt(vq[0], n)
    BY <1>0, <1>8, ReapedInOrder DEF Held
  <2>2. \A n \in NotReaped(vq'[0], last_used'[0]) : n \in Int
    BY DEF NotReaped
  <2> QED
    BY <2>1, <2>2
<1>13. \A n \in NotReaped(vq[0], last_used[0]) :
         UsedAt(vq[0], n) \in Heads /\ UsedAt(vq[0], n) \notin free[0]
  <2>1. Apart(vq[0], free[0], posted[0], last_used[0])
    BY <1>8 DEF Held, Custody
  <2>2. \A n \in Int : UsedAt(vq[0], n) \in Heads
    BY QueueFacts, ModRange, RingSizes DEF UsedAt, RingsHoldHeads
  <2>3. \A n \in NotReaped(vq[0], last_used[0]) : n \in Int
    BY DEF NotReaped
  <2> QED
    BY <2>1, <2>2, <2>3 DEF Apart
<1>14. ReturnedFilled'
  BY <1>0, <1>12, <1>13 DEF ReturnedFilled, Returnable
<1> QED
  BY <1>1, <1>3, <1>6, <1>11, <1>14 DEF RngInv

(* The driver waits for the chain it has posted, so none is out. *)
LEMMA PostsAlone ==
  ASSUME RngInv, NEW h \in free[0], Post(0, h), Cardinality(Heads \ free[0]) < MaxOutstanding
  PROVE  OneOut'
<1>0. 0 \in Queues /\ GuestInv /\ h \in Heads /\ free'[0] = free[0] \ {h}
  BY OneQueue, PostSteps DEF RngInv
<1>1. SUFFICES ASSUME MaxOutstanding = 1 PROVE Heads \ free[0] = {}
  BY <1>0 DEF OneOut
<1>2. IsFiniteSet(Heads)
  BY RingSizes, FS_Interval DEF Heads
<1>3. IsFiniteSet(Heads \ free[0])
  BY <1>2, FS_Difference
<1>4. Cardinality(Heads \ free[0]) \in Nat
  BY <1>3, FS_CardinalityType
<1>5. Cardinality(Heads \ free[0]) = 0
  BY <1>1, <1>4
<1> QED
  BY <1>3, <1>5, FS_EmptySet

LEMMA HandlerFrees ==
  ASSUME RngInv, GuestSetup \/ GuestHandler
  PROVE  free[0] \subseteq free'[0] /\ UNCHANGED <<pc, cur, start, good, buf>> /\ GuestStep
<1>0. 0 \in Queues /\ GuestInv /\ scan \in Queues
  BY OneQueue, GuestTypes DEF RngInv
<1>1. UNCHANGED <<pc, cur, start, good, buf>> /\ GuestStep
  BY <1>0 DEF GuestSetup, GuestHandler, cpuVars, GuestStep
<1>2. CASE GuestSetup
  BY <1>0, <1>1, <1>2 DEF GuestSetup, SetupQueue
<1>3. CASE GuestHandler
  <2>1. CASE Reap
    <3>1. scan = 0
      BY <1>0, OneQueue
    <3> QED
      BY <1>0, <1>1, <2>1, <3>1, ReapSteps
  <2>2. CASE ~Reap
    BY <1>1, <1>3, <2>2 DEF GuestHandler, Handler, IrqEntry, ReadStatus, AckIrq, PublishEvent, Recheck
  <2> QED
    BY <2>1, <2>2
<1> QED
  BY <1>1, <1>2, <1>3

-----------------------------------------------------------------------------
(* The vCPUs' steps                                                        *)

(* A step on vCPU v that leaves the rings to the driver. *)
LEMMA CpuFrame ==
  ASSUME NEW v \in VCpus, Update(v) \/ Exit(v)
  PROVE  UNCHANGED <<gpc, scan, last_used, free, posted>>
BY DEF Update, Nothing, Take, ReadId, Fill, UseElem, UseIdx, RaiseIrq, Exit, guestVars

(* Who else serves does not change with a step of v. *)
LEMMA OthersServe ==
  ASSUME Types, NEW v \in VCpus, NEW k, pc' = [pc EXCEPT ![v] = k]
  PROVE  /\ pc'[v] = k
         /\ \A w \in VCpus : w # v => pc'[w] = pc[w] /\ (Serving(w)' <=> Serving(w))
BY DEF Types, Serving

(* v takes no part in serving before nor after. *)
LEMMA QuietCpu ==
  ASSUME RngInv, NEW v \in VCpus, NEW k \in {"guest", "next", "irq"},
         ~Serving(v), pc' = [pc EXCEPT ![v] = k],
         UNCHANGED <<vq, last_used, free, posted, cur, start, good, buf>>, GuestInv'
  PROVE  RngInv'
<1>0. Types /\ OneServes /\ OneOut /\ Progress /\ ReturnedFilled
  BY DEF RngInv
<1>1. \A w \in VCpus : Serving(w)' <=> Serving(w)
  BY <1>0, OthersServe DEF Serving
<1>2. \A w \in VCpus : Serving(w) => pc'[w] = pc[w]
  BY <1>0, OthersServe
<1>3. Types'
  BY <1>0 DEF Types
<1>4. OneServes'
  BY <1>0, <1>1 DEF OneServes, Held
<1>5. Progress'
  BY <1>0, <1>1, <1>2 DEF Progress, Serving, Returnable
<1>6. OneOut' /\ ReturnedFilled'
  BY <1>0 DEF OneOut, ReturnedFilled, Returnable
<1> QED
  BY <1>3, <1>4, <1>5, <1>6 DEF RngInv

(* Two chains that are not the driver's cannot be, so nobody else serves.  *)
LEMMA TakesAlone ==
  ASSUME RngInv, OneAtATime, NEW v \in VCpus, pc[v] = "next", has_next(vq[0])
  PROVE  \A w \in VCpus : ~Serving(w)
<1> SUFFICES ASSUME NEW w \in VCpus, Serving(w) PROVE FALSE
  OBVIOUS
<1>1. w # v
  BY DEF Serving
<1>2. MaxOutstanding = 1
  BY <1>1 DEF OneAtATime
<1> DEFINE r == vq[0]
           F == free[0]
           p == posted[0]
           l == last_used[0]
<1>3. r \in ProgrammedQueue /\ Custody(r, F, p, l, 1, cur[w]) /\ RingsHoldHeads(r)
      /\ r.last_avail \in Int /\ r.used_idx \in Int /\ r.avail_idx \in Int /\ p \in Nat
  BY QueueFacts DEF Held, Queue, Word
<1>4. cur[w] \in Heads \ F
  BY <1>3 DEF Custody, Alone, RngInv, Types
<1>5. r.last_avail \in NotTaken(r, p)
  <2>1. r.avail_idx > r.last_avail
    BY DEF has_next
  <2>2. r.avail_idx = (IF p < IdxMod THEN p ELSE p - IdxMod)
    BY <1>3 DEF Custody, Counted
  <2>3. r.last_avail < p
    BY <1>3, <2>1, <2>2, RingSizes
  <2> QED
    BY <1>3, <2>3 DEF NotTaken
<1>6. AvailAt(r, r.last_avail) # cur[w] /\ AvailAt(r, r.last_avail) \notin F
  BY <1>3, <1>5 DEF Custody, Alone, Apart
<1>7. AvailAt(r, r.last_avail) \in Heads
  BY <1>3, ModRange, RingSizes DEF AvailAt, RingsHoldHeads
<1> QED
  BY <1>2, <1>4, <1>6, <1>7 DEF RngInv, OneOut

LEMMA TakeKeeps ==
  ASSUME RngInv, OneAtATime, NEW v \in VCpus, Take(v)
  PROVE  RngInv'
<1> DEFINE r == vq[0]
           F == free[0]
           p == posted[0]
           l == last_used[0]
           e == next(r)
           c == AvailAt(r, r.last_avail)
<1>0. GuestInv /\ Types /\ OneServes /\ OneOut /\ Progress /\ ReturnedFilled /\ 0 \in Queues
  BY OneQueue DEF RngInv
<1>1. /\ pc[v] = "next" /\ has_next(r) /\ vq' = [vq EXCEPT ![0] = e]
      /\ cur' = [cur EXCEPT ![v] = avail_id(vq'[0])] /\ pc' = [pc EXCEPT ![v] = "id"]
      /\ UNCHANGED <<irq, gpc, scan, last_used, free, posted, start, good, buf>>
  BY DEF Take, q
<1>2. \A w \in VCpus : ~Serving(w)
  BY <1>1, TakesAlone
<1>3. Custody(r, F, p, l, 0, 0)
  BY <1>0, <1>2 DEF OneServes, Held
<1>4. r \in ProgrammedQueue /\ r \in Queue /\ RingsHoldHeads(r) /\ p \in Nat /\ l \in Nat /\ r.ready
  BY <1>1, QueueFacts DEF has_next
<1>5. Custody(e, F, p, l, 1, c) /\ avail_id(e) = c
  <2> HIDE DEF r, F, p, l
  <2> QED
    BY <1>1, <1>3, <1>4, CustodyTake
<1>6. e \in ProgrammedQueue /\ RingsHoldHeads(e)
  BY <1>4, NextQueue
<1>7. avail_id(e) \in Heads
  BY <1>6, AvailIdIsHead
<1>8. e.ready /\ e.used_idx = r.used_idx /\ e.used_ring = r.used_ring
  BY <1>4 DEF next, Queue
<1> HIDE DEF e, c
<1>9. GuestInv' /\ vq'[0] = e
  BY <1>0, <1>1, <1>6, <1>8, DeviceStepTyped
<1>10. /\ cur'[v] = c /\ c \in Heads /\ pc'[v] = "id"
       /\ \A w \in VCpus : w # v => ~Serving(w)' /\ pc'[w] = pc[w]
  BY <1>0, <1>1, <1>2, <1>5, <1>7, <1>9, OthersServe DEF Types
<1>11. Types'
  BY <1>0, <1>1, <1>7, <1>9 DEF Types
<1>12. OneServes'
  BY <1>1, <1>5, <1>8, <1>9, <1>10 DEF OneServes, Held, Serving
<1>13. Progress'
  BY <1>2, <1>10 DEF Progress, Serving
<1>14. OneOut' /\ ReturnedFilled'
  BY <1>0, <1>1, <1>8, <1>9 DEF OneOut, ReturnedFilled, NotReaped, UsedAt, Returnable
<1> QED
  BY <1>9, <1>11, <1>12, <1>13, <1>14 DEF RngInv

(* The id is read from the ring again, but last_avail still stands behind  *)
(* the chain.                                                              *)
LEMMA ReadIdKeeps ==
  ASSUME RngInv, NEW v \in VCpus, ReadId(v)
  PROVE  RngInv'
<1>0. GuestInv /\ Types /\ OneServes /\ OneOut /\ Progress /\ ReturnedFilled
  BY DEF RngInv
<1>1. /\ pc[v] = "id" /\ pc' = [pc EXCEPT ![v] = "read"]
      /\ start' = [start EXCEPT ![v] = avail_id(vq[0])]
      /\ UNCHANGED <<guestVars, cur, good, buf>>
  BY DEF ReadId, q
<1>2. Serving(v) /\ vq[0] \in ProgrammedQueue /\ Held(1, cur[v])
  BY <1>1, QueueFacts DEF Serving
<1>3. avail_id(vq[0]) = cur[v]
  BY <1>2, CustodyId DEF Held
<1>4. start'[v] = cur[v] /\ cur[v] \in Heads
  BY <1>0, <1>1, <1>3 DEF Types
<1>5. pc'[v] = "read" /\ \A w \in VCpus : w # v => pc'[w] = pc[w]
  BY <1>0, <1>1, OthersServe
<1>6. \A w \in VCpus : Serving(w)' <=> Serving(w)
  BY <1>2, <1>5 DEF Serving
<1>7. UNCHANGED <<vq, irq, gpc, scan, last_used, free, posted>>
  BY <1>1 DEF guestVars
<1>8. GuestInv'
  BY <1>0, <1>7 DEF GuestInv, GuestTypeOK
<1>9. Types'
  BY <1>0, <1>1, <1>3, <1>4 DEF Types
<1>10. OneServes'
  BY <1>0, <1>1, <1>6, <1>7 DEF OneServes, Held
<1>11. \A w \in VCpus : w # v => start'[w] = start[w]
  BY <1>0, <1>1 DEF Types
<1>12. Progress'
  BY <1>0, <1>1, <1>4, <1>5, <1>7, <1>11 DEF Progress, Returnable
<1>13. OneOut' /\ ReturnedFilled'
  BY <1>0, <1>1, <1>7 DEF OneOut, ReturnedFilled, Returnable
<1> QED
  BY <1>8, <1>9, <1>10, <1>12, <1>13 DEF RngInv

LEMMA FillKeeps ==
  ASSUME RngInv, NEW v \in VCpus, Fill(v)
  PROVE  RngInv'
<1>0. GuestInv /\ Types /\ OneServes /\ OneOut /\ Progress /\ ReturnedFilled
  BY DEF RngInv
<1>1. /\ pc[v] = "read" /\ pc' = [pc EXCEPT ![v] = "elem"]
      /\ good' \in IF IoErrors THEN {good, FALSE} ELSE {good}
      /\ buf' = [buf EXCEPT ![cur[v]] = IF good' THEN "filled" ELSE "failed"]
      /\ UNCHANGED <<guestVars, cur, start>>
  BY DEF Fill
<1>2. pc'[v] = "elem" /\ \A w \in VCpus : w # v => pc'[w] = pc[w]
  BY <1>0, <1>1, OthersServe
<1>3. \A w \in VCpus : Serving(w)' <=> Serving(w)
  BY <1>1, <1>2 DEF Serving
<1>4. UNCHANGED <<vq, irq, gpc, scan, last_used, free, posted>>
  BY <1>1 DEF guestVars
<1>5. GuestInv'
  BY <1>0, <1>4 DEF GuestInv, GuestTypeOK
<1>6. /\ good' \in BOOLEAN /\ buf' \in [Heads -> {"empty", "filled", "failed"}]
      /\ Returnable(cur[v])' /\ \A h \in Heads : Returnable(h) => Returnable(h)'
  <2>1. /\ cur[v] \in Heads /\ cur' = cur /\ good \in BOOLEAN
        /\ buf \in [Heads -> {"empty", "filled", "failed"}]
    BY <1>0, <1>1 DEF Types
  <2>2. good' \in BOOLEAN /\ (~good => ~good')
    BY <1>1, <2>1
  <2>3. buf'[cur[v]] = (IF good' THEN "filled" ELSE "failed")
    BY <1>1, <2>1
  <2>4. \A h \in Heads : h # cur[v] => buf'[h] = buf[h]
    BY <1>1, <2>1
  <2>5. buf' \in [Heads -> {"empty", "filled", "failed"}]
    BY <1>1, <2>1, <2>2
  <2>6. Returnable(cur[v])'
    BY <2>1, <2>2, <2>3 DEF Returnable
  <2>7. ASSUME NEW h \in Heads, Returnable(h) PROVE Returnable(h)'
    BY <2>1, <2>2, <2>4, <2>6, <2>7 DEF Returnable
  <2> QED
    BY <2>2, <2>5, <2>6, <2>7
<1>7. Types'
  BY <1>0, <1>1, <1>6 DEF Types
<1>8. OneServes'
  BY <1>0, <1>1, <1>3, <1>4 DEF OneServes, Held
<1>9. \A w \in VCpus : cur'[w] = cur[w] /\ start'[w] = start[w] /\ cur[w] \in Heads
  BY <1>0, <1>1 DEF Types
<1>10. Progress'
  BY <1>0, <1>1, <1>2, <1>4, <1>6, <1>9 DEF Progress
<1>11. \A n \in Int : UsedAt(vq[0], n) \in Heads
  BY QueueFacts, ModRange, RingSizes DEF UsedAt, RingsHoldHeads
<1>12. OneOut'
  BY <1>0, <1>4 DEF OneOut
<1>13. ReturnedFilled'
  <2>1. NotReaped(vq[0], last_used[0]) \subseteq Int
    BY DEF NotReaped
  <2>2. ASSUME NEW n \in NotReaped(vq[0], last_used[0]) PROVE Returnable(UsedAt(vq[0], n))'
    <3>1. Returnable(UsedAt(vq[0], n)) /\ UsedAt(vq[0], n) \in Heads
      BY <1>0, <1>11, <2>1 DEF ReturnedFilled
    <3>2. Returnable(UsedAt(vq[0], n)) => buf'[UsedAt(vq[0], n)] = "filled"
            \/ (buf'[UsedAt(vq[0], n)] = "failed" /\ ~good')
      BY <1>6, <3>1 DEF Returnable
    <3> QED
      BY <1>4, <3>1, <3>2 DEF Returnable, UsedAt
  <2> QED
    BY <1>4, <2>2 DEF ReturnedFilled, NotReaped
<1> QED
  BY <1>5, <1>7, <1>8, <1>10, <1>12, <1>13 DEF RngInv

LEMMA UseElemKeeps ==
  ASSUME RngInv, NEW v \in VCpus, UseElem(v)
  PROVE  RngInv'
<1> DEFINE r == vq[0]
           F == free[0]
           p == posted[0]
           l == last_used[0]
           c == cur[v]
           e == add_used_elem(r, c, BufLen)
<1>0. GuestInv /\ Types /\ OneServes /\ OneOut /\ Progress /\ ReturnedFilled /\ 0 \in Queues
  BY OneQueue DEF RngInv
<1>1. /\ pc[v] = "elem" /\ pc' = [pc EXCEPT ![v] = "idx"]
      /\ vq' = [vq EXCEPT ![0] = add_used_elem(@, start[v], BufLen)]
      /\ UNCHANGED <<irq, gpc, scan, last_used, free, posted, cur, start, good, buf>>
  BY DEF UseElem
<1>2. Serving(v) /\ start[v] = c /\ Returnable(c) /\ c \in Heads /\ BufLen \in Nat
  BY <1>0, <1>1, RngConstants DEF Serving, Progress, Types, RngConstants
<1>3. /\ r \in ProgrammedQueue /\ r \in Queue /\ RingsHoldHeads(r) /\ r.ready
      /\ p \in Nat /\ l \in Nat /\ Custody(r, F, p, l, 1, c)
  BY <1>2, QueueFacts DEF Held
<1>4. vq' = [vq EXCEPT ![0] = e]
  BY <1>0, <1>1, <1>2
<1>5. e \in ProgrammedQueue /\ RingsHoldHeads(e)
  BY <1>2, <1>3, AddUsedElemQueue
<1>6. e.ready /\ e.used_idx = r.used_idx
  BY <1>3, AddUsedElemFields
<1>7. Custody(e, F, p, l, 1, c) /\ UsedAt(e, r.used_idx) = c
  <2> HIDE DEF r, F, p, l, c
  <2> QED
    BY <1>3, CustodyElem
<1>8. \A n \in NotReaped(r, l) : UsedAt(e, n) = UsedAt(r, n)
  <2>1. \A n \in NotReaped(r, l) : n \in Int /\ n < r.used_idx /\ r.used_idx - n < QueueNum
    BY <1>3, CustodyBounds, RingSizes DEF NotReaped
  <2> QED
    BY <1>3, <2>1, UsedEntries
<1> HIDE DEF e
<1>9. GuestInv' /\ vq'[0] = e
  BY <1>0, <1>1, <1>4, <1>5, <1>6, DeviceStepTyped
<1>10. pc'[v] = "idx" /\ \A w \in VCpus : w # v => pc'[w] = pc[w] /\ (Serving(w)' <=> Serving(w))
  BY <1>0, <1>1, OthersServe
<1>11. \A w \in VCpus : Serving(w)' <=> Serving(w)
  BY <1>2, <1>10 DEF Serving
<1>12. Types'
  BY <1>0, <1>1 DEF Types
<1>13. OneServes'
  BY <1>0, <1>1, <1>2, <1>6, <1>7, <1>9, <1>11 DEF OneServes, Held
<1>14. \A w \in VCpus : Serving(w) => w = v
  BY <1>0, <1>2 DEF OneServes
<1>15. Progress'
  BY <1>1, <1>2, <1>6, <1>7, <1>9, <1>11, <1>14 DEF Progress, Serving, Returnable
<1>16. OneOut'
  BY <1>0, <1>1 DEF OneOut
<1>17. ReturnedFilled'
  BY <1>0, <1>1, <1>6, <1>8, <1>9 DEF ReturnedFilled, NotReaped, Returnable
<1> QED
  BY <1>9, <1>12, <1>13, <1>15, <1>16, <1>17 DEF RngInv

LEMMA UseIdxKeeps ==
  ASSUME RngInv, NEW v \in VCpus, UseIdx(v)
  PROVE  RngInv'
<1> DEFINE r == vq[0]
           F == free[0]
           p == posted[0]
           l == last_used[0]
           c == cur[v]
           e == add_used_idx(r)
<1>0. GuestInv /\ Types /\ OneServes /\ OneOut /\ Progress /\ ReturnedFilled /\ 0 \in Queues
  BY OneQueue DEF RngInv
<1>1. /\ pc[v] = "idx" /\ pc' = [pc EXCEPT ![v] = "irq"] /\ vq' = [vq EXCEPT ![0] = e]
      /\ UNCHANGED <<irq, gpc, scan, last_used, free, posted, cur, start, good, buf>>
  BY <1>0 DEF UseIdx
<1>2. Serving(v) /\ UsedAt(r, r.used_idx) = c /\ Returnable(c)
  BY <1>0, <1>1 DEF Serving, Progress
<1>3. /\ r \in ProgrammedQueue /\ r \in Queue /\ RingsHoldHeads(r) /\ r.ready
      /\ p \in Nat /\ l \in Nat /\ Custody(r, F, p, l, 1, c)
  BY <1>2, QueueFacts DEF Held
<1>4. e \in ProgrammedQueue /\ RingsHoldHeads(e)
  BY <1>3, AddUsedIdxQueue
<1>5. e.ready /\ e.used_ring = r.used_ring
  BY <1>3 DEF add_used_idx, Queue
<1>6. Custody(e, F, p, l, 0, 0) /\ e.used_idx = r.used_idx + 1
  <2> HIDE DEF r, F, p, l, c
  <2> QED
    BY <1>2, <1>3, CustodyReturn
<1> HIDE DEF e
<1>7. GuestInv' /\ vq'[0] = e
  BY <1>0, <1>1, <1>4, <1>5, DeviceStepTyped
<1>8. pc'[v] = "irq" /\ \A w \in VCpus : w # v => pc'[w] = pc[w] /\ (Serving(w)' <=> Serving(w))
  BY <1>0, <1>1, OthersServe
<1>9. \A w \in VCpus : ~Serving(w)'
  BY <1>0, <1>2, <1>8 DEF OneServes, Serving
<1>10. Types'
  BY <1>0, <1>1 DEF Types
<1>11. OneServes'
  BY <1>1, <1>6, <1>7, <1>9 DEF OneServes, Held
<1>12. Progress'
  BY <1>9 DEF Progress, Serving
<1>13. OneOut'
  BY <1>0, <1>1 DEF OneOut
<1>14. ReturnedFilled'
  <2>1. \A n \in NotReaped(e, l) : n \in NotReaped(r, l) \/ n = r.used_idx
    BY <1>3, <1>6 DEF NotReaped, Queue, Word
  <2>2. \A n \in NotReaped(e, l) : Returnable(UsedAt(e, n))
    BY <1>0, <1>2, <1>5, <2>1 DEF ReturnedFilled, UsedAt
  <2> QED
    BY <1>1, <1>7, <2>2 DEF ReturnedFilled, Returnable
<1> QED
  BY <1>7, <1>10, <1>11, <1>12, <1>13, <1>14 DEF RngInv

LEMMA QuietKeeps ==
  ASSUME RngInv, NEW v \in VCpus, Nothing(v) \/ Exit(v) \/ RaiseIrq(v)
  PROVE  RngInv'
<1>0. GuestInv
  BY DEF RngInv
<1>1. CASE Nothing(v) \/ Exit(v)
  <2>1. /\ ~Serving(v) /\ (pc' = [pc EXCEPT ![v] = "guest"] \/ pc' = [pc EXCEPT ![v] = "next"])
        /\ UNCHANGED <<vq, irq, gpc, scan, last_used, free, posted, cur, start, good, buf>>
    BY <1>1 DEF Nothing, Exit, Serving, guestVars
  <2>2. GuestInv'
    BY <1>0, <2>1 DEF GuestInv, GuestTypeOK
  <2> QED
    BY <2>1, <2>2, QuietCpu
<1>2. CASE RaiseIrq(v)
  <2>1. /\ ~Serving(v) /\ pc' = [pc EXCEPT ![v] = "guest"] /\ irq' = set_level(irq, TRUE)
        /\ UNCHANGED <<vq, gpc, scan, last_used, free, posted, cur, start, good, buf>>
    BY <1>2 DEF RaiseIrq, Serving
  <2>2. GuestInv'
    BY <1>0, <2>1, RaiseTyped
  <2> QED
    BY <2>1, <2>2, QuietCpu
<1> QED
  BY <1>1, <1>2

LEMMA GuestPostKeeps ==
  ASSUME RngInv, NEW v \in VCpus, GuestPost(v)
  PROVE  RngInv'
<1>0. Types /\ 0 \in Queues /\ free[0] \in SUBSET Heads
  BY OneQueue, QueueFacts DEF RngInv
<1>1. PICK h \in free[0] : Post(0, h) /\ buf' = [buf EXCEPT ![h] = "empty"]
  BY DEF GuestPost
<1>2. /\ pc[v] = "guest" /\ pc' = [pc EXCEPT ![v] = "next"] /\ UNCHANGED <<cur, start>>
      /\ Cardinality(Heads \ free[0]) < MaxOutstanding
  BY DEF GuestPost
<1>3. OneOut'
  BY <1>1, <1>2, PostsAlone
<1>4. GuestStep
  BY <1>0, <1>1 DEF GuestStep
<1>5. \A w \in VCpus : pc'[w] = pc[w] \/ (~Serving(w) /\ ~Serving(w)')
  <2>1. pc'[v] = "next" /\ \A w \in VCpus : w # v => pc'[w] = pc[w]
    BY <1>0, <1>2, OthersServe
  <2> QED
    BY <1>2, <2>1 DEF Serving
<1>6. pc' \in [VCpus -> {"guest", "next", "id", "read", "elem", "idx", "irq"}]
  BY <1>0, <1>2 DEF Types
<1>7. /\ good' = good /\ buf' \in [Heads -> {"empty", "filled", "failed"}]
      /\ \A h2 \in Heads : h2 \notin free[0] => buf'[h2] = buf[h2]
  BY <1>0, <1>1 DEF GuestPost, Types
<1> QED
  BY <1>2, <1>3, <1>4, <1>5, <1>6, <1>7, GuestKeeps

(* RngInv is inductive while vCPUs come one at a time. *)
LEMMA RngInvNext ==
  ASSUME OneAtATime, RngInv, [Next]_vars
  PROVE  RngInv'
<1>0. GuestInv /\ Types /\ OneServes /\ OneOut /\ Progress /\ ReturnedFilled
  BY DEF RngInv
<1>1. CASE UNCHANGED vars
  <2>1. UNCHANGED <<vq, irq, gpc, scan, last_used, free, posted, pc, cur, start, good, buf>>
    BY <1>1 DEF vars, guestVars, cpuVars
  <2>2. GuestInv'
    BY <1>0, <2>1 DEF GuestInv, GuestTypeOK
  <2>3. Types' /\ OneServes' /\ OneOut' /\ Progress' /\ ReturnedFilled'
    BY <1>0, <2>1 DEF Types, OneServes, Serving, Held, OneOut, Progress, ReturnedFilled, Returnable
  <2> QED
    BY <2>2, <2>3 DEF RngInv
<1>2. CASE GuestSetup \/ GuestHandler
  <2>1. free[0] \subseteq free'[0] /\ UNCHANGED <<pc, cur, start, good, buf>> /\ GuestStep
    BY <1>2, HandlerFrees
  <2>2. OneOut'
    BY <1>0, <2>1 DEF OneOut
  <2>3. /\ pc' \in [VCpus -> {"guest", "next", "id", "read", "elem", "idx", "irq"}]
        /\ good' = good /\ buf' \in [Heads -> {"empty", "filled", "failed"}]
    BY <1>0, <2>1 DEF Types
  <2>4. /\ \A v \in VCpus : pc'[v] = pc[v] \/ (~Serving(v) /\ ~Serving(v)')
        /\ \A h \in Heads : h \notin free[0] => buf'[h] = buf[h]
    BY <2>1
  <2> QED
    BY <2>1, <2>2, <2>3, <2>4, GuestKeeps
<1>3. ASSUME NEW v \in VCpus, GuestPost(v) \/ Exit(v) \/ Update(v) PROVE RngInv'
  BY <1>3, GuestPostKeeps, QuietKeeps, TakeKeeps, ReadIdKeeps, FillKeeps, UseElemKeeps, UseIdxKeeps
     DEF Update
<1> QED
  BY <1>1, <1>2, <1>3 DEF Next

-----------------------------------------------------------------------------
(* What it implies                                                         *)

(* rng.h:48-50: the stream that no mutex guards is never read by two       *)
(* vCPUs, because the driver that waits for its one chain leaves nothing   *)
(* for a second next() to take.                                            *)
THEOREM StreamNotShared ==
  ASSUME OneAtATime PROVE Spec => []StreamExclusive
<1>1. RngInv => StreamExclusive
  BY DEF RngInv, OneServes, Serving, StreamExclusive
<1>2. RngInv /\ [Next]_vars => RngInv'
  BY RngInvNext
<1> QED
  BY <1>1, <1>2, RngInvInit, PTL DEF Spec

(* rng.h:48-53: the id read after the lock was released is that of the     *)
(* chain the vCPU fills, and as long as no read of the stream has failed   *)
(* every buffer comes back with entropy in it.                             *)
THEOREM FilledBuffersReturned ==
  ASSUME OneAtATime PROVE Spec => []ReturnsWhatItFilled
<1>1. ASSUME RngInv PROVE ReturnsWhatItFilled
  <2>1. \A v \in VCpus : pc[v] \in {"read", "elem", "idx"} => start[v] = cur[v]
    BY <1>1 DEF RngInv, Progress
  <2>2. \A v \in VCpus : pc[v] \in {"id", "read", "elem", "idx"} => cur[v] \notin free[0]
    BY <1>1 DEF RngInv, OneServes, Serving, Held, Custody, Alone
  <2>3. \A n \in last_used[0] .. vq[0].used_idx - 1 : Returnable(used_elem(vq[0], n).id)
    <3>1. CASE vq[0].ready
      <4>1. vq[0].size = QueueNum
        BY <1>1, <3>1, QueueFacts DEF ProgrammedQueue
      <4> QED
        BY <1>1, <4>1 DEF RngInv, ReturnedFilled, NotReaped, UsedAt, used_elem
    <3>2. CASE ~vq[0].ready
      <4>1. vq[0].used_idx = 0 /\ last_used[0] = 0
        BY <1>1, <3>2, OneQueue DEF RngInv, GuestInv, FreshQueue
      <4> QED
        BY <4>1
    <3> QED
      BY <3>1, <3>2
  <2> QED
    BY <2>1, <2>2, <2>3 DEF ReturnsWhatItFilled, q
<1>2. RngInv /\ [Next]_vars => RngInv'
  BY RngInvNext
<1> QED
  BY <1>1, <1>2, RngInvInit, PTL DEF Spec

-----------------------------------------------------------------------------
(* What holds however many vCPUs serve at once                             *)

Typed == GuestInv /\ Types /\ \A v \in VCpus : Serving(v) => vq[0].ready

LEMMA TypedInit == Init => Typed
  BY RngInvInit DEF RngInv, Typed, OneServes

LEMMA TypedGuest ==
  ASSUME Typed, GuestSetup \/ GuestHandler \/ \E v \in VCpus : GuestPost(v)
  PROVE  Typed'
<1>0. GuestInv /\ Types /\ 0 \in Queues
  BY OneQueue DEF Typed
<1>1. GuestStep
  BY OneQueue DEF GuestSetup, GuestHandler, GuestPost, GuestStep
<1>2. GuestInv'
  BY <1>0, <1>1, GuestInvStep
<1>3. Types' /\ \A v \in VCpus : Serving(v)' => Serving(v)
  <2>1. CASE UNCHANGED <<pc, cur, start, good, buf>>
    BY <1>0, <2>1 DEF Types, Serving
  <2>2. CASE \E v \in VCpus : GuestPost(v)
    BY <1>0, <2>2 DEF GuestPost, Types, Serving
  <2> QED
    BY <2>1, <2>2 DEF GuestSetup, GuestHandler, cpuVars
<1>4. vq[0].ready => vq'[0].ready
  <2>1. CASE GuestSetup
    BY <1>0, <2>1 DEF GuestSetup, SetupQueue
  <2>2. CASE \E v \in VCpus : GuestPost(v)
    <3>1. PICK h \in free[0] : Post(0, h)
      BY <2>2 DEF GuestPost
    <3>2. vq'[0] = post_avail(vq[0], h) /\ vq[0] \in Queue
      BY <1>0, <3>1, PostSteps, GuestTypes
    <3> QED
      BY <3>2 DEF post_avail, Queue
  <2>3. CASE GuestHandler
    <3>1. CASE PublishEvent
      BY <1>0, <3>1, PublishSteps
    <3>2. CASE ~PublishEvent
      BY <2>3, <3>2 DEF GuestHandler, Handler, IrqEntry, ReadStatus, AckIrq, Reap, Recheck
    <3> QED
      BY <3>1, <3>2
  <2> QED
    BY <2>1, <2>2, <2>3
<1> QED
  BY <1>2, <1>3, <1>4 DEF Typed

(* A vCPU's step on the queue turns it into e. *)
LEMMA TypedQueue ==
  ASSUME Typed, NEW v \in VCpus, Take(v) \/ UseElem(v) \/ UseIdx(v)
  PROVE  GuestInv' /\ vq'[0].ready /\ (Take(v) => cur'[v] \in Heads)
<1>0. GuestInv /\ Types /\ 0 \in Queues /\ vq \in [Queues -> Queue]
  BY OneQueue, GuestTypes DEF Typed
<1>1. vq[0].ready
  BY DEF Take, has_next, q, UseElem, UseIdx, Typed, Serving
<1>2. vq[0] \in ProgrammedQueue /\ vq[0] \in Queue /\ RingsHoldHeads(vq[0])
  BY <1>0, <1>1, GuestTypes DEF GuestInv
<1>3. UNCHANGED <<irq, gpc, scan, last_used, free, posted>>
  BY DEF Take, UseElem, UseIdx
<1> DEFINE Becomes(e) == e \in ProgrammedQueue /\ RingsHoldHeads(e) /\ e.ready
                           /\ vq' = [vq EXCEPT ![0] = e]
<1>4. ASSUME NEW e, Becomes(e) PROVE GuestInv' /\ vq'[0] = e /\ e.ready
  BY <1>0, <1>3, <1>4, DeviceStepTyped
<1>5. CASE Take(v)
  <2>1. vq' = [vq EXCEPT ![0] = next(vq[0])] /\ cur' = [cur EXCEPT ![v] = avail_id(vq'[0])]
    BY <1>0, <1>5 DEF Take
  <2>2. next(vq[0]).ready
    BY <1>1, <1>2 DEF next, Queue
  <2>3. Becomes(next(vq[0])) /\ avail_id(next(vq[0])) \in Heads
    BY <1>2, <2>1, <2>2, NextQueue, AvailIdIsHead
  <2>4. GuestInv' /\ vq'[0] = next(vq[0])
    BY <1>4, <2>3
  <2> QED
    BY <1>0, <2>1, <2>2, <2>3, <2>4 DEF Types
<1>6. CASE UseElem(v)
  <2> DEFINE e == add_used_elem(vq[0], start[v], BufLen)
  <2>1. vq' = [vq EXCEPT ![0] = e] /\ start[v] \in Heads /\ BufLen \in Nat
    BY <1>0, <1>6, RngConstants DEF UseElem, Types, RngConstants
  <2>2. Becomes(e)
    BY <1>1, <1>2, <2>1, AddUsedElemQueue, AddUsedElemFields
  <2> QED
    BY <1>4, <1>6, <2>2 DEF UseElem, Take
<1>7. CASE UseIdx(v)
  <2> DEFINE e == add_used_idx(vq[0])
  <2>1. vq' = [vq EXCEPT ![0] = e]
    BY <1>0, <1>7 DEF UseIdx
  <2>2. e.ready
    BY <1>1, <1>2 DEF add_used_idx, Queue
  <2>3. Becomes(e)
    BY <1>2, <2>1, <2>2, AddUsedIdxQueue
  <2> QED
    BY <1>4, <1>7, <2>3 DEF UseIdx, Take
<1> QED
  BY <1>5, <1>6, <1>7

LEMMA TypedCpu ==
  ASSUME Typed, NEW v \in VCpus, Update(v) \/ Exit(v)
  PROVE  Typed'
<1>0. GuestInv /\ Types /\ vq[0] \in Queue /\ RingsHoldHeads(vq[0]) /\ 0 \in Queues
      /\ (vq[0].ready => vq[0] \in ProgrammedQueue)
  BY OneQueue, GuestTypes DEF Typed, GuestInv
<1>1. CASE Take(v)
  <2>1. GuestInv' /\ vq'[0].ready /\ cur'[v] \in Heads
    BY <1>1, TypedQueue
  <2>2. Types'
    BY <1>0, <1>1, <2>1 DEF Take, Types
  <2> QED
    BY <2>1, <2>2 DEF Typed
<1>2. CASE UseElem(v) \/ UseIdx(v)
  <2>1. GuestInv' /\ vq'[0].ready
    BY <1>2, TypedQueue
  <2>2. Types'
    BY <1>0, <1>2 DEF UseElem, UseIdx, Types
  <2> QED
    BY <2>1, <2>2 DEF Typed
<1>3. CASE ReadId(v)
  <2>1. vq[0].ready
    BY <1>3 DEF ReadId, Typed, Serving
  <2>2. avail_id(vq[0]) \in Heads
    BY <1>0, <2>1, AvailIdIsHead
  <2>3. UNCHANGED <<vq, irq, gpc, scan, last_used, free, posted>>
    BY <1>3 DEF ReadId, guestVars
  <2>4. GuestInv'
    BY <1>0, <2>3 DEF GuestInv, GuestTypeOK
  <2>5. Types'
    BY <1>0, <1>3, <2>2 DEF ReadId, Types, q
  <2> QED
    BY <2>1, <2>3, <2>4, <2>5 DEF Typed
<1>4. CASE RaiseIrq(v)
  <2>1. GuestInv'
    BY <1>0, <1>4, RaiseTyped DEF RaiseIrq
  <2>2. Types' /\ vq' = vq /\ \A w \in VCpus : Serving(w)' => Serving(w)
    BY <1>0, <1>4 DEF RaiseIrq, Types, Serving
  <2> QED
    BY <2>1, <2>2 DEF Typed
<1>5. CASE Nothing(v) \/ Fill(v) \/ Exit(v)
  <2>1. UNCHANGED <<vq, irq, gpc, scan, last_used, free, posted>>
    BY <1>5 DEF Nothing, Fill, Exit, guestVars
  <2>2. GuestInv'
    BY <1>0, <2>1 DEF GuestInv, GuestTypeOK
  <2>3. Types' /\ \A w \in VCpus : Serving(w)' => Serving(w)
    BY <1>0, <1>5 DEF Nothing, Fill, Exit, Types, Serving
  <2> QED
    BY <2>1, <2>2, <2>3 DEF Typed
<1> QED
  BY <1>1, <1>2, <1>3, <1>4, <1>5 DEF Update

LEMMA TypedNext == Typed /\ [Next]_vars => Typed'
<1> SUFFICES ASSUME Typed, [Next]_vars PROVE Typed'
  OBVIOUS
<1>1. CASE UNCHANGED vars
  <2>1. UNCHANGED <<vq, irq, gpc, scan, last_used, free, posted, pc, cur, start, good, buf>>
    BY <1>1 DEF vars, guestVars, cpuVars
  <2>2. GuestInv'
    BY <2>1 DEF Typed, GuestInv, GuestTypeOK
  <2> QED
    BY <2>1, <2>2 DEF Typed, Types, Serving
<1> QED
  BY <1>1, TypedGuest, TypedCpu DEF Next

-----------------------------------------------------------------------------
(* The interrupt                                                           *)

(* Until the handler has read the status, the line is high for the edge it *)
(* has consumed; otherwise it is high while an edge waits.                 *)
LineInv ==
  IF gpc \in {"status", "ack"}
  THEN irq.level /\ irq.events = 0
  ELSE irq.level <=> irq.events > 0

(* A chain the driver has not reaped is one a vCPU is about to raise the   *)
(* line for, or the line is high, or the drain loop has yet to look.       *)
Noticed ==
  last_used[0] # vq[0].used_idx =>
    \/ \E v \in VCpus : pc[v] = "irq"
    \/ irq.level
    \/ gpc \in {"drain", "recheck"}

EdgeInv == LineInv /\ Noticed

LEMMA HandlerKeepsEdge ==
  ASSUME Typed, EdgeInv, Handler, UNCHANGED pc
  PROVE  EdgeInv'
<1>0. irq \in Line /\ scan = 0 /\ 0 \in Queues /\ GuestInv
  BY OneQueue, GuestTypes DEF Typed
<1> USE DEF EdgeInv, LineInv, Noticed
<1>1. CASE IrqEntry
  <2>1. /\ irq'.level = irq.level /\ irq'.events = 0
        /\ gpc = "idle" /\ gpc' = "status" /\ irq.events > 0
    BY <1>0, <1>1 DEF IrqEntry, drain_events, Line
  <2>2. UNCHANGED <<vq, scan, last_used>>
    BY <1>1 DEF IrqEntry
  <2> QED
    BY <2>1, <2>2
<1>2. CASE ReadStatus
  BY <1>2 DEF ReadStatus
<1>3. CASE AckIrq
  <2>1. ~irq'.level /\ irq'.events = 0 /\ gpc' = "drain"
    BY <1>0, <1>3 DEF AckIrq, set_level, Line
  <2> QED
    BY <2>1
<1>4. CASE Reap
  <2>1. UNCHANGED <<irq, gpc>> /\ gpc = "drain"
    BY <1>0, <1>4, ReapSteps DEF Reap
  <2> QED
    BY <2>1
<1>5. CASE PublishEvent
  <2>1. UNCHANGED <<irq, last_used>> /\ gpc = "drain" /\ gpc' = "recheck"
    BY <1>0, <1>5, PublishSteps DEF PublishEvent
  <2> QED
    BY <2>1
<1>6. CASE Recheck
  <2>1. /\ UNCHANGED <<vq, irq, last_used>> /\ gpc = "recheck"
        /\ gpc' = "drain" \/ (gpc' = "idle" /\ last_used[0] = vq[0].used_idx)
    BY <1>0, <1>6 DEF Recheck
  <2> QED
    BY <2>1
<1> QED
  BY <1>1, <1>2, <1>3, <1>4, <1>5, <1>6 DEF Handler

(* A driver that has nothing to reap has nothing to notice.                *)
LEMMA PostKeepsEdge ==
  ASSUME Typed, EdgeInv, NEW v \in VCpus, GuestPost(v)
  PROVE  EdgeInv'
<1>0. 0 \in Queues /\ GuestInv /\ Types
  BY OneQueue DEF Typed
<1>1. PICK h \in free[0] : Post(0, h)
  BY DEF GuestPost
<1>2. post_avail(vq[0], h).used_idx = vq[0].used_idx
  BY <1>0, GuestTypes DEF post_avail, Queue
<1>3. UNCHANGED <<irq, gpc, last_used>> /\ vq'[0].used_idx = vq[0].used_idx
  BY <1>0, <1>1, <1>2, PostSteps
<1>4. pc[v] = "guest" /\ \A w \in VCpus : w # v => pc'[w] = pc[w]
  BY <1>0, OthersServe DEF GuestPost
<1> QED
  BY <1>3, <1>4 DEF EdgeInv, LineInv, Noticed

LEMMA CpuKeepsEdge ==
  ASSUME Typed, EdgeInv, NEW v \in VCpus, Update(v) \/ Exit(v)
  PROVE  EdgeInv'
<1>0. irq \in Line /\ Types /\ vq \in [Queues -> Queue] /\ vq[0] \in Queue /\ 0 \in Queues
  BY OneQueue, GuestTypes DEF Typed
<1>1. UNCHANGED <<gpc, last_used>>
  BY CpuFrame
<1> USE DEF EdgeInv, LineInv, Noticed
<1>2. CASE RaiseIrq(v)
  <2>1. irq' = set_level(irq, TRUE) /\ vq' = vq
    BY <1>2 DEF RaiseIrq
  <2>2. /\ irq'.level /\ (irq.level => irq'.events = irq.events)
        /\ ~irq.level => irq'.events > 0
    BY <1>0, <2>1 DEF set_level, Line
  <2> QED
    BY <1>1, <2>1, <2>2
<1>3. CASE UseIdx(v)
  <2>1. irq' = irq /\ pc'[v] = "irq"
    BY <1>0, <1>3 DEF UseIdx, Types
  <2> QED
    BY <1>1, <2>1
<1>4. CASE ~RaiseIrq(v) /\ ~UseIdx(v)
  <2>1. irq' = irq /\ pc[v] # "irq" /\ vq'[0].used_idx = vq[0].used_idx
    <3>1. CASE Fill(v)
      BY <3>1 DEF Fill, guestVars
    <3>2. CASE ~Fill(v)
      BY <1>0, <1>4, <3>2 DEF Update, Nothing, Take, ReadId, UseElem, Exit, guestVars,
         next, add_used_elem, Queue
    <3> QED
      BY <3>1, <3>2
  <2>2. \A w \in VCpus : w # v => pc'[w] = pc[w]
    BY <1>0, <1>4 DEF Update, Nothing, Take, ReadId, Fill, UseElem, Exit, Types
  <2> QED
    BY <1>1, <2>1, <2>2
<1> QED
  BY <1>2, <1>3, <1>4

LEMMA EdgeInvNext == Typed /\ EdgeInv /\ [Next]_vars => EdgeInv'
<1> SUFFICES ASSUME Typed, EdgeInv, [Next]_vars PROVE EdgeInv'
  OBVIOUS
<1>1. CASE UNCHANGED vars
  BY <1>1 DEF vars, guestVars, cpuVars, EdgeInv, LineInv, Noticed
<1>2. CASE GuestSetup
  <2>1. UNCHANGED <<irq, gpc, last_used, pc>> /\ vq'[0].used_idx = vq[0].used_idx
    BY <1>2, OneQueue, SetupSteps DEF GuestSetup, cpuVars, Typed, SameEntries
  <2> QED
    BY <2>1 DEF EdgeInv, LineInv, Noticed
<1>3. CASE GuestHandler
  BY <1>3, HandlerKeepsEdge DEF GuestHandler, cpuVars
<1> QED
  BY <1>1, <1>2, <1>3, PostKeepsEdge, CpuKeepsEdge DEF Next

(* rng.h:53-54: whichever vCPU raises the line, and in whatever order, the *)
(* driver notices every chain that was returned; even when vCPUs confuse   *)
(* each other's chains, for it needs no more than Typed.                   *)
THEOREM RngInterruptNotLost == Spec => []NoLostInterrupt
<1>1. ASSUME Init PROVE EdgeInv
  <2>1. vq[0].used_idx = 0 /\ last_used[0] = 0
    BY <1>1, OneQueue DEF Init, GuestInit, FreshQueue
  <2> QED
    BY <1>1, <2>1 DEF Init, GuestInit, EdgeInv, LineInv, Noticed, LowLine
<1>2. EdgeInv => NoLostInterrupt
  BY DEF EdgeInv, LineInv, Noticed, NoLostInterrupt, q
<1> QED
  BY <1>1, <1>2, TypedInit, TypedNext, EdgeInvNext, PTL DEF Spec

-----------------------------------------------------------------------------
(* The queue as a server of chains, first come first served                *)

LEMMA CpuServes ==
  ASSUME OneAtATime, RngInv, NEW v \in VCpus, Update(v) \/ Exit(v)
  PROVE  ServerStep(PendingIn(vq[0], posted[0]), DoneIn(vq[0], last_used[0]),
                    PendingIn(vq'[0], posted'[0]), DoneIn(vq'[0], last_used'[0]))
<1> DEFINE r == vq[0]
           F == free[0]
           p == posted[0]
           l == last_used[0]
           c == cur[v]
<1>0. /\ 0 \in Queues /\ vq \in [Queues -> Queue] /\ r \in Queue /\ RingsHoldHeads(r)
      /\ p \in Nat /\ l \in Nat
  BY OneQueue, QueueFacts
<1>1. UNCHANGED <<p, l>>
  BY CpuFrame
<1>2. Serving(v) => r \in ProgrammedQueue /\ Custody(r, F, p, l, 1, c)
  BY QueueFacts DEF Held
<1>3. CASE vq'[0] = r \/ vq'[0] = next(r)
  <2> DEFINE e == vq'[0]
  <2>1. e.used_idx = r.used_idx /\ e.avail_ring = r.avail_ring /\ e.used_ring = r.used_ring
    BY <1>0, <1>3 DEF next, Queue
  <2>2. PendingIn(e, p) = PendingIn(r, p) /\ DoneIn(e, l) = DoneIn(r, l)
    BY <1>0, <2>1, TakingStutters
  <2> QED
    BY <1>1, <2>2 DEF ServerStep
<1>4. CASE UseElem(v)
  <2> DEFINE e == add_used_elem(r, c, BufLen)
  <2>1. Serving(v) /\ start[v] = c
    BY <1>4 DEF UseElem, Serving, RngInv, Progress
  <2>2. vq'[0] = e
    BY <1>0, <1>4, <2>1 DEF UseElem
  <2>3. PendingIn(e, p) = PendingIn(r, p) /\ DoneIn(e, l) = DoneIn(r, l)
    <3> HIDE DEF r, F, p, l, c
    <3> QED
      BY <1>0, <1>2, <2>1, UseElemStutters
  <2> QED
    BY <1>1, <2>2, <2>3 DEF ServerStep
<1>5. CASE UseIdx(v)
  <2> DEFINE e == add_used_idx(r)
  <2>1. Serving(v) /\ UsedAt(r, r.used_idx) = c /\ vq'[0] = e
    BY <1>0, <1>5 DEF UseIdx, Serving, RngInv, Progress
  <2>2. /\ PendingIn(r, p) # <<>> /\ PendingIn(e, p) = Tail(PendingIn(r, p))
        /\ DoneIn(e, l) = Append(DoneIn(r, l), Head(PendingIn(r, p)))
    <3> HIDE DEF r, F, p, l, c
    <3> QED
      BY <1>0, <1>2, <2>1, RingUseIdxServes
  <2> QED
    BY <1>1, <2>1, <2>2 DEF ServerStep
<1>6. CASE ~UseElem(v) /\ ~UseIdx(v)
  BY <1>0, <1>3, <1>6 DEF Update, Nothing, Take, ReadId, Fill, RaiseIrq, Exit, guestVars
<1> QED
  BY <1>4, <1>5, <1>6

LEMMA QueueSteps ==
  ASSUME OneAtATime, RngInv, [Next]_vars
  PROVE  ServerStep(PendingIn(vq[0], posted[0]), DoneIn(vq[0], last_used[0]),
                    PendingIn(vq'[0], posted'[0]), DoneIn(vq'[0], last_used'[0]))
<1>1. CASE UNCHANGED vars
  BY <1>1 DEF ServerStep, vars, guestVars
<1>2. CASE GuestStep
  <2>1. PICK s \in {0, 1} : \E c : Held(s, c)
    BY InCustody
  <2>2. PICK c : Held(s, c)
    BY <2>1
  <2> QED
    BY <1>2, <2>2, OneQueue, GuestServes DEF RngInv, Held
<1>3. ASSUME GuestSetup \/ GuestHandler \/ \E v \in VCpus : GuestPost(v) PROVE GuestStep
  BY <1>3, OneQueue DEF GuestSetup, GuestHandler, GuestPost, GuestStep
<1> QED
  BY <1>1, <1>2, <1>3, CpuServes DEF Next

(* rng.h:41-55: the queue implements the FIFO server for any ring and any  *)
(* placement of the exits.                                                 *)
THEOREM RngImplementsFifo ==
  ASSUME OneAtATime PROVE Spec => Server!SafeSpec
<1> DEFINE P == PendingIn(vq[0], posted[0])
           D == DoneIn(vq[0], last_used[0])
           Mapped == PendingOf(0) = P /\ DoneOf(0) = D
<1>1. RngInv => Mapped
  BY OneQueue, ServerSequences DEF RngInv
<1> HIDE DEF Mapped
<1>2. RngInv' => Mapped'
  BY <1>1, PTL
<1>3. Init => Server!Init
  <2> SUFFICES ASSUME Init PROVE Server!Init
    OBVIOUS
  <2>1. vq[0].used_idx = 0 /\ posted[0] = 0 /\ last_used[0] = 0
    BY OneQueue DEF Init, GuestInit, FreshQueue
  <2>2. 1 .. posted[0] - vq[0].used_idx = {} /\ 1 .. vq[0].used_idx - last_used[0] = {}
    BY <2>1
  <2> QED
    BY <2>2 DEF PendingOf, DoneOf, Server!Init
<1>4. RngInv /\ RngInv' /\ [Next]_vars => [Server!Next]_(Server!vars)
  <2> SUFFICES ASSUME RngInv, RngInv', [Next]_vars
               PROVE  [Server!Next]_(Server!vars)
    OBVIOUS
  <2>1. ServerStep(P, D, P', D')
    BY QueueSteps
  <2>2. ServerStep(PendingOf(0), DoneOf(0), PendingOf(0)', DoneOf(0)')
    BY <1>1, <1>2, <2>1 DEF Mapped
  <2> HIDE DEF P, D
  <2> QED
    BY <2>2 DEF ServerStep, IsIn, Server!Contains, Server!Next, Server!Submit,
                Server!Serve, Server!Collect, Server!vars
<1>5. RngInv /\ [Next]_vars => RngInv'
  BY RngInvNext
<1> QED
  BY <1>3, <1>4, <1>5, RngInvInit, PTL DEF Spec, Server!SafeSpec

=============================================================================
