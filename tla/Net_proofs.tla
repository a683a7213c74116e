------------------------------ MODULE Net_proofs ------------------------------
(***************************************************************************)
(* Theorems about the network device of Net, for every value of its        *)
(* constants.  Each thread has its own queue, so each keeps an invariant   *)
(* of its own (RxPart, TxPart: who holds the queue's chains); the line and *)
(* the handler they share have theirs (LineInv, HandlerInv); and RxOrder   *)
(* and TxOrder follow the frames from one side to the other.               *)
(***************************************************************************)
EXTENDS Net, Rings_proofs

USE DEF rx_queue, tx_queue

(* The device has these two queues. *)
LEMMA TwoQueues ==
  Queues = {0, 1} /\ 0 \in Queues /\ 1 \in Queues
  BY NetConstants DEF NetConstants, Queues

LEMMA Lengths ==
  /\ FrameLen \in Nat /\ ChainLen \in Nat /\ IdxMod * IdxMod - 1 \in Nat
  /\ MaxFrames \in Nat /\ MaxPosts \in Nat
<1>1. \A n \in Nat \ {0} : n * n - 1 \in Nat
  OBVIOUS
<1> QED
  BY <1>1, NetConstants, GuestConstants, RingSizes DEF NetConstants, GuestConstants

-----------------------------------------------------------------------------
(* Types, and who holds a chain                                            *)

RxServing == rpc \in {"poll", "copy", "elem", "idx"}
TxServing == tpc \in {"copy", "write", "elem", "idx"}

RxCustody == Custody(vq[0], free[0], posted[0], last_used[0], IF RxServing THEN 1 ELSE 0, rcur)
TxCustody == Custody(vq[1], free[1], posted[1], last_used[1], IF TxServing THEN 1 ELSE 0, tcur)

(* Before the index moves the element of the chain being served is in the  *)
(* slot behind those the driver may read.                                  *)
RxPart ==
  /\ rpc \in Pc \ {"write"}
  /\ rcur \in Heads
  /\ rlen \in {0, FrameLen, ChainLen}
  /\ rpc # "next" => vq[0].ready
  /\ RxCustody
  /\ rpc = "idx" => UsedAt(vq[0], vq[0].used_idx) = rcur

TxPart ==
  /\ tpc \in Pc \ {"poll"}
  /\ tcur \in Heads
  /\ tlen \in {0, FrameLen, IdxMod * IdxMod - 1}
  /\ tpc # "next" => vq[1].ready
  /\ TxCustody
  /\ tpc = "idx" => UsedAt(vq[1], vq[1].used_idx) = tcur

(* The frames under way. *)
FrameTypes ==
  /\ rbuf \in 0 .. MaxFrames
  /\ arrived \in 0 .. MaxFrames
  /\ tap \in Seq(1 .. MaxFrames)
  /\ buf \in [Queues -> [Heads -> Nat]]
  /\ failed \in [Queues -> Nat]

PartsInv == GuestInv /\ RxPart /\ TxPart /\ FrameTypes

LEMMA PartsInvInit == Init => PartsInv
<1> SUFFICES ASSUME Init PROVE PartsInv
  OBVIOUS
<1>1. GuestInv
  BY GuestInvInit DEF Init
<1>2. /\ vq[0] = FreshQueue /\ free[0] = Heads /\ posted[0] = 0 /\ last_used[0] = 0
      /\ vq[1] = FreshQueue /\ free[1] = Heads /\ posted[1] = 0 /\ last_used[1] = 0
  BY TwoQueues DEF Init, GuestInit
<1>3. 0 \in Heads
  BY RingSizes DEF Heads
<1>4. RxCustody /\ TxCustody
  BY <1>2, CustodyOfFresh DEF Init, RxCustody, TxCustody, RxServing, TxServing
<1>5. RxPart /\ TxPart
  BY <1>3, <1>4 DEF Init, RxPart, TxPart, Pc
<1>6. FrameTypes
  <2>1. 0 \in 0 .. MaxFrames /\ <<>> \in Seq(1 .. MaxFrames)
    BY Lengths
  <2> QED
    BY <2>1 DEF Init, FrameTypes
<1> QED
  BY <1>1, <1>5, <1>6 DEF PartsInv

(* The guest's steps. *)
LEMMA PartsGuest ==
  ASSUME PartsInv, GuestStep, UNCHANGED <<rxVars, txVars>>
  PROVE  GuestInv' /\ RxPart' /\ TxPart'
<1>1. GuestInv'
  BY GuestInvStep DEF PartsInv
<1>2. UNCHANGED <<rpc, rcur, rlen, tpc, tcur, tlen, RxServing, TxServing>>
  BY DEF rxVars, txVars, RxServing, TxServing
<1>3. RxPart'
  <2> DEFINE s == IF RxServing THEN 1 ELSE 0
  <2>0. s \in {0, 1} /\ s' = s /\ 0 \in Queues
    BY <1>2, TwoQueues
  <2>1. Custody(vq[0], free[0], posted[0], last_used[0], s, rcur)
    BY DEF PartsInv, RxPart, RxCustody
  <2> HIDE DEF s
  <2>2. /\ Custody(vq'[0], free'[0], posted'[0], last_used'[0], s, rcur)
        /\ vq'[0].used_ring = vq[0].used_ring /\ vq'[0].used_idx = vq[0].used_idx
        /\ vq[0].ready => vq'[0].ready
    BY <2>0, <2>1, GuestCustody DEF PartsInv
  <2>3. RxCustody'
    BY <1>2, <2>0, <2>2 DEF RxCustody, s
  <2> QED
    BY <1>2, <2>2, <2>3 DEF PartsInv, RxPart, UsedAt
<1>4. TxPart'
  <2> DEFINE s == IF TxServing THEN 1 ELSE 0
  <2>0. s \in {0, 1} /\ s' = s /\ 1 \in Queues
    BY <1>2, TwoQueues
  <2>1. Custody(vq[1], free[1], posted[1], last_used[1], s, tcur)
    BY DEF PartsInv, TxPart, TxCustody
  <2> HIDE DEF s
  <2>2. /\ Custody(vq'[1], free'[1], posted'[1], last_used'[1], s, tcur)
        /\ vq'[1].used_ring = vq[1].used_ring /\ vq'[1].used_idx = vq[1].used_idx
        /\ vq[1].ready => vq'[1].ready
    BY <2>0, <2>1, GuestCustody DEF PartsInv
  <2>3. TxCustody'
    BY <1>2, <2>0, <2>2 DEF TxCustody, s
  <2> QED
    BY <1>2, <2>2, <2>3 DEF PartsInv, TxPart, UsedAt
<1> QED
  BY <1>1, <1>3, <1>4

(* The steps of run_rx; they leave run_tx and its queue alone. *)
LEMMA RxSteps ==
  ASSUME PartsInv, Rx
  PROVE  /\ GuestInv' /\ RxPart' /\ FrameTypes'
         /\ UNCHANGED <<gpc, scan, last_used, free, posted, txVars, arrived, wire>>
         /\ vq'[1] = vq[1] /\ buf'[1] = buf[1] /\ failed'[1] = failed[1]
<1> DEFINE r == vq[0]
           F == free[0]
           p == posted[0]
           l == last_used[0]
<1>0. /\ 0 \in Queues /\ 1 \in Queues /\ vq \in [Queues -> Queue] /\ r \in Queue /\ RingsHoldHeads(r)
      /\ p \in Nat /\ l \in Nat /\ (r.ready => r \in ProgrammedQueue)
  BY TwoQueues, GuestTypes DEF PartsInv, GuestInv
<1>a. GuestInv /\ RxPart /\ FrameTypes
  BY DEF PartsInv
<1>b. UNCHANGED <<gpc, scan, last_used, free, posted, txVars, arrived, wire>>
  BY DEF Rx, RxTake, RxTimeout, RxRead, RxCopy, RxUseElem, RxUseIdx, RxRaiseIrq,
         guestVars, tapVars
<1>c. UNCHANGED <<F, p, l>>
  BY <1>b
<1>d. rpc \in {"poll", "copy", "elem", "idx"} =>
        r.ready /\ r \in ProgrammedQueue /\ Custody(r, F, p, l, 1, rcur)
  BY <1>0, <1>a DEF RxPart, RxCustody, RxServing
<1>1. CASE RxTake
  <2>1. r.ready /\ r \in ProgrammedQueue /\ has_next(r)
    BY <1>0, <1>1 DEF RxTake, has_next
  <2>2. Custody(r, F, p, l, 0, rcur)
    BY <1>1, <1>a DEF RxTake, RxPart, RxCustody, RxServing
  <2> DEFINE e == next(r)
             c == AvailAt(r, r.last_avail)
  <2>3. vq' = [vq EXCEPT ![0] = e] /\ UNCHANGED <<irq, buf, failed, rbuf, tap, rlen>>
    BY <1>1 DEF RxTake, tapVars
  <2>4. e \in ProgrammedQueue /\ RingsHoldHeads(e) /\ e.ready
    <3>1. e.ready
      BY <1>0, <2>1 DEF next, Queue
    <3> QED
      BY <1>0, <2>1, <3>1, NextQueue
  <2>5. Custody(e, F, p, l, 1, c) /\ avail_id(e) = c
    <3> HIDE DEF r, F, p, l
    <3> QED
      BY <1>0, <2>1, <2>2, CustodyTake
  <2>6. avail_id(e) \in Heads
    BY <2>4, AvailIdIsHead
  <2> HIDE DEF e, c
  <2>7. GuestInv' /\ vq'[0] = e /\ \A j \in Queues : j # 0 => vq'[j] = vq[j]
    BY <1>0, <1>a, <1>b, <2>3, <2>4, DeviceStepTyped
  <2>8. rpc' = "poll" /\ rcur' = avail_id(e)
    BY <1>1, <2>7 DEF RxTake
  <2>9. RxPart'
    <3>1. RxCustody'
      BY <1>c, <2>5, <2>7, <2>8 DEF RxCustody, RxServing
    <3> QED
      BY <1>a, <2>3, <2>4, <2>6, <2>7, <2>8, <3>1 DEF RxPart, Pc
  <2> QED
    BY <1>0, <1>a, <1>b, <2>3, <2>7, <2>9 DEF FrameTypes
<1>2. CASE RxTimeout
  <2> DEFINE e == pop_back(r)
  <2>1. r.ready /\ r \in ProgrammedQueue /\ Custody(r, F, p, l, 1, rcur)
    BY <1>d, <1>2 DEF RxTimeout
  <2>2. vq' = [vq EXCEPT ![0] = e] /\ rpc' = "next"
        /\ UNCHANGED <<irq, buf, failed, rbuf, tap, rlen, rcur>>
    BY <1>2 DEF RxTimeout, tapVars
  <2>3. Custody(e, F, p, l, 0, rcur) /\ e \in ProgrammedQueue
    <3> HIDE DEF r, F, p, l
    <3> QED
      BY <1>0, <2>1, CustodyBack
  <2>4. e.ready /\ RingsHoldHeads(e)
    BY <1>0, <2>1 DEF pop_back, Queue, RingsHoldHeads
  <2> HIDE DEF e
  <2>5. GuestInv' /\ vq'[0] = e /\ \A j \in Queues : j # 0 => vq'[j] = vq[j]
    BY <1>0, <1>a, <1>b, <2>2, <2>3, <2>4, DeviceStepTyped
  <2>6. RxPart'
    <3>1. RxCustody'
      BY <1>c, <2>2, <2>3, <2>5 DEF RxCustody, RxServing
    <3> QED
      BY <1>a, <2>2, <2>5, <3>1 DEF RxPart, Pc
  <2> QED
    BY <1>0, <1>a, <1>b, <2>2, <2>5, <2>6 DEF FrameTypes
<1>3. CASE \E ok \in {TRUE, ~IoErrors} : RxRead(ok)
  <2>1. PICK ok \in {TRUE, ~IoErrors} : RxRead(ok)
    BY <1>3
  <2>2. /\ UNCHANGED <<vq, irq, rcur, buf>> /\ rpc = "poll" /\ rpc' = "copy" /\ tap # <<>>
        /\ failed' = failed \/ failed' = [failed EXCEPT ![0] = failed[0] + 1]
        /\ rlen' \in {0, FrameLen, ChainLen}
        /\ \/ rbuf' = Head(tap) /\ tap' = Tail(tap)
           \/ rbuf' = rbuf /\ tap' = tap
    BY <2>1 DEF RxRead, guestVars
  <2>3. FrameTypes'
    <3>1. tap \in Seq(1 .. MaxFrames) /\ Head(tap) \in 1 .. MaxFrames /\ Tail(tap) \in Seq(1 .. MaxFrames)
      BY <1>a, <2>2, HeadTailProperties DEF FrameTypes
    <3>2. rbuf' \in 0 .. MaxFrames /\ tap' \in Seq(1 .. MaxFrames)
      <4>1. rbuf \in 0 .. MaxFrames /\ \A n \in 1 .. MaxFrames : n \in 0 .. MaxFrames
        BY <1>a, Lengths DEF FrameTypes
      <4> HIDE DEF r, F, p, l
      <4> QED
        BY <2>2, <3>1, <4>1, Zenon
    <3>3. failed' \in [Queues -> Nat]
      <4>1. failed \in [Queues -> Nat] /\ failed[0] + 1 \in Nat
        BY <1>0, <1>a DEF FrameTypes
      <4> HIDE DEF r, F, p, l
      <4> QED
        BY <2>2, <4>1, Zenon
    <3> QED
      BY <1>a, <1>b, <2>2, <3>2, <3>3 DEF FrameTypes
  <2>4. GuestInv'
    BY <1>a, <1>b, <2>2 DEF GuestInv, GuestTypeOK
  <2>5. RxPart'
    BY <1>a, <1>b, <2>2 DEF RxPart, RxCustody, RxServing, Pc
  <2> QED
    BY <1>0, <1>a, <1>b, <2>2, <2>3, <2>4, <2>5 DEF FrameTypes
<1>4. CASE RxCopy
  <2>1. r.ready /\ r \in ProgrammedQueue /\ Custody(r, F, p, l, 1, rcur)
    BY <1>d, <1>4 DEF RxCopy
  <2>2. rcur' = rcur
    <3>1. avail_id(r) = rcur
      <4> HIDE DEF r, F, p, l
      <4> QED
        BY <2>1, CustodyId
    <3> QED
      BY <1>4, <3>1 DEF RxCopy
  <2>3. UNCHANGED <<vq, irq, rlen, rbuf, tap, failed>> /\ rpc = "copy" /\ rpc' = "elem"
        /\ buf' = [buf EXCEPT ![0][rcur] = rbuf]
    BY <1>4 DEF RxCopy, guestVars, tapVars
  <2>4. FrameTypes' /\ buf'[1] = buf[1]
    <3>1. rbuf \in Nat /\ rcur \in Heads
      BY <1>a, Lengths DEF FrameTypes, RxPart
    <3> QED
      BY <1>0, <1>a, <1>b, <2>3, <3>1 DEF FrameTypes
  <2>5. GuestInv'
    BY <1>a, <1>b, <2>3 DEF GuestInv, GuestTypeOK
  <2>6. RxPart'
    BY <1>a, <1>b, <2>2, <2>3 DEF RxPart, RxCustody, RxServing, Pc
  <2> QED
    BY <1>0, <1>a, <1>b, <2>3, <2>4, <2>5, <2>6
<1>5. CASE RxUseElem
  <2> DEFINE e == add_used_elem(r, rcur, rlen)
  <2>1. r.ready /\ r \in ProgrammedQueue /\ Custody(r, F, p, l, 1, rcur)
    BY <1>d, <1>5 DEF RxUseElem
  <2>2. vq' = [vq EXCEPT ![0] = e] /\ rpc = "elem" /\ rpc' = "idx"
        /\ UNCHANGED <<irq, buf, failed, rbuf, tap, rlen, rcur>>
    BY <1>5 DEF RxUseElem, tapVars
  <2>3. rcur \in Heads /\ rlen \in Nat
    BY <1>a, Lengths DEF RxPart
  <2>4. e \in ProgrammedQueue /\ RingsHoldHeads(e)
    BY <1>0, <2>1, <2>3, AddUsedElemQueue
  <2>5. e.ready /\ e.used_idx = r.used_idx
    BY <1>0, <2>1 DEF add_used_elem, Queue
  <2>6. Custody(e, F, p, l, 1, rcur) /\ UsedAt(e, r.used_idx) = rcur
    <3> HIDE DEF r, F, p, l
    <3> QED
      BY <1>0, <2>1, CustodyElem
  <2> HIDE DEF e
  <2>7. GuestInv' /\ vq'[0] = e /\ \A j \in Queues : j # 0 => vq'[j] = vq[j]
    BY <1>0, <1>a, <1>b, <2>2, <2>4, <2>5, DeviceStepTyped
  <2>8. RxPart'
    <3>1. RxCustody'
      BY <1>c, <2>2, <2>6, <2>7 DEF RxCustody, RxServing
    <3> QED
      BY <1>a, <2>2, <2>5, <2>6, <2>7, <3>1 DEF RxPart, Pc
  <2> QED
    BY <1>0, <1>a, <1>b, <2>2, <2>7, <2>8 DEF FrameTypes
<1>6. CASE RxUseIdx
  <2> DEFINE e == add_used_idx(r)
  <2>1. r.ready /\ r \in ProgrammedQueue /\ Custody(r, F, p, l, 1, rcur) /\ UsedAt(r, r.used_idx) = rcur
    BY <1>a, <1>d, <1>6 DEF RxUseIdx, RxPart
  <2>2. vq' = [vq EXCEPT ![0] = e] /\ rpc = "idx" /\ rpc' = "irq"
        /\ UNCHANGED <<irq, buf, failed, rbuf, tap, rlen, rcur>>
    BY <1>6 DEF RxUseIdx, tapVars
  <2>3. e \in ProgrammedQueue /\ RingsHoldHeads(e)
    BY <1>0, <2>1, AddUsedIdxQueue
  <2>4. e.ready
    BY <1>0, <2>1 DEF add_used_idx, Queue
  <2>5. Custody(e, F, p, l, 0, rcur)
    <3> HIDE DEF r, F, p, l
    <3> QED
      BY <1>0, <2>1, CustodyReturn
  <2> HIDE DEF e
  <2>6. GuestInv' /\ vq'[0] = e /\ \A j \in Queues : j # 0 => vq'[j] = vq[j]
    BY <1>0, <1>a, <1>b, <2>2, <2>3, <2>4, DeviceStepTyped
  <2>7. RxPart'
    <3>1. RxCustody'
      BY <1>c, <2>2, <2>5, <2>6 DEF RxCustody, RxServing
    <3> QED
      BY <1>a, <2>2, <2>4, <2>6, <3>1 DEF RxPart, Pc
  <2> QED
    BY <1>0, <1>a, <1>b, <2>2, <2>6, <2>7 DEF FrameTypes
<1>7. CASE RxRaiseIrq
  <2>1. /\ irq' = set_level(irq, TRUE) /\ rpc = "irq" /\ rpc' = "next"
        /\ UNCHANGED <<vq, buf, failed, rbuf, tap, rlen, rcur>>
    BY <1>7 DEF RxRaiseIrq, tapVars
  <2>2. GuestInv'
    BY <1>a, <1>b, <2>1, RaiseTyped
  <2>3. RxPart'
    BY <1>a, <1>b, <2>1 DEF RxPart, RxCustody, RxServing, Pc
  <2> QED
    BY <1>0, <1>a, <1>b, <2>1, <2>2, <2>3 DEF FrameTypes
<1> QED
  BY <1>1, <1>2, <1>3, <1>4, <1>5, <1>6, <1>7 DEF Rx

(* The steps of run_tx; they leave run_rx and its queue alone. *)
LEMMA TxSteps ==
  ASSUME PartsInv, Tx
  PROVE  /\ GuestInv' /\ TxPart' /\ FrameTypes'
         /\ UNCHANGED <<gpc, scan, last_used, free, posted, rxVars, arrived, tap, buf>>
         /\ vq'[0] = vq[0] /\ failed'[0] = failed[0]
<1> DEFINE r == vq[1]
           F == free[1]
           p == posted[1]
           l == last_used[1]
<1>0. /\ 0 \in Queues /\ 1 \in Queues /\ vq \in [Queues -> Queue] /\ r \in Queue /\ RingsHoldHeads(r)
      /\ p \in Nat /\ l \in Nat /\ (r.ready => r \in ProgrammedQueue)
  BY TwoQueues, GuestTypes DEF PartsInv, GuestInv
<1>a. GuestInv /\ TxPart /\ FrameTypes
  BY DEF PartsInv
<1>b. UNCHANGED <<gpc, scan, last_used, free, posted, rxVars, arrived, tap, buf>>
  BY DEF Tx, TxTake, TxCopy, TxWrite, TxUseElem, TxUseIdx, TxRaiseIrq, guestVars, tapVars
<1>c. UNCHANGED <<F, p, l>>
  BY <1>b
<1>d. tpc \in {"copy", "write", "elem", "idx"} =>
        r.ready /\ r \in ProgrammedQueue /\ Custody(r, F, p, l, 1, tcur)
  BY <1>0, <1>a DEF TxPart, TxCustody, TxServing
<1>e. failed' = failed => FrameTypes'
  BY <1>a, <1>b DEF FrameTypes, rxVars
<1>1. CASE TxTake
  <2>1. r.ready /\ r \in ProgrammedQueue /\ has_next(r)
    BY <1>0, <1>1 DEF TxTake, has_next
  <2>2. Custody(r, F, p, l, 0, tcur)
    BY <1>1, <1>a DEF TxTake, TxPart, TxCustody, TxServing
  <2> DEFINE e == next(r)
             c == AvailAt(r, r.last_avail)
  <2>3. vq' = [vq EXCEPT ![1] = e] /\ UNCHANGED <<irq, failed, tbuf, tlen>>
    BY <1>1 DEF TxTake
  <2>4. e \in ProgrammedQueue /\ RingsHoldHeads(e) /\ e.ready
    <3>1. e.ready
      BY <1>0, <2>1 DEF next, Queue
    <3> QED
      BY <1>0, <2>1, <3>1, NextQueue
  <2>5. Custody(e, F, p, l, 1, c) /\ avail_id(e) = c
    <3> HIDE DEF r, F, p, l
    <3> QED
      BY <1>0, <2>1, <2>2, CustodyTake
  <2>6. avail_id(e) \in Heads
    BY <2>4, AvailIdIsHead
  <2> HIDE DEF e, c
  <2>7. GuestInv' /\ vq'[1] = e /\ \A j \in Queues : j # 1 => vq'[j] = vq[j]
    BY <1>0, <1>a, <1>b, <2>3, <2>4, DeviceStepTyped
  <2>8. tpc' = "copy" /\ tcur' = avail_id(e)
    BY <1>1, <2>7 DEF TxTake
  <2>9. TxPart'
    <3>1. TxCustody'
      BY <1>c, <2>5, <2>7, <2>8 DEF TxCustody, TxServing
    <3> QED
      BY <1>a, <2>3, <2>4, <2>6, <2>7, <2>8, <3>1 DEF TxPart, Pc
  <2> QED
    BY <1>0, <1>b, <1>e, <2>3, <2>7, <2>9
<1>2. CASE TxCopy
  <2>1. r.ready /\ r \in ProgrammedQueue /\ Custody(r, F, p, l, 1, tcur)
    BY <1>d, <1>2 DEF TxCopy
  <2>2. tcur' = tcur
    <3>1. avail_id(r) = tcur
      <4> HIDE DEF r, F, p, l
      <4> QED
        BY <2>1, CustodyId
    <3> QED
      BY <1>2, <3>1 DEF TxCopy
  <2>3. UNCHANGED <<vq, irq, tlen, failed>> /\ tpc = "copy" /\ tpc' = "write"
    BY <1>2 DEF TxCopy, guestVars
  <2>4. GuestInv'
    BY <1>a, <1>b, <2>3 DEF GuestInv, GuestTypeOK
  <2>5. TxPart'
    BY <1>a, <1>b, <2>2, <2>3 DEF TxPart, TxCustody, TxServing, Pc
  <2> QED
    BY <1>0, <1>b, <1>e, <2>3, <2>4, <2>5
<1>3. CASE \E ok \in {TRUE, ~IoErrors} : TxWrite(ok)
  <2>1. PICK ok \in {TRUE, ~IoErrors} : TxWrite(ok)
    BY <1>3
  <2>2. /\ UNCHANGED <<vq, irq, tcur>> /\ tpc = "write" /\ tpc' = "elem"
        /\ failed' = failed \/ failed' = [failed EXCEPT ![1] = failed[1] + 1]
        /\ tlen' = FrameLen \/ tlen' = (0 - 1) % (IdxMod * IdxMod)
    BY <2>1 DEF TxWrite, guestVars
  <2>3. (0 - 1) % (IdxMod * IdxMod) = IdxMod * IdxMod - 1
    <3>1. \A n \in Nat \ {0} : n * n \in Nat \ {0} /\ (0 - 1) % n = n - 1
      OBVIOUS
    <3>2. IdxMod * IdxMod \in Nat \ {0}
      BY <3>1, RingSizes
    <3> QED
      BY <3>1, <3>2
  <2>4. tlen' \in {0, FrameLen, IdxMod * IdxMod - 1}
    BY <2>2, <2>3
  <2>5. failed' \in [Queues -> Nat] /\ failed'[0] = failed[0]
    <3>1. failed \in [Queues -> Nat] /\ failed[1] + 1 \in Nat
      BY <1>0, <1>a DEF FrameTypes
    <3>2. CASE failed' = failed
      BY <3>1, <3>2
    <3>3. CASE failed' = [failed EXCEPT ![1] = failed[1] + 1]
      <4>1. failed' \in [Queues -> Nat]
        BY <3>1, <3>3, Zenon
      <4>2. failed'[0] = failed[0]
        BY <1>0, <3>1, <3>3
      <4> QED
        BY <4>1, <4>2
    <3> QED
      BY <2>2, <3>2, <3>3
  <2>6. FrameTypes'
    BY <1>a, <1>b, <2>5 DEF FrameTypes, rxVars
  <2>7. GuestInv'
    BY <1>a, <1>b, <2>2 DEF GuestInv, GuestTypeOK
  <2>8. TxPart'
    BY <1>a, <1>b, <2>2, <2>4 DEF TxPart, TxCustody, TxServing, Pc
  <2> QED
    BY <1>b, <2>2, <2>5, <2>6, <2>7, <2>8
<1>4. CASE TxUseElem
  <2> DEFINE e == add_used_elem(r, tcur, tlen)
  <2>1. r.ready /\ r \in ProgrammedQueue /\ Custody(r, F, p, l, 1, tcur)
    BY <1>d, <1>4 DEF TxUseElem
  <2>2. vq' = [vq EXCEPT ![1] = e] /\ tpc = "elem" /\ tpc' = "idx"
        /\ UNCHANGED <<irq, failed, tlen, tcur>>
    BY <1>4 DEF TxUseElem
  <2>3. tcur \in Heads /\ tlen \in Nat
    BY <1>a, Lengths DEF TxPart
  <2>4. e \in ProgrammedQueue /\ RingsHoldHeads(e)
    BY <1>0, <2>1, <2>3, AddUsedElemQueue
  <2>5. e.ready /\ e.used_idx = r.used_idx
    BY <1>0, <2>1 DEF add_used_elem, Queue
  <2>6. Custody(e, F, p, l, 1, tcur) /\ UsedAt(e, r.used_idx) = tcur
    <3> HIDE DEF r, F, p, l
    <3> QED
      BY <1>0, <2>1, CustodyElem
  <2> HIDE DEF e
  <2>7. GuestInv' /\ vq'[1] = e /\ \A j \in Queues : j # 1 => vq'[j] = vq[j]
    BY <1>0, <1>a, <1>b, <2>2, <2>4, <2>5, DeviceStepTyped
  <2>8. TxPart'
    <3>1. TxCustody'
      BY <1>c, <2>2, <2>6, <2>7 DEF TxCustody, TxServing
    <3> QED
      BY <1>a, <2>2, <2>5, <2>6, <2>7, <3>1 DEF TxPart, Pc
  <2> QED
    BY <1>0, <1>b, <1>e, <2>2, <2>7, <2>8
<1>5. CASE TxUseIdx
  <2> DEFINE e == add_used_idx(r)
  <2>1. r.ready /\ r \in ProgrammedQueue /\ Custody(r, F, p, l, 1, tcur) /\ UsedAt(r, r.used_idx) = tcur
    BY <1>a, <1>d, <1>5 DEF TxUseIdx, TxPart
  <2>2. vq' = [vq EXCEPT ![1] = e] /\ tpc = "idx" /\ tpc' = "irq"
        /\ UNCHANGED <<irq, failed, tlen, tcur>>
    BY <1>5 DEF TxUseIdx
  <2>3. e \in ProgrammedQueue /\ RingsHoldHeads(e)
    BY <1>0, <2>1, AddUsedIdxQueue
  <2>4. e.ready
    BY <1>0, <2>1 DEF add_used_idx, Queue
  <2>5. Custody(e, F, p, l, 0, tcur)
    <3> HIDE DEF r, F, p, l
    <3> QED
      BY <1>0, <2>1, CustodyReturn
  <2> HIDE DEF e
  <2>6. GuestInv' /\ vq'[1] = e /\ \A j \in Queues : j # 1 => vq'[j] = vq[j]
    BY <1>0, <1>a, <1>b, <2>2, <2>3, <2>4, DeviceStepTyped
  <2>7. TxPart'
    <3>1. TxCustody'
      BY <1>c, <2>2, <2>5, <2>6 DEF TxCustody, TxServing
    <3> QED
      BY <1>a, <2>2, <2>4, <2>6, <3>1 DEF TxPart, Pc
  <2> QED
    BY <1>0, <1>b, <1>e, <2>2, <2>6, <2>7
<1>6. CASE TxRaiseIrq
  <2>1. /\ irq' = set_level(irq, TRUE) /\ tpc = "irq" /\ tpc' = "next"
        /\ UNCHANGED <<vq, failed, tlen, tcur>>
    BY <1>6 DEF TxRaiseIrq
  <2>2. GuestInv'
    BY <1>a, <1>b, <2>1, RaiseTyped
  <2>3. TxPart'
    BY <1>a, <1>b, <2>1 DEF TxPart, TxCustody, TxServing, Pc
  <2> QED
    BY <1>0, <1>b, <1>e, <2>1, <2>2, <2>3
<1> QED
  BY <1>1, <1>2, <1>3, <1>4, <1>5, <1>6 DEF Tx

(* What the driver does to a queue is a step of the guest. *)
LEMMA GuestActions ==
  /\ GuestSetup => \E i \in Queues : SetupQueue(i)
  /\ GuestPost => \E i \in Queues : \E h \in free[i] :
       /\ Post(i, h)
       /\ buf' = [buf EXCEPT ![i][h] = IF i = 1 THEN posted'[i] ELSE 0]
       /\ UNCHANGED <<rxVars, txVars, tapVars, failed>>
  /\ GuestSetup \/ GuestHandler => UNCHANGED <<rxVars, txVars, tapVars, buf, failed>>
  /\ GuestSetup \/ GuestPost \/ GuestHandler => GuestStep
  BY DEF GuestSetup, GuestPost, GuestHandler, GuestStep

(* PartsInv is inductive. *)
LEMMA PartsInvNext == PartsInv /\ [Next]_vars => PartsInv'
<1> SUFFICES ASSUME PartsInv, [Next]_vars PROVE PartsInv'
  OBVIOUS
<1>1. CASE UNCHANGED vars \/ Sleep
  <2>1. UNCHANGED vars
    BY <1>1 DEF Sleep
  <2> QED
    BY <2>1 DEF vars, guestVars, rxVars, txVars, tapVars, PartsInv, GuestInv, GuestTypeOK,
                RxPart, TxPart, FrameTypes, RxCustody, TxCustody, RxServing, TxServing
<1>2. CASE Arrive
  <2>1. UNCHANGED <<guestVars, rxVars, txVars, buf, failed>>
    BY <1>2 DEF Arrive
  <2>2. arrived' \in 1 .. MaxFrames /\ tap' = Append(tap, arrived')
    BY <1>2, Lengths DEF Arrive, PartsInv, FrameTypes
  <2>3. tap' \in Seq(1 .. MaxFrames)
    BY <2>2, AppendProperties DEF PartsInv, FrameTypes
  <2>4. FrameTypes'
    BY <2>1, <2>2, <2>3, Lengths DEF PartsInv, FrameTypes, rxVars
  <2> QED
    BY <2>1, <2>4 DEF guestVars, rxVars, txVars, PartsInv, GuestInv, GuestTypeOK,
                      RxPart, TxPart, RxCustody, TxCustody, RxServing, TxServing
<1>3. CASE GuestSetup \/ GuestPost \/ GuestHandler
  <2>1. GuestStep /\ UNCHANGED <<rxVars, txVars>>
    BY <1>3, GuestActions
  <2>2. GuestInv' /\ RxPart' /\ TxPart'
    BY <2>1, PartsGuest
  <2>3. UNCHANGED <<rbuf, arrived, tap, failed>> /\ buf' \in [Queues -> [Heads -> Nat]]
    <3>1. CASE GuestSetup \/ GuestHandler
      BY <3>1, GuestActions DEF rxVars, tapVars, PartsInv, FrameTypes
    <3>2. CASE GuestPost
      <4>1. PICK i \in Queues : \E h \in free[i] :
              /\ Post(i, h)
              /\ buf' = [buf EXCEPT ![i][h] = IF i = 1 THEN posted'[i] ELSE 0]
              /\ UNCHANGED <<rxVars, txVars, tapVars, failed>>
        BY <3>2, GuestActions
      <4>2. posted'[i] \in Nat
        BY <2>2, Lengths DEF GuestInv, GuestTypeOK
      <4>3. UNCHANGED <<rbuf, arrived, tap, failed>>
        BY <4>1 DEF rxVars, tapVars
      <4>4. PICK h \in Heads : buf' = [buf EXCEPT ![i][h] = IF i = 1 THEN posted'[i] ELSE 0]
        BY <4>1 DEF PartsInv, GuestInv, GuestTypeOK
      <4> DEFINE v == IF i = 1 THEN posted'[i] ELSE 0
      <4>5. v \in Nat
        BY <4>2
      <4> HIDE DEF v
      <4>6. buf' = [buf EXCEPT ![i][h] = v]
        BY <4>4 DEF v
      <4>7. buf' \in [Queues -> [Heads -> Nat]]
        BY <4>5, <4>6 DEF PartsInv, FrameTypes
      <4> QED
        BY <4>3, <4>7
    <3> QED
      BY <1>3, <3>1, <3>2
  <2> QED
    BY <2>2, <2>3 DEF PartsInv, FrameTypes
<1>4. CASE Rx
  <2>1. /\ GuestInv' /\ RxPart' /\ FrameTypes' /\ vq'[1] = vq[1]
        /\ UNCHANGED <<last_used, free, posted, tpc, tcur, tlen>>
    BY <1>4, RxSteps DEF txVars
  <2> QED
    BY <2>1 DEF PartsInv, TxPart, TxCustody, TxServing
<1>5. CASE Tx
  <2>1. /\ GuestInv' /\ TxPart' /\ FrameTypes' /\ vq'[0] = vq[0]
        /\ UNCHANGED <<last_used, free, posted, rpc, rcur, rlen>>
    BY <1>5, TxSteps DEF rxVars
  <2> QED
    BY <2>1 DEF PartsInv, RxPart, RxCustody, RxServing
<1> QED
  BY <1>1, <1>2, <1>3, <1>4, <1>5 DEF Next

(* net.h:114-117 and 146: a chain is written or read only while the driver *)
(* has given it away, and a chain that pop_back gave back to the queue is  *)
(* still the device's when it is taken again.                              *)
THEOREM ChainsStayOwned == Spec => []ChainOwnedWhileServed
<1>1. PartsInv => ChainOwnedWhileServed
  BY DEF PartsInv, RxPart, TxPart, RxCustody, TxCustody, RxServing, TxServing,
         Custody, Alone, ChainOwnedWhileServed
<1> QED
  BY <1>1, PartsInvInit, PartsInvNext, PTL DEF Spec

-----------------------------------------------------------------------------
(* The line the two threads share                                          *)

(* It is high while an edge is pending or taken and not acknowledged, and  *)
(* a chain the handler has not reaped is one whose thread is about to      *)
(* raise the line, or one the line is high for, or one the drain loop has  *)
(* yet to come to.                                                         *)
LineInv ==
  IF gpc \in {"status", "ack"}
  THEN irq.level /\ irq.events = 0
  ELSE irq.level <=> irq.events > 0

Noticed(i, pc) ==
  last_used[i] # vq[i].used_idx =>
    \/ pc = "irq"
    \/ irq.level
    \/ gpc \in {"drain", "recheck"} /\ scan <= i

HandlerInv == LineInv /\ Noticed(0, rpc) /\ Noticed(1, tpc)

(* The handler's part. *)
LEMMA HandlerKeepsNotice ==
  ASSUME PartsInv, HandlerInv, Handler, UNCHANGED <<rpc, tpc>>
  PROVE  HandlerInv'
<1>0. /\ irq \in Line /\ scan \in {0, 1} /\ 0 \in Queues /\ 1 \in Queues /\ Queues = {0, 1}
  BY TwoQueues, GuestTypes DEF PartsInv
<1> USE DEF HandlerInv, LineInv, Noticed
<1>1. CASE IrqEntry
  <2>1. irq'.level = irq.level /\ irq'.events = 0
        /\ gpc = "idle" /\ gpc' = "status" /\ irq.events > 0
    BY <1>0, <1>1 DEF IrqEntry, drain_events, Line
  <2>2. UNCHANGED <<vq, scan, last_used>>
    BY <1>1 DEF IrqEntry
  <2> QED
    BY <2>1, <2>2
<1>2. CASE ReadStatus
  BY <1>2 DEF ReadStatus
<1>3. CASE AckIrq
  <2>1. ~irq'.level /\ irq'.events = 0 /\ gpc' = "drain" /\ scan' = 0
    BY <1>0, <1>3 DEF AckIrq, set_level, Line
  <2> QED
    BY <2>1
<1>4. CASE Reap
  <2>1. /\ UNCHANGED <<vq, irq, gpc, scan>> /\ gpc = "drain"
        /\ last_used'[0] = last_used[0] \/ scan = 0
        /\ last_used'[1] = last_used[1] \/ scan <= 1
    BY <1>0, <1>4, ReapSteps DEF PartsInv, Reap
  <2> QED
    BY <2>1
<1>5. CASE PublishEvent
  <2>1. /\ UNCHANGED <<irq, scan, last_used>> /\ gpc = "drain" /\ gpc' = "recheck"
        /\ vq'[0].used_idx = vq[0].used_idx /\ vq'[1].used_idx = vq[1].used_idx
    BY <1>0, <1>5, PublishSteps DEF PartsInv, PublishEvent, SameEntries
  <2> QED
    BY <2>1
<1>6. CASE Recheck
  <2>1. UNCHANGED <<vq, irq, last_used>> /\ gpc = "recheck"
    BY <1>6 DEF Recheck
  <2>2. CASE gpc' = "drain" /\ scan' = scan
    BY <2>1, <2>2
  <2>3. CASE gpc' = "drain" /\ scan = 0 /\ scan' = 1 /\ last_used[0] = vq[0].used_idx
    BY <2>1, <2>3
  <2>4. CASE gpc' = "idle" /\ scan = 1 /\ scan' = 1 /\ last_used[1] = vq[1].used_idx
    BY <2>1, <2>4
  <2> QED
    BY <1>0, <1>6, <2>2, <2>3, <2>4 DEF Recheck
<1> QED
  BY <1>1, <1>2, <1>3, <1>4, <1>5, <1>6 DEF Handler

(* Raising the line never takes an edge away. *)
LEMMA RaisingKeepsEdge ==
  ASSUME NEW l \in Line
  PROVE  /\ set_level(l, TRUE).level
         /\ l.level => set_level(l, TRUE).events = l.events
         /\ ~l.level => set_level(l, TRUE).events > 0
  BY DEF set_level, Line

(* The threads' part, each on its own queue. *)
LEMMA RxKeepsNotice ==
  ASSUME PartsInv, HandlerInv, Rx
  PROVE  HandlerInv'
<1>1. irq \in Line /\ UNCHANGED <<gpc, scan, last_used, tpc>> /\ vq'[1] = vq[1]
  BY RxSteps, GuestTypes DEF PartsInv, txVars
<1>2. vq \in [Queues -> Queue] /\ 0 \in Queues /\ vq[0] \in Queue
  BY TwoQueues, GuestTypes DEF PartsInv
<1> USE DEF HandlerInv, LineInv, Noticed
<1>3. CASE RxRaiseIrq
  <2>1. irq' = set_level(irq, TRUE) /\ vq' = vq
    BY <1>3 DEF RxRaiseIrq
  <2> QED
    BY <1>1, <2>1, RaisingKeepsEdge
<1>4. CASE RxUseIdx
  BY <1>1, <1>4 DEF RxUseIdx
<1>5. CASE ~RxRaiseIrq /\ ~RxUseIdx
  <2>1. irq' = irq /\ rpc # "irq" /\ vq'[0].used_idx = vq[0].used_idx
    BY <1>2, <1>5 DEF Rx, RxTake, RxTimeout, RxRead, RxCopy, RxUseElem, guestVars,
       next, pop_back, add_used_elem, Queue
  <2> QED
    BY <1>1, <2>1
<1> QED
  BY <1>3, <1>4, <1>5

LEMMA TxKeepsNotice ==
  ASSUME PartsInv, HandlerInv, Tx
  PROVE  HandlerInv'
<1>1. irq \in Line /\ UNCHANGED <<gpc, scan, last_used, rpc>> /\ vq'[0] = vq[0]
  BY TxSteps, GuestTypes DEF PartsInv, rxVars
<1>2. vq \in [Queues -> Queue] /\ 1 \in Queues /\ vq[1] \in Queue
  BY TwoQueues, GuestTypes DEF PartsInv
<1> USE DEF HandlerInv, LineInv, Noticed
<1>3. CASE TxRaiseIrq
  <2>1. irq' = set_level(irq, TRUE) /\ vq' = vq
    BY <1>3 DEF TxRaiseIrq
  <2> QED
    BY <1>1, <2>1, RaisingKeepsEdge
<1>4. CASE TxUseIdx
  BY <1>1, <1>4 DEF TxUseIdx
<1>5. CASE ~TxRaiseIrq /\ ~TxUseIdx
  <2>1. irq' = irq /\ tpc # "irq" /\ vq'[1].used_idx = vq[1].used_idx
    BY <1>2, <1>5 DEF Tx, TxTake, TxCopy, TxWrite, TxUseElem, guestVars,
       next, add_used_elem, Queue
  <2> QED
    BY <1>1, <2>1
<1> QED
  BY <1>3, <1>4, <1>5

(* HandlerInv is inductive, given PartsInv. *)
LEMMA HandlerInvNext == PartsInv /\ HandlerInv /\ [Next]_vars => HandlerInv'
<1> SUFFICES ASSUME PartsInv, HandlerInv, [Next]_vars PROVE HandlerInv'
  OBVIOUS
<1>1. CASE UNCHANGED vars \/ Sleep \/ Arrive
  <2>1. UNCHANGED <<vq, irq, gpc, scan, last_used, rpc, tpc>>
    BY <1>1 DEF vars, guestVars, rxVars, txVars, Sleep, Arrive
  <2> QED
    BY <2>1 DEF HandlerInv, LineInv, Noticed
<1>2. CASE GuestSetup \/ GuestPost
  <2>1. /\ UNCHANGED <<irq, gpc, scan, last_used>>
        /\ \A j \in Queues : vq'[j].used_idx = vq[j].used_idx
    <3>1. CASE GuestSetup
      <4>1. PICK i \in Queues : SetupQueue(i)
        BY <3>1, GuestActions
      <4> QED
        BY <4>1, SetupSteps DEF PartsInv, SameEntries
    <3>2. CASE GuestPost
      <4>1. PICK i \in Queues : \E h \in free[i] : Post(i, h)
        BY <3>2, GuestActions
      <4>2. PICK h \in free[i] : Post(i, h)
        BY <4>1
      <4>3. post_avail(vq[i], h).used_idx = vq[i].used_idx
        BY <4>1, GuestTypes DEF PartsInv, post_avail, Queue
      <4> QED
        BY <4>2, <4>3, PostSteps DEF PartsInv
    <3> QED
      BY <1>2, <3>1, <3>2
  <2>2. UNCHANGED <<rpc, tpc>>
    BY <1>2, GuestActions DEF rxVars, txVars
  <2> QED
    BY <2>1, <2>2, TwoQueues DEF HandlerInv, LineInv, Noticed
<1>3. CASE GuestHandler
  <2>1. Handler /\ UNCHANGED <<rpc, tpc>>
    BY <1>3 DEF GuestHandler, rxVars, txVars
  <2> QED
    BY <2>1, HandlerKeepsNotice
<1> QED
  BY <1>1, <1>2, <1>3, RxKeepsNotice, TxKeepsNotice DEF Next

(* net.h:145-146 and 180-181: two threads raise one line and one handler   *)
(* drains both queues, yet no chain stays unnoticed, however the threads   *)
(* and the handler interleave.                                             *)
THEOREM InterruptNotLost == Spec => []NoLostInterrupt
<1>1. Init => HandlerInv
  <2> SUFFICES ASSUME Init PROVE HandlerInv
    OBVIOUS
  <2>1. vq[0].used_idx = 0 /\ vq[1].used_idx = 0 /\ last_used[0] = 0 /\ last_used[1] = 0
    BY TwoQueues DEF Init, GuestInit, FreshQueue
  <2> QED
    BY <2>1 DEF Init, GuestInit, HandlerInv, LineInv, Noticed, LowLine
<1>2. HandlerInv => NoLostInterrupt
  BY DEF HandlerInv, LineInv, Noticed, NoLostInterrupt
<1> QED
  BY <1>1, <1>2, PartsInvInit, PartsInvNext, HandlerInvNext, PTL DEF Spec

-----------------------------------------------------------------------------
(* The frames the guest sends                                              *)

(* The chain at index n of either ring holds frame n+1, and so does the    *)
(* one run_tx is serving, whose buffer is what it is about to write.       *)
TxFilled ==
  /\ \A n \in NotTaken(vq[1], posted[1]) : buf[1][AvailAt(vq[1], n)] = n + 1
  /\ \A n \in NotReaped(vq[1], last_used[1]) : buf[1][UsedAt(vq[1], n)] = n + 1
  /\ TxServing => buf[1][tcur] = vq[1].last_avail
  /\ tpc = "write" => tbuf = vq[1].last_avail

(* A wire w on which frames are in order, up to f of them missing.         *)
Ordered(w, f) ==
  /\ \A k \in DOMAIN w : w[k] \in k .. k + f
  /\ \A j, k \in DOMAIN w : j < k => w[j] < w[k]

(* All frames taken so far are on the wire but for those that failed.      *)
Written ==
  /\ tbuf \in 0 .. MaxPosts
  /\ wire \in Seq(1 .. MaxPosts)
  /\ Ordered(wire, failed[1])
  /\ Len(wire) + failed[1] = vq[1].last_avail - (IF tpc \in {"copy", "write"} THEN 1 ELSE 0)

TxOrder == TxFilled /\ Written

(* What a chain that is with the device holds does not depend on what the  *)
(* driver does with the others.                                            *)
LEMMA TxFilledGuest ==
  ASSUME PartsInv, TxFilled, GuestSetup \/ GuestPost \/ GuestHandler
  PROVE  TxFilled' /\ vq'[1].last_avail = vq[1].last_avail
<1> DEFINE s == IF TxServing THEN 1 ELSE 0
<1>0. /\ s \in {0, 1} /\ 1 \in Queues /\ GuestInv /\ GuestStep
      /\ Custody(vq[1], free[1], posted[1], last_used[1], s, tcur)
      /\ TxServing => s = 1
  BY TwoQueues, GuestActions DEF PartsInv, TxPart, TxCustody
<1>a. UNCHANGED <<tpc, tcur, tbuf, TxServing>>
  BY GuestActions DEF GuestPost, txVars, TxServing
<1>b. /\ posted[1] \in Nat /\ last_used[1] \in Nat /\ vq[1].last_avail \in Nat
      /\ vq[1].used_idx \in Nat /\ tcur \in Heads
      /\ \A n \in NotTaken(vq[1], posted[1]) : n \in Int
      /\ \A n \in NotReaped(vq[1], last_used[1]) : n \in Int
  BY <1>0, GuestTypes DEF NotTaken, NotReaped, PartsInv, TxPart
<1> HIDE DEF s
<1>1. vq'[1].last_avail = vq[1].last_avail
  BY <1>0, GuestCustody
<1>2. /\ \A n \in NotReaped(vq'[1], last_used'[1]) : n \in NotReaped(vq[1], last_used[1])
      /\ \A n \in Int : UsedAt(vq'[1], n) = UsedAt(vq[1], n)
  BY <1>0, ReapedInOrder
<1>3. CASE GuestSetup \/ GuestHandler
  <2>1. buf' = buf /\ ((\E i \in Queues : SetupQueue(i)) \/ Handler)
    BY <1>3, GuestActions DEF GuestHandler
  <2>2. posted'[1] = posted[1] /\ \A n \in Int : AvailAt(vq'[1], n) = AvailAt(vq[1], n)
    BY <1>0, <2>1, AvailKept
  <2>3. NotTaken(vq'[1], posted'[1]) = NotTaken(vq[1], posted[1])
    BY <1>1, <2>2 DEF NotTaken
  <2> QED
    BY <1>a, <1>b, <1>1, <1>2, <2>1, <2>2, <2>3 DEF TxFilled
<1>4. CASE GuestPost
  <2>1. PICK i \in Queues : \E h \in free[i] :
          /\ Post(i, h)
          /\ buf' = [buf EXCEPT ![i][h] = IF i = 1 THEN posted'[i] ELSE 0]
    BY <1>4, GuestActions
  <2>2. PICK h \in free[i] :
          /\ Post(i, h)
          /\ buf' = [buf EXCEPT ![i][h] = IF i = 1 THEN posted'[i] ELSE 0]
    BY <2>1
  <2>3. CASE i # 1
    <3>1. buf'[1] = buf[1]
      BY <1>0, <2>2, <2>3 DEF PartsInv, FrameTypes
    <3>2. vq'[1] = vq[1] /\ posted'[1] = posted[1]
      BY <1>0, <2>2, <2>3, PostSteps
    <3> QED
      BY <1>a, <1>b, <1>1, <1>2, <3>1, <3>2 DEF TxFilled
  <2>4. CASE i = 1
    <3>1. /\ h \in free[1] /\ posted'[1] = posted[1] + 1 /\ h \in Heads
      BY <1>0, <2>2, <2>4, PostSteps
    <3>2. buf'[1][h] = posted[1] + 1 /\ \A d \in Heads : d # h => buf'[1][d] = buf[1][d]
      BY <1>0, <2>2, <2>4, <3>1 DEF PartsInv, FrameTypes
    <3>3. /\ AvailAt(vq'[1], posted[1]) = h
          /\ \A n \in vq[1].used_idx .. posted[1] - 1 : AvailAt(vq'[1], n) = AvailAt(vq[1], n)
          /\ \A n \in NotTaken(vq'[1], posted'[1]) : n \in NotTaken(vq[1], posted[1]) \/ n = posted[1]
      BY <1>0, <2>2, <2>4, PostedBehind
    <3>4. vq[1].last_avail = vq[1].used_idx + s
      BY <1>0 DEF Custody
    <3>5. \A n \in NotTaken(vq[1], posted[1]) : AvailAt(vq'[1], n) = AvailAt(vq[1], n)
      BY <1>0, <1>b, <3>3, <3>4 DEF NotTaken
    <3>6. /\ \A n \in NotTaken(vq[1], posted[1]) : AvailAt(vq[1], n) # h
          /\ \A n \in NotReaped(vq[1], last_used[1]) : UsedAt(vq[1], n) # h
          /\ TxServing => tcur # h
      BY <1>0, <3>1 DEF Custody, Apart, Alone
    <3>7. /\ \A n \in Int : AvailAt(vq[1], n) \in Heads
          /\ \A n \in Int : UsedAt(vq[1], n) \in Heads
      <4>1. vq[1] \in Queue /\ RingsHoldHeads(vq[1])
        BY <1>0, GuestTypes DEF GuestInv
      <4> QED
        BY <4>1, RingFunctions DEF Avails, Useds, Entries
    <3>8. ASSUME NEW n \in NotTaken(vq'[1], posted'[1])
          PROVE  buf'[1][AvailAt(vq'[1], n)] = n + 1
      <4>1. CASE n = posted[1]
        BY <3>2, <3>3, <4>1
      <4>2. CASE n \in NotTaken(vq[1], posted[1])
        <5>1. AvailAt(vq'[1], n) = AvailAt(vq[1], n) /\ AvailAt(vq[1], n) # h
              /\ AvailAt(vq[1], n) \in Heads /\ buf[1][AvailAt(vq[1], n)] = n + 1
          BY <1>b, <3>5, <3>6, <3>7, <4>2 DEF TxFilled
        <5> QED
          BY <3>2, <5>1
      <4> QED
        BY <3>3, <4>1, <4>2
    <3>9. ASSUME NEW n \in NotReaped(vq'[1], last_used'[1])
          PROVE  buf'[1][UsedAt(vq'[1], n)] = n + 1
      <4>1. UsedAt(vq'[1], n) = UsedAt(vq[1], n) /\ UsedAt(vq[1], n) # h
            /\ UsedAt(vq[1], n) \in Heads /\ buf[1][UsedAt(vq[1], n)] = n + 1
        BY <1>b, <1>2, <3>6, <3>7, <3>9 DEF TxFilled
      <4> QED
        BY <3>2, <4>1
    <3>10. TxServing => buf'[1][tcur] = vq[1].last_avail
      BY <1>b, <3>2, <3>6 DEF TxFilled
    <3> QED
      BY <1>a, <1>1, <3>8, <3>9, <3>10 DEF TxFilled
  <2> QED
    BY <2>3, <2>4
<1> QED
  BY <1>3, <1>4

(* The steps of run_tx. *)
LEMMA TxOrderTx ==
  ASSUME PartsInv, TxOrder, Tx
  PROVE  TxOrder'
<1> DEFINE r == vq[1]
           F == free[1]
           p == posted[1]
           l == last_used[1]
<1>0. /\ 1 \in Queues /\ vq \in [Queues -> Queue] /\ r \in Queue
      /\ r.last_avail \in Nat /\ r.used_idx \in Nat /\ p \in Nat /\ p <= MaxPosts /\ l \in Nat
  <2>1. 1 \in Queues /\ p \in 0 .. MaxPosts
    BY TwoQueues, GuestTypes DEF PartsInv
  <2> QED
    BY <2>1, GuestTypes, Lengths DEF PartsInv
<1>a. UNCHANGED <<F, p, l, buf>>
  BY TxSteps
<1>b. /\ \A n \in NotTaken(r, p) : buf[1][AvailAt(r, n)] = n + 1
      /\ \A n \in NotReaped(r, l) : buf[1][UsedAt(r, n)] = n + 1
      /\ TxServing => buf[1][tcur] = r.last_avail
      /\ tpc = "write" => tbuf = r.last_avail
  BY DEF TxOrder, TxFilled
<1>c. Custody(r, F, p, l, IF TxServing THEN 1 ELSE 0, tcur)
  BY DEF PartsInv, TxPart, TxCustody
<1>d. tpc \in {"copy", "write", "elem", "idx"} =>
        r \in ProgrammedQueue /\ Custody(r, F, p, l, 1, tcur)
  BY <1>0, <1>c, GuestTypes DEF PartsInv, TxPart, TxServing
<1>e. r.last_avail <= p
  BY <1>c DEF Custody, Counted
<1>f. Written
  BY DEF TxOrder
<1>1. CASE TxTake
  <2> DEFINE e == next(r)
             c == AvailAt(r, r.last_avail)
  <2>1. has_next(r) /\ vq' = [vq EXCEPT ![1] = e] /\ UNCHANGED <<tbuf, wire, failed>>
        /\ tpc = "next" /\ tpc' = "copy" /\ tcur' = avail_id(vq'[1])
    BY <1>1 DEF TxTake, tapVars
  <2>2. r \in ProgrammedQueue
    BY <1>0, <2>1, GuestTypes DEF PartsInv, has_next
  <2>3. avail_id(e) = c /\ r.last_avail < p
    <3>1. Custody(r, F, p, l, 0, tcur)
      BY <1>c, <2>1 DEF TxServing
    <3> HIDE DEF r, F, p, l
    <3> QED
      BY <1>0, <2>1, <2>2, <3>1, CustodyTake
  <2>4. vq'[1] = e /\ e.last_avail = r.last_avail + 1 /\ e.used_idx = r.used_idx
        /\ e.avail_ring = r.avail_ring /\ e.used_ring = r.used_ring
    BY <1>0, <2>1 DEF next, Queue
  <2> HIDE DEF e, c
  <2>5. /\ \A n \in NotTaken(e, p) : n \in NotTaken(r, p)
        /\ NotReaped(e, l) = NotReaped(r, l) /\ r.last_avail \in NotTaken(r, p)
        /\ \A n : AvailAt(e, n) = AvailAt(r, n) /\ UsedAt(e, n) = UsedAt(r, n)
    BY <1>0, <2>3, <2>4 DEF NotTaken, NotReaped, AvailAt, UsedAt
  <2>6. buf[1][c] = r.last_avail + 1
    BY <1>b, <2>5 DEF c
  <2>7. TxFilled'
    BY <1>a, <1>b, <2>1, <2>3, <2>4, <2>5, <2>6 DEF TxFilled, TxServing
  <2>8. Written'
    <3>1. Len(wire) + failed[1] = r.last_avail
      BY <1>0, <1>f, <2>1 DEF Written
    <3>2. (r.last_avail + 1) - 1 = r.last_avail
      <4> HIDE DEF r, F, p, l
      <4> QED
        BY <1>0
    <3>3. Len(wire) + failed[1] = vq'[1].last_avail - 1
      BY <2>4, <3>1, <3>2
    <3> QED
      BY <1>f, <2>1, <3>3 DEF Written
  <2> QED
    BY <2>7, <2>8 DEF TxOrder
<1>2. CASE TxCopy
  <2>1. r \in ProgrammedQueue /\ Custody(r, F, p, l, 1, tcur)
    BY <1>d, <1>2 DEF TxCopy
  <2>2. avail_id(r) = tcur
    <3> HIDE DEF r, F, p, l
    <3> QED
      BY <2>1, CustodyId
  <2>3. UNCHANGED <<vq, tcur, wire, failed>> /\ tpc = "copy" /\ tpc' = "write"
        /\ tbuf' = buf[1][tcur]
    BY <1>2, <2>2 DEF TxCopy, guestVars, tapVars
  <2>4. tbuf' = r.last_avail /\ tbuf' \in 0 .. MaxPosts
    BY <1>0, <1>b, <1>e, <2>3, Lengths DEF TxServing
  <2>5. TxFilled'
    BY <1>a, <1>b, <2>3, <2>4 DEF TxFilled, TxServing
  <2>6. Written'
    BY <1>f, <2>3, <2>4 DEF Written
  <2> QED
    BY <2>5, <2>6 DEF TxOrder
<1>3. CASE \E ok \in {TRUE, ~IoErrors} : TxWrite(ok)
  <2>1. PICK ok \in {TRUE, ~IoErrors} : TxWrite(ok)
    BY <1>3
  <2>2. /\ UNCHANGED <<vq, tcur, tbuf>> /\ tpc = "write" /\ tpc' = "elem"
        /\ \/ wire' = Append(wire, tbuf) /\ failed' = failed
           \/ wire' = wire /\ failed'[1] = failed[1] + 1
    BY <1>0, <2>1 DEF TxWrite, guestVars, PartsInv, FrameTypes
  <2>3. TxFilled'
    BY <1>a, <1>b, <2>2 DEF TxFilled, TxServing
  <2>4. r.last_avail >= 1 /\ tbuf = r.last_avail /\ tbuf \in 1 .. MaxPosts
    <3>1. r.last_avail = r.used_idx + 1
      BY <1>d, <2>2 DEF Custody
    <3> QED
      BY <1>0, <1>b, <1>e, <2>2, <3>1, Lengths
  <2>5. Written'
    <3>1. /\ wire \in Seq(1 .. MaxPosts) /\ tbuf' \in 0 .. MaxPosts
          /\ Ordered(wire, failed[1]) /\ Len(wire) + failed[1] = r.last_avail - 1
      BY <1>f, <2>2 DEF Written
    <3>2. Len(wire) \in Nat /\ DOMAIN wire = 1 .. Len(wire) /\ failed[1] \in Nat
      BY <1>0, <3>1, LenProperties DEF PartsInv, FrameTypes
    <3>3. CASE wire' = wire /\ failed'[1] = failed[1] + 1
      <4>1. Ordered(wire, failed[1] + 1)
        BY <3>1, <3>2 DEF Ordered
      <4>2. Len(wire) + (failed[1] + 1) = r.last_avail
        <5>1. \A a, b, c \in Nat : a + b = c - 1 => a + (b + 1) = c
          OBVIOUS
        <5> HIDE DEF r, F, p, l
        <5> QED
          BY <1>0, <3>1, <3>2, <5>1
      <4>3. Ordered(wire', failed'[1]) /\ Len(wire') + failed'[1] = r.last_avail
        BY <3>3, <4>1, <4>2
      <4>4. r.last_avail - 0 = r.last_avail
        BY <1>0
      <4> QED
        BY <2>2, <3>1, <3>3, <4>3, <4>4 DEF Written
    <3>4. CASE wire' = Append(wire, tbuf) /\ failed' = failed
      <4>1. /\ wire' \in Seq(1 .. MaxPosts) /\ Len(wire') = Len(wire) + 1
            /\ DOMAIN wire' = 1 .. Len(wire) + 1
            /\ wire'[Len(wire) + 1] = tbuf
            /\ \A k \in 1 .. Len(wire) : wire'[k] = wire[k]
        BY <2>4, <3>1, <3>4, AppendProperties, LenProperties
      <4>2. tbuf = Len(wire) + 1 + failed[1] /\ tbuf \in Nat
        <5>1. \A a, b, c \in Nat : a + b = c - 1 => c = a + 1 + b
          OBVIOUS
        <5>2. tbuf = r.last_avail /\ r.last_avail \in Nat /\ Len(wire) + failed[1] = r.last_avail - 1
          BY <1>0, <2>4, <3>1
        <5> HIDE DEF r, F, p, l
        <5> QED
          BY <3>2, <5>1, <5>2
      <4>3. ASSUME NEW k \in DOMAIN wire' PROVE wire'[k] \in k .. k + failed[1]
        <5>1. CASE k \in 1 .. Len(wire)
          <6>1. wire[k] \in k .. k + failed[1]
            BY <3>1, <3>2, <5>1 DEF Ordered
          <6> QED
            BY <4>1, <5>1, <6>1
        <5>2. CASE k = Len(wire) + 1
          <6>1. wire'[k] = k + failed[1] /\ k \in Nat
            BY <3>2, <4>1, <4>2, <5>2
          <6> QED
            BY <3>2, <6>1
        <5> QED
          BY <3>2, <4>1, <5>1, <5>2
      <4>4. ASSUME NEW j \in DOMAIN wire', NEW k \in DOMAIN wire', j < k
            PROVE  wire'[j] < wire'[k]
        <5>1. j \in 1 .. Len(wire) /\ wire'[j] = wire[j]
          BY <3>2, <4>1, <4>4
        <5>2. CASE k \in 1 .. Len(wire)
          BY <3>1, <3>2, <4>1, <4>4, <5>1, <5>2 DEF Ordered
        <5>3. CASE k = Len(wire) + 1
          <6>1. wire[j] \in j .. j + failed[1]
            BY <3>1, <3>2, <5>1 DEF Ordered
          <6> QED
            BY <3>2, <4>1, <4>2, <5>1, <5>3, <6>1
        <5> QED
          BY <3>2, <4>1, <5>2, <5>3
      <4>5. Len(wire') + failed[1] = r.last_avail
        <5>1. \A a, b, c \in Nat : a + b = c - 1 => (a + 1) + b = c
          OBVIOUS
        <5>2. (Len(wire) + 1) + failed[1] = r.last_avail
          BY <1>0, <3>1, <3>2, <5>1
        <5> QED
          BY <4>1, <5>2
      <4>6. Ordered(wire', failed'[1]) /\ Len(wire') + failed'[1] = r.last_avail
        BY <3>4, <4>3, <4>4, <4>5 DEF Ordered
      <4>7. r.last_avail - 0 = r.last_avail
        BY <1>0
      <4> QED
        BY <2>2, <3>1, <4>1, <4>6, <4>7 DEF Written
    <3> QED
      BY <2>2, <3>3, <3>4
  <2> QED
    BY <2>3, <2>5 DEF TxOrder
<1>4. CASE TxUseElem
  <2> DEFINE e == add_used_elem(r, tcur, tlen)
  <2>1. r \in ProgrammedQueue /\ Custody(r, F, p, l, 1, tcur)
    BY <1>d, <1>4 DEF TxUseElem
  <2>2. vq' = [vq EXCEPT ![1] = e] /\ tpc = "elem" /\ tpc' = "idx"
        /\ UNCHANGED <<tcur, tbuf, wire, failed>>
    BY <1>4 DEF TxUseElem, tapVars
  <2>3. vq'[1] = e /\ e.last_avail = r.last_avail /\ e.used_idx = r.used_idx
    BY <1>0, <2>2 DEF add_used_elem, Queue
  <2>4. \A n \in Int : AvailAt(e, n) = AvailAt(r, n)
    BY <1>0, <2>1, UsedEntries
  <2>5. \A n \in NotReaped(r, l) : UsedAt(e, n) = UsedAt(r, n)
    <3>1. \A n \in Int : n < r.used_idx /\ r.used_idx - n < QueueNum => UsedAt(e, n) = UsedAt(r, n)
      BY <1>0, <2>1, UsedEntries
    <3>2. IsFiniteSet(F) /\ Cardinality(F) + (p - r.last_avail) + 1 + (r.used_idx - l) <= QueueNum
      BY <2>1 DEF Custody, Counted
    <3>3. Cardinality(F) \in Nat
      BY <3>2, FS_CardinalityType
    <3>4. r.used_idx - l < QueueNum
      BY <1>0, <1>e, <3>2, <3>3, RingSizes
    <3> QED
      BY <1>0, <3>1, <3>4, RingSizes DEF NotReaped
  <2> HIDE DEF e
  <2>6. NotTaken(e, p) = NotTaken(r, p) /\ NotReaped(e, l) = NotReaped(r, l)
        /\ \A n \in NotTaken(r, p) : n \in Int
    BY <1>0, <2>3 DEF NotTaken, NotReaped
  <2>7. TxFilled'
    BY <1>a, <1>b, <2>2, <2>3, <2>4, <2>5, <2>6 DEF TxFilled, TxServing
  <2>8. Written'
    BY <1>f, <2>2, <2>3 DEF Written
  <2> QED
    BY <2>7, <2>8 DEF TxOrder
<1>5. CASE TxUseIdx
  <2> DEFINE e == add_used_idx(r)
  <2>1. r \in ProgrammedQueue /\ Custody(r, F, p, l, 1, tcur) /\ UsedAt(r, r.used_idx) = tcur
    BY <1>d, <1>5 DEF TxUseIdx, PartsInv, TxPart
  <2>2. vq' = [vq EXCEPT ![1] = e] /\ tpc = "idx" /\ tpc' = "irq"
        /\ UNCHANGED <<tcur, tbuf, wire, failed>>
    BY <1>5 DEF TxUseIdx, tapVars
  <2>3. e.used_idx = r.used_idx + 1
    <3> HIDE DEF r, F, p, l
    <3> QED
      BY <1>0, <2>1, CustodyReturn
  <2>4. vq'[1] = e /\ e.last_avail = r.last_avail
        /\ e.avail_ring = r.avail_ring /\ e.used_ring = r.used_ring
    BY <1>0, <2>2 DEF add_used_idx, Queue
  <2> HIDE DEF e
  <2>5. /\ NotTaken(e, p) = NotTaken(r, p)
        /\ \A n \in NotReaped(e, l) : n \in NotReaped(r, l) \/ n = r.used_idx
        /\ \A n : AvailAt(e, n) = AvailAt(r, n) /\ UsedAt(e, n) = UsedAt(r, n)
    BY <1>0, <2>3, <2>4 DEF NotTaken, NotReaped, AvailAt, UsedAt
  <2>6. buf[1][UsedAt(r, r.used_idx)] = r.used_idx + 1
    <3>1. r.last_avail = r.used_idx + 1
      BY <2>1 DEF Custody
    <3> QED
      BY <1>b, <2>1, <2>2, <3>1 DEF TxServing
  <2>7. TxFilled'
    BY <1>a, <1>b, <2>2, <2>4, <2>5, <2>6 DEF TxFilled, TxServing
  <2>8. Written'
    BY <1>f, <2>2, <2>4 DEF Written
  <2> QED
    BY <2>7, <2>8 DEF TxOrder
<1>6. CASE TxRaiseIrq
  <2>1. UNCHANGED <<vq, tcur, tbuf, wire, failed>> /\ tpc = "irq" /\ tpc' = "next"
    BY <1>6 DEF TxRaiseIrq, tapVars
  <2>2. TxFilled'
    BY <1>a, <1>b, <2>1 DEF TxFilled, TxServing
  <2>3. Written'
    BY <1>f, <2>1 DEF Written
  <2> QED
    BY <2>2, <2>3 DEF TxOrder
<1> QED
  BY <1>1, <1>2, <1>3, <1>4, <1>5, <1>6 DEF Tx

(* Nothing else touches the queue of run_tx, its buffer or the wire. *)
LEMMA TxOrderNext == PartsInv /\ TxOrder /\ [Next]_vars => TxOrder'
<1> SUFFICES ASSUME PartsInv, TxOrder, [Next]_vars PROVE TxOrder'
  OBVIOUS
<1>1. CASE UNCHANGED vars \/ Sleep \/ Arrive
  <2>1. UNCHANGED <<vq, last_used, posted, tpc, tcur, tbuf, wire, buf, failed>>
    BY <1>1 DEF vars, guestVars, txVars, tapVars, Sleep, Arrive
  <2> QED
    BY <2>1 DEF TxOrder, TxFilled, Written, TxServing
<1>2. CASE GuestSetup \/ GuestPost \/ GuestHandler
  <2>1. TxFilled' /\ vq'[1].last_avail = vq[1].last_avail
    BY <1>2, TxFilledGuest DEF TxOrder
  <2>2. UNCHANGED <<tpc, tbuf, wire, failed>>
    BY <1>2, GuestActions DEF GuestPost, txVars, tapVars
  <2> QED
    BY <2>1, <2>2 DEF TxOrder, Written
<1>3. CASE Rx
  <2>1. /\ vq'[1] = vq[1] /\ buf'[1] = buf[1] /\ failed'[1] = failed[1]
        /\ UNCHANGED <<last_used, posted, tpc, tcur, tbuf, wire>>
    BY <1>3, RxSteps DEF txVars
  <2> QED
    BY <2>1 DEF TxOrder, TxFilled, Written, TxServing
<1>4. CASE Tx
  BY <1>4, TxOrderTx
<1> QED
  BY <1>1, <1>2, <1>3, <1>4 DEF Next

LEMMA TxOrderInit == Init => TxOrder
<1> SUFFICES ASSUME Init PROVE TxOrder
  OBVIOUS
<1>1. /\ vq[1] = FreshQueue /\ posted[1] = 0 /\ last_used[1] = 0
      /\ FreshQueue.last_avail = 0 /\ FreshQueue.used_idx = 0
  BY TwoQueues DEF Init, GuestInit, FreshQueue
<1>2. NotTaken(vq[1], posted[1]) = {} /\ NotReaped(vq[1], last_used[1]) = {}
  BY <1>1 DEF NotTaken, NotReaped
<1>3. tpc = "next" /\ tbuf = 0 /\ wire = <<>>
  BY DEF Init
<1>4. TxFilled
  BY <1>2, <1>3 DEF TxFilled, TxServing
<1>5. Written
  <2>1. tbuf \in 0 .. MaxPosts /\ wire \in Seq(1 .. MaxPosts)
    BY <1>3, Lengths
  <2>2. Len(wire) = 0 /\ \A k \in DOMAIN wire : wire[k] = k
    BY <1>3
  <2>3. vq[1].last_avail - (IF tpc \in {"copy", "write"} THEN 1 ELSE 0) = 0
    <3>1. vq[1].last_avail = 0
      BY <1>1
    <3> DEFINE b == IF tpc \in {"copy", "write"} THEN 1 ELSE 0
    <3>2. b = 0
      BY <1>3
    <3> HIDE DEF b
    <3>3. vq[1].last_avail - b = 0
      BY <3>1, <3>2
    <3> QED
      BY <3>3 DEF b
  <2>4. failed[1] = 0 /\ DOMAIN wire = {}
    BY <1>3, TwoQueues DEF Init
  <2> QED
    BY <2>1, <2>2, <2>3, <2>4 DEF Written, Ordered
<1> QED
  BY <1>4, <1>5 DEF TxOrder

(* Types of both threads' locals, the rings, the tap and the wire.         *)
THEOREM TypeCorrect == Spec => []TypeOK
<1>1. PartsInv /\ TxOrder => TypeOK
  BY DEF PartsInv, GuestInv, RxPart, TxPart, FrameTypes, TxOrder, Written, TypeOK
<1> QED
  BY <1>1, PartsInvInit, PartsInvNext, TxOrderInit, TxOrderNext, PTL DEF Spec

(* A programmed queue's element at an index names the chain there. *)
LEMMA UnreapedEntries ==
  ASSUME PartsInv, NEW i \in Queues, NEW n \in Unreaped(i),
         last_used[i] <= vq[i].used_idx
  PROVE  /\ n \in NotReaped(vq[i], last_used[i])
         /\ used_elem(vq[i], n) = vq[i].used_ring[n % QueueNum]
         /\ used_elem(vq[i], n).id = UsedAt(vq[i], n)
<1>1. last_used[i] \in Nat /\ vq[i].used_idx \in Nat /\ n \in last_used[i] .. vq[i].used_idx - 1
  BY GuestTypes DEF PartsInv, Unreaped
<1>2. vq[i].used_idx # 0
  BY <1>1
<1>3. vq[i].ready
  <2>1. FreshQueue.used_idx = 0
    BY DEF FreshQueue
  <2> QED
    BY <1>2, <2>1 DEF PartsInv, GuestInv
<1>4. vq[i].size = QueueNum
  BY <1>3 DEF PartsInv, GuestInv
<1> QED
  BY <1>1, <1>4 DEF NotReaped, used_elem, UsedAt

(* net.h:168-181: the guest's frames go out in its order, at most once     *)
(* each, and a chain comes back only after its frame has been written;     *)
(* only frames whose write failed are missing.                             *)
THEOREM FramesSentInOrder == Spec => []TxInOrder
<1>1. PartsInv /\ TxOrder => TxInOrder
  <2> SUFFICES ASSUME PartsInv, TxOrder PROVE TxInOrder
    OBVIOUS
  <2>1. /\ Ordered(wire, failed[1])
        /\ Len(wire) + failed[1] = vq[1].last_avail - (IF tpc \in {"copy", "write"} THEN 1 ELSE 0)
    BY DEF TxOrder, Written
  <2>2. /\ last_used[1] <= vq[1].used_idx
        /\ vq[1].last_avail = vq[1].used_idx + (IF TxServing THEN 1 ELSE 0)
    BY DEF PartsInv, TxPart, TxCustody, Custody
  <2>3. vq[1].used_idx \in Nat /\ 1 \in Queues
    BY TwoQueues, GuestTypes DEF PartsInv
  <2>4. (Len(wire) + failed[1]) - vq[1].used_idx \in 0 .. 1
    <3>1. ASSUME NEW s \in Nat, NEW u \in Nat, NEW x \in {0, 1}, NEW y \in {0, 1},
                 y <= x, s = (u + x) - y
          PROVE  s - u \in 0 .. 1
      BY <3>1
    <3> DEFINE a == IF TxServing THEN 1 ELSE 0
               b == IF tpc \in {"copy", "write"} THEN 1 ELSE 0
    <3>2. a \in {0, 1} /\ b \in {0, 1} /\ b <= a
      BY DEF TxServing
    <3>3. Len(wire) + failed[1] = (vq[1].used_idx + a) - b
      BY <2>1, <2>2
    <3>4. Len(wire) + failed[1] \in Nat
      <4>1. wire \in Seq(1 .. MaxPosts) /\ failed[1] \in Nat
        BY <2>3 DEF TxOrder, Written, PartsInv, FrameTypes
      <4> QED
        BY <4>1, LenProperties
    <3> DEFINE s == Len(wire) + failed[1]
               u == vq[1].used_idx
    <3>5. s \in Nat /\ u \in Nat /\ s = (u + a) - b
      BY <2>3, <3>3, <3>4
    <3> HIDE DEF a, b, s, u
    <3>6. s - u \in 0 .. 1
      BY <3>1, <3>2, <3>5
    <3> QED
      BY <3>6 DEF s, u
  <2>5. \A n \in Unreaped(1) : buf[1][used_elem(vq[1], n).id] = n + 1
    BY <2>2, <2>3, UnreapedEntries DEF TxOrder, TxFilled
  <2> QED
    BY <2>1, <2>4, <2>5 DEF TxInOrder, Frame, Ordered
<1> QED
  BY <1>1, PartsInvInit, PartsInvNext, TxOrderInit, TxOrderNext, PTL DEF Spec

-----------------------------------------------------------------------------
(* The frames the guest receives                                           *)

(* Frames are in the used ring, in buffer[] and at the tap, in this order: *)
(* c frames have been read from the tap.                                   *)
TapHolds(c) ==
  /\ Len(tap) = arrived - c
  /\ \A k \in 1 .. Len(tap) : tap[k] = c + k

HasRead == rpc \in {"copy", "elem", "idx"}

Got(n) == buf[0][UsedAt(vq[0], n)]

(* Frame b, read with length len, comes after frame a: it is the next one, *)
(* or the same once more when the read failed.                             *)
After(a, b, len) ==
  /\ b - a \in {0, 1}
  /\ len # FrameLen => b = a
  /\ len # ChainLen => b = a + 1

RxLens == {FrameLen} \union IF failed[0] = 0 THEN {} ELSE {ChainLen}

(* What the chains hold that wait to be reaped, up to buffer[]. *)
RxChains ==
  \A n \in NotReaped(vq[0], last_used[0]) :
    /\ Got(n) \in n + 1 - failed[0] .. n + 1 /\ Got(n) <= rbuf
    /\ LenAt(vq[0], n) \in RxLens
    /\ n + 1 \in NotReaped(vq[0], last_used[0]) =>
         After(Got(n), Got(n + 1), LenAt(vq[0], n + 1))
    /\ n + 1 = vq[0].used_idx =>
         IF HasRead THEN After(Got(n), rbuf, rlen) ELSE Got(n) = rbuf

(* buffer[] holds the last frame that was read; each chain has cost a read *)
(* that succeeded or failed.                                               *)
RxInHand ==
  /\ TapHolds(rbuf)
  /\ rbuf + failed[0] = IF HasRead THEN vq[0].used_idx + 1 ELSE vq[0].used_idx
  /\ HasRead => rlen \in RxLens
  /\ rpc \in {"elem", "idx"} => buf[0][rcur] = rbuf
  /\ rpc = "idx" => LenAt(vq[0], vq[0].used_idx) = rlen

RxOrder == RxChains /\ RxInHand

LEMMA RxOrderInit == Init => RxOrder
<1> SUFFICES ASSUME Init PROVE RxOrder
  OBVIOUS
<1>1. vq[0].used_idx = 0 /\ last_used[0] = 0 /\ failed[0] = 0
  BY TwoQueues DEF Init, GuestInit, FreshQueue
<1>2. NotReaped(vq[0], last_used[0]) = {}
  BY <1>1 DEF NotReaped
<1>3. rpc = "next" /\ tap = <<>> /\ arrived = 0 /\ rbuf = 0
  BY DEF Init
<1>4. TapHolds(0)
  BY <1>3 DEF TapHolds
<1> QED
  BY <1>1, <1>2, <1>3, <1>4 DEF RxOrder, RxChains, RxInHand, HasRead

(* Chains that are left alone keep what was received in them. *)
LEMMA RxChainsKept ==
  ASSUME RxChains,
         \A n \in NotReaped(vq'[0], last_used'[0]) :
           /\ n \in NotReaped(vq[0], last_used[0])
           /\ Got(n)' = Got(n)
           /\ LenAt(vq'[0], n) = LenAt(vq[0], n),
         vq'[0].used_idx = vq[0].used_idx,
         UNCHANGED <<failed[0], rbuf, HasRead>>,
         HasRead => rlen' = rlen
  PROVE  RxChains'
<1> SUFFICES ASSUME NEW n \in NotReaped(vq'[0], last_used'[0])
    PROVE  /\ Got(n)' \in n + 1 - failed[0] .. n + 1 /\ Got(n)' <= rbuf
           /\ LenAt(vq'[0], n) \in RxLens
           /\ n + 1 \in NotReaped(vq'[0], last_used'[0]) =>
                After(Got(n)', Got(n + 1)', LenAt(vq'[0], n + 1))
           /\ n + 1 = vq[0].used_idx =>
                IF HasRead THEN After(Got(n)', rbuf, rlen') ELSE Got(n)' = rbuf
  BY DEF RxChains, RxLens
<1>1. n \in NotReaped(vq[0], last_used[0]) /\ Got(n)' = Got(n) /\ LenAt(vq'[0], n) = LenAt(vq[0], n)
  OBVIOUS
<1>2. /\ Got(n) \in n + 1 - failed[0] .. n + 1 /\ Got(n) <= rbuf
      /\ LenAt(vq[0], n) \in RxLens
      /\ n + 1 = vq[0].used_idx =>
           IF HasRead THEN After(Got(n), rbuf, rlen) ELSE Got(n) = rbuf
  BY <1>1 DEF RxChains
<1>3. ASSUME n + 1 \in NotReaped(vq'[0], last_used'[0])
      PROVE  After(Got(n)', Got(n + 1)', LenAt(vq'[0], n + 1))
  <2>1. /\ n + 1 \in NotReaped(vq[0], last_used[0]) /\ Got(n + 1)' = Got(n + 1)
        /\ LenAt(vq'[0], n + 1) = LenAt(vq[0], n + 1)
    BY <1>3
  <2>2. After(Got(n), Got(n + 1), LenAt(vq[0], n + 1))
    BY <1>1, <2>1 DEF RxChains
  <2> QED
    BY <1>1, <2>1, <2>2
<1> QED
  BY <1>1, <1>2, <1>3

(* The driver posts over no chain that is under way, and reaps in order. *)
LEMMA RxOrderGuest ==
  ASSUME PartsInv, RxOrder, GuestSetup \/ GuestPost \/ GuestHandler
  PROVE  RxOrder'
<1> DEFINE s == IF RxServing THEN 1 ELSE 0
<1>0. /\ s \in {0, 1} /\ 0 \in Queues /\ GuestInv /\ GuestStep
      /\ Custody(vq[0], free[0], posted[0], last_used[0], s, rcur)
      /\ RxServing => s = 1
  BY TwoQueues, GuestActions DEF PartsInv, RxPart, RxCustody
<1>a. UNCHANGED <<rpc, rcur, rlen, rbuf, tap, arrived, failed, HasRead>>
  BY GuestActions DEF GuestPost, rxVars, tapVars, HasRead
<1>b. /\ last_used[0] \in Nat /\ vq[0].used_idx \in Nat /\ rcur \in Heads
      /\ \A n \in NotReaped(vq[0], last_used[0]) : n \in Int
  BY <1>0, GuestTypes DEF NotReaped, PartsInv, RxPart
<1> HIDE DEF s
<1>1. vq'[0].used_ring = vq[0].used_ring /\ vq'[0].used_idx = vq[0].used_idx
  BY <1>0, GuestCustody
<1>2. /\ \A n \in NotReaped(vq'[0], last_used'[0]) : n \in NotReaped(vq[0], last_used[0])
      /\ \A n \in Int : UsedAt(vq'[0], n) = UsedAt(vq[0], n)
  BY <1>0, ReapedInOrder
<1>3. \A n : LenAt(vq'[0], n) = LenAt(vq[0], n)
  BY <1>1 DEF LenAt
<1>4. /\ \A n \in NotReaped(vq[0], last_used[0]) :
           buf'[0][UsedAt(vq[0], n)] = buf[0][UsedAt(vq[0], n)]
      /\ rpc \in {"elem", "idx"} => buf'[0][rcur] = buf[0][rcur]
  <2>1. CASE GuestSetup \/ GuestHandler
    BY <2>1, GuestActions
  <2>2. CASE GuestPost
    <3>1. PICK i \in Queues : \E h \in free[i] :
            /\ Post(i, h)
            /\ buf' = [buf EXCEPT ![i][h] = IF i = 1 THEN posted'[i] ELSE 0]
      BY <2>2, GuestActions
    <3>2. PICK h \in free[i] :
            /\ Post(i, h)
            /\ buf' = [buf EXCEPT ![i][h] = IF i = 1 THEN posted'[i] ELSE 0]
      BY <3>1
    <3>3. CASE i # 0
      <4>1. buf'[0] = buf[0]
        BY <1>0, <3>2, <3>3 DEF PartsInv, FrameTypes
      <4> QED
        BY <4>1
    <3>4. CASE i = 0
      <4>1. h \in free[0] /\ h \in Heads
        BY <1>0, <3>2, <3>4, PostSteps
      <4>2. \A d \in Heads : d # h => buf'[0][d] = buf[0][d]
        BY <1>0, <3>2, <3>4, <4>1 DEF PartsInv, FrameTypes
      <4>3. /\ \A n \in NotReaped(vq[0], last_used[0]) : UsedAt(vq[0], n) # h
            /\ RxServing => rcur # h
        BY <1>0, <4>1 DEF Custody, Apart, Alone
      <4>4. \A n \in Int : UsedAt(vq[0], n) \in Heads
        <5>1. vq[0] \in Queue /\ RingsHoldHeads(vq[0])
          BY <1>0, GuestTypes DEF GuestInv
        <5> QED
          BY <5>1, RingFunctions DEF Useds, Entries
      <4> QED
        BY <1>b, <4>2, <4>3, <4>4 DEF RxServing
    <3> QED
      BY <3>3, <3>4
  <2> QED
    BY <2>1, <2>2
<1>5. RxChains'
  <2>1. ASSUME NEW n \in NotReaped(vq'[0], last_used'[0])
        PROVE  /\ n \in NotReaped(vq[0], last_used[0])
               /\ Got(n)' = Got(n)
               /\ LenAt(vq'[0], n) = LenAt(vq[0], n)
    BY <1>b, <1>2, <1>3, <1>4 DEF Got
  <2> QED
    BY <1>a, <1>1, <2>1, RxChainsKept DEF RxOrder
<1>6. RxInHand'
  BY <1>a, <1>1, <1>3, <1>4 DEF RxOrder, RxInHand, TapHolds, RxLens
<1> QED
  BY <1>5, <1>6 DEF RxOrder

(* The steps of run_rx. *)
LEMMA RxOrderRx ==
  ASSUME PartsInv, RxOrder, Rx
  PROVE  RxOrder'
<1> DEFINE r == vq[0]
           F == free[0]
           p == posted[0]
           l == last_used[0]
           u == r.used_idx
<1>0. /\ 0 \in Queues /\ vq \in [Queues -> Queue] /\ r \in Queue
      /\ u \in Nat /\ p \in Nat /\ l \in Nat
  BY TwoQueues, GuestTypes DEF PartsInv
<1>a. UNCHANGED <<F, p, l, arrived>>
  BY RxSteps
<1>d. rpc \in {"poll", "copy", "elem", "idx"} =>
        r \in ProgrammedQueue /\ Custody(r, F, p, l, 1, rcur)
  BY <1>0, GuestTypes DEF PartsInv, RxPart, RxCustody, RxServing
<1>b. RxChains /\ RxInHand /\ \A n \in NotReaped(r, l) : n \in Int
  BY <1>0 DEF RxOrder, NotReaped
<1>e. failed[0] \in Nat /\ rbuf \in Nat /\ FrameLen \in Nat /\ ChainLen \in Nat /\ arrived \in Nat
  <2>1. failed \in [Queues -> Nat] /\ rbuf \in 0 .. MaxFrames /\ arrived \in 0 .. MaxFrames
    BY DEF PartsInv, FrameTypes
  <2> QED
    BY <1>0, <2>1, Lengths
<1>1. CASE RxTake \/ RxTimeout
  <2>1. PICK e \in {next(r), pop_back(r)} :
          vq' = [vq EXCEPT ![0] = e] /\ rpc \in {"next", "poll"} /\ rpc' \in {"next", "poll"}
            /\ UNCHANGED <<rlen, rbuf, tap, buf, failed>>
    BY <1>1 DEF RxTake, RxTimeout, tapVars
  <2>2. vq'[0] = e /\ e.used_idx = u /\ e.used_ring = r.used_ring
    BY <1>0, <2>1 DEF next, pop_back, Queue
  <2>3. NotReaped(e, l) = NotReaped(r, l)
        /\ \A n : UsedAt(e, n) = UsedAt(r, n) /\ LenAt(e, n) = LenAt(r, n)
    BY <2>2 DEF NotReaped, UsedAt, LenAt
  <2>4. RxChains'
    BY <1>a, <1>b, <2>1, <2>2, <2>3, RxChainsKept DEF HasRead, Got
  <2>5. RxInHand'
    BY <1>a, <1>b, <2>1, <2>2 DEF RxInHand, HasRead, TapHolds
  <2> QED
    BY <2>4, <2>5 DEF RxOrder
<1>2. CASE \E ok \in {TRUE, ~IoErrors} : RxRead(ok)
  <2>1. PICK ok \in {TRUE, ~IoErrors} : RxRead(ok)
    BY <1>2
  <2>2. UNCHANGED <<vq, rcur, buf>> /\ rpc = "poll" /\ rpc' = "copy" /\ tap # <<>>
    BY <2>1 DEF RxRead, guestVars
  <2>3. /\ rbuf + failed[0] = u /\ TapHolds(rbuf)
        /\ \A n \in NotReaped(r, l) :
             /\ Got(n) \in n + 1 - failed[0] .. n + 1 /\ Got(n) <= rbuf
             /\ LenAt(r, n) \in RxLens
             /\ n + 1 \in NotReaped(r, l) => After(Got(n), Got(n + 1), LenAt(r, n + 1))
             /\ n + 1 = u => Got(n) = rbuf
    BY <1>b, <2>2 DEF RxChains, RxInHand, HasRead
  <2>4. \A n : Got(n)' = Got(n)
    BY <2>2 DEF Got
  <2>5. CASE ~ok
    <3>1. UNCHANGED <<rbuf, tap>> /\ rlen' = ChainLen /\ failed'[0] = failed[0] + 1
      BY <1>0, <2>1, <2>5 DEF RxRead, PartsInv, FrameTypes
    <3>2. RxLens' = {FrameLen, ChainLen} /\ \A x \in RxLens : x \in RxLens'
      BY <1>e, <3>1 DEF RxLens
    <3>3. After(rbuf, rbuf, ChainLen)
      BY <1>e DEF After
    <3>4. ASSUME NEW n \in NotReaped(r, l)
          PROVE  Got(n) \in n + 1 - (failed[0] + 1) .. n + 1
      BY <1>b, <1>e, <2>3
    <3>5. RxChains'
      BY <1>a, <2>2, <2>3, <2>4, <3>1, <3>2, <3>3, <3>4 DEF RxChains, HasRead
    <3>6. rbuf + (failed[0] + 1) = u + 1
      <4>1. \A x, y, z \in Nat : x + y = z => x + (y + 1) = z + 1
        OBVIOUS
      <4> QED
        BY <1>0, <1>e, <2>3, <4>1
    <3>7. RxInHand'
      BY <1>a, <2>2, <2>3, <3>1, <3>2, <3>6 DEF RxInHand, HasRead, TapHolds
    <3> QED
      BY <3>5, <3>7 DEF RxOrder
  <2>6. CASE ok
    <3>1. /\ failed' = failed /\ rlen' = FrameLen /\ rbuf' = Head(tap) /\ tap' = Tail(tap)
      BY <2>1, <2>6 DEF RxRead
    <3>2. Len(tap) = arrived - rbuf /\ \A k \in 1 .. Len(tap) : tap[k] = rbuf + k
      BY <2>3 DEF TapHolds
    <3>3. tap \in Seq(1 .. MaxFrames)
      BY DEF PartsInv, FrameTypes
    <3>4. /\ Len(tap) \in Nat /\ Len(tap) >= 1 /\ Head(tap) = tap[1] /\ Len(Tail(tap)) = Len(tap) - 1
          /\ \A k \in 1 .. Len(tap) - 1 : Tail(tap)[k] = tap[k + 1]
      <4>1. Len(tap) \in Nat /\ Len(tap) # 0
        BY <2>2, <3>3, EmptySeq, LenProperties
      <4>2. Len(Tail(tap)) = Len(tap) - 1 /\ \A k \in 1 .. Len(Tail(tap)) : Tail(tap)[k] = tap[k + 1]
        BY <2>2, <3>3, HeadTailProperties
      <4>3. Head(tap) = tap[1]
        BY <3>3
      <4> QED
        BY <4>1, <4>2, <4>3
    <3>5. rbuf' = rbuf + 1
      BY <1>e, <3>1, <3>2, <3>4
    <3>6. Len(tap') = arrived - (rbuf + 1) /\ \A k \in 1 .. Len(tap') : tap'[k] = (rbuf + 1) + k
      <4>1. Len(tap') = arrived - (rbuf + 1)
        BY <1>e, <3>1, <3>2, <3>4
      <4>2. ASSUME NEW k \in 1 .. Len(tap') PROVE tap'[k] = (rbuf + 1) + k
        <5>1. k + 1 \in 1 .. Len(tap) /\ tap'[k] = tap[k + 1] /\ k \in Nat
          BY <3>1, <3>4
        <5>2. tap[k + 1] = rbuf + (k + 1)
          BY <3>2, <5>1
        <5>3. rbuf + (k + 1) = (rbuf + 1) + k
          BY ONLY <1>e, <5>1
        <5> QED
          BY <5>1, <5>2, <5>3
      <4> QED
        BY <4>1, <4>2
    <3>7. TapHolds(rbuf)'
      BY <1>a, <3>5, <3>6 DEF TapHolds
    <3>8. After(rbuf, rbuf + 1, FrameLen)
      BY <1>e DEF After
    <3>9. ASSUME NEW n \in NotReaped(r, l)
          PROVE  Got(n) <= rbuf + 1
      BY <1>b, <1>e, <2>3
    <3>10. RxLens' = RxLens /\ FrameLen \in RxLens
      BY <3>1 DEF RxLens
    <3>11. RxChains'
      BY <1>a, <2>2, <2>3, <2>4, <3>1, <3>5, <3>8, <3>9, <3>10 DEF RxChains, HasRead
    <3>12. (rbuf + 1) + failed[0] = u + 1
      <4>1. \A x, y, z \in Nat : x + y = z => (x + 1) + y = z + 1
        OBVIOUS
      <4> QED
        BY <1>0, <1>e, <2>3, <4>1
    <3>13. RxInHand'
      BY <2>2, <3>1, <3>5, <3>7, <3>10, <3>12 DEF RxInHand, HasRead
    <3> QED
      BY <3>11, <3>13 DEF RxOrder
  <2> QED
    BY <2>5, <2>6
<1>3. CASE RxCopy
  <2>1. r \in ProgrammedQueue /\ Custody(r, F, p, l, 1, rcur)
    BY <1>d, <1>3 DEF RxCopy
  <2>2. avail_id(r) = rcur
    <3> HIDE DEF r, F, p, l, u
    <3> QED
      BY <2>1, CustodyId
  <2>3. UNCHANGED <<vq, rcur, rlen, rbuf, tap, failed>> /\ rpc = "copy" /\ rpc' = "elem"
        /\ buf' = [buf EXCEPT ![0][rcur] = rbuf]
    BY <1>3, <2>2 DEF RxCopy, guestVars, tapVars
  <2>4. buf'[0][rcur] = rbuf /\ \A d \in Heads : d # rcur => buf'[0][d] = buf[0][d]
    BY <1>0, <2>3 DEF PartsInv, RxPart, FrameTypes
  <2>5. \A n \in NotReaped(r, l) : UsedAt(r, n) # rcur /\ UsedAt(r, n) \in Heads
    <3>1. \A n \in Int : UsedAt(r, n) \in Heads
      <4>1. RingsHoldHeads(r)
        BY <1>0 DEF PartsInv, GuestInv
      <4> QED
        BY <1>0, <4>1, RingFunctions DEF Useds, Entries
    <3> QED
      BY <1>0, <2>1, <3>1 DEF Custody, Alone, NotReaped
  <2>6. RxChains'
    BY <1>a, <1>b, <2>3, <2>4, <2>5, RxChainsKept DEF HasRead, Got
  <2>7. RxInHand'
    BY <1>a, <1>b, <2>3, <2>4 DEF RxInHand, HasRead, TapHolds, RxLens
  <2> QED
    BY <2>6, <2>7 DEF RxOrder
<1>4. CASE RxUseElem
  <2> DEFINE e == add_used_elem(r, rcur, rlen)
  <2>1. r \in ProgrammedQueue /\ Custody(r, F, p, l, 1, rcur)
    BY <1>d, <1>4 DEF RxUseElem
  <2>2. vq' = [vq EXCEPT ![0] = e] /\ rpc = "elem" /\ rpc' = "idx"
        /\ UNCHANGED <<rcur, rlen, rbuf, tap, buf, failed>>
    BY <1>4 DEF RxUseElem, tapVars
  <2>3. vq'[0] = e /\ e.used_idx = u
    BY <1>0, <2>2 DEF add_used_elem, Queue
  <2>4. /\ \A n \in NotReaped(r, l) : UsedAt(e, n) = UsedAt(r, n) /\ LenAt(e, n) = LenAt(r, n)
        /\ LenAt(e, u) = rlen
    <3>1. /\ \A n \in Int : n < u /\ u - n < QueueNum => UsedAt(e, n) = UsedAt(r, n)
          /\ \A n \in Int : n < u /\ u - n < QueueNum => LenAt(e, n) = LenAt(r, n)
          /\ LenAt(e, u) = rlen
      BY <2>1, UsedEntries, UsedLengths
    <3>2. /\ IsFiniteSet(F) /\ Cardinality(F) + (p - r.last_avail) + 1 + (u - l) <= QueueNum
          /\ r.last_avail <= p /\ r.last_avail = u + 1
      BY <2>1 DEF Custody, Counted
    <3>3. Cardinality(F) \in Nat
      BY <3>2, FS_CardinalityType
    <3>4. u - l < QueueNum
      BY <1>0, <3>2, <3>3, RingSizes
    <3> QED
      BY <1>0, <3>1, <3>4, RingSizes DEF NotReaped
  <2> HIDE DEF e
  <2>5. NotReaped(e, l) = NotReaped(r, l)
    BY <2>3 DEF NotReaped
  <2>6. RxChains'
    BY <1>a, <1>b, <2>2, <2>3, <2>4, <2>5, RxChainsKept DEF HasRead, Got
  <2>7. RxInHand'
    BY <1>a, <1>b, <2>2, <2>3, <2>4 DEF RxInHand, HasRead, TapHolds, RxLens
  <2> QED
    BY <2>6, <2>7 DEF RxOrder
<1>5. CASE RxUseIdx
  <2> DEFINE e == add_used_idx(r)
  <2>1. r \in ProgrammedQueue /\ Custody(r, F, p, l, 1, rcur) /\ UsedAt(r, u) = rcur
    BY <1>d, <1>5 DEF RxUseIdx, PartsInv, RxPart
  <2>2. vq' = [vq EXCEPT ![0] = e] /\ rpc = "idx" /\ rpc' = "irq"
        /\ UNCHANGED <<rcur, rlen, rbuf, tap, buf, failed>>
    BY <1>5 DEF RxUseIdx, tapVars
  <2>3. e.used_idx = u + 1
    <3> HIDE DEF r, F, p, l
    <3> QED
      BY <1>0, <2>1, CustodyReturn
  <2>4. vq'[0] = e /\ e.used_ring = r.used_ring
    BY <1>0, <2>2 DEF add_used_idx, Queue
  <2> HIDE DEF e
  <2>5. /\ \A n \in NotReaped(e, l) : n \in NotReaped(r, l) \/ n = u
        /\ \A n : UsedAt(e, n) = UsedAt(r, n) /\ LenAt(e, n) = LenAt(r, n)
        /\ \A n \in NotReaped(e, l) : n < u + 1
    BY <1>0, <2>3, <2>4 DEF NotReaped, UsedAt, LenAt
  <2>6. /\ rbuf + failed[0] = u + 1 /\ rlen \in RxLens
        /\ Got(u) = rbuf /\ LenAt(r, u) = rlen
    BY <1>b, <2>1, <2>2 DEF RxInHand, HasRead, Got
  <2>7. /\ \A n : Got(n)' = Got(n) /\ LenAt(vq'[0], n) = LenAt(r, n)
        /\ RxLens' = RxLens
    BY <2>2, <2>4, <2>5 DEF Got, RxLens
  <2>8. ASSUME NEW n \in NotReaped(r, l)
        PROVE  /\ n \in Int
               /\ Got(n) \in n + 1 - failed[0] .. n + 1 /\ Got(n) <= rbuf
               /\ LenAt(r, n) \in RxLens
               /\ n + 1 \in NotReaped(r, l) => After(Got(n), Got(n + 1), LenAt(r, n + 1))
               /\ n + 1 = u => After(Got(n), Got(u), LenAt(r, u))
               /\ n < u
    <3>1. n \in Int /\ n < u
      BY <1>0 DEF NotReaped
    <3> QED
      BY <1>b, <2>2, <2>6, <3>1 DEF RxChains, HasRead
  <2>9. Got(u) \in u + 1 - failed[0] .. u + 1 /\ Got(u) <= rbuf
    <3>1. \A x, y, z \in Nat : x + y = z + 1 => x \in z + 1 - y .. z + 1
      OBVIOUS
    <3>2. rbuf \in u + 1 - failed[0] .. u + 1
      BY <1>0, <1>e, <2>6, <3>1
    <3> QED
      BY <1>e, <2>6, <3>2
  <2>10. ASSUME NEW n \in NotReaped(e, l)
         PROVE  /\ Got(n) \in n + 1 - failed[0] .. n + 1 /\ Got(n) <= rbuf
                /\ LenAt(r, n) \in RxLens
                /\ n + 1 \in NotReaped(e, l) => After(Got(n), Got(n + 1), LenAt(r, n + 1))
                /\ n + 1 = u + 1 => Got(n) = rbuf
    <3>1. CASE n \in NotReaped(r, l)
      <4>1. /\ n + 1 \in NotReaped(e, l) => n + 1 \in NotReaped(r, l) \/ n + 1 = u
            /\ n + 1 # u + 1
        <5>1. n \in Int /\ n < u
          BY <2>8, <3>1
        <5> QED
          BY <1>0, <2>5, <5>1
      <4> QED
        BY <2>8, <3>1, <4>1
    <3>2. CASE n = u
      <4>1. ~(n + 1 < u + 1)
        BY <1>0, <3>2
      <4> QED
        BY <2>5, <2>6, <2>9, <3>2, <4>1
    <3> QED
      BY <2>5, <3>1, <3>2
  <2>11. RxChains'
    BY <1>a, <2>2, <2>3, <2>4, <2>7, <2>10 DEF RxChains, HasRead
  <2>12. RxInHand'
    BY <1>a, <1>b, <2>2, <2>3, <2>4, <2>6 DEF RxInHand, HasRead, TapHolds
  <2> QED
    BY <2>11, <2>12 DEF RxOrder
<1>6. CASE RxRaiseIrq
  <2>1. UNCHANGED <<vq, rcur, rlen, rbuf, tap, buf, failed>> /\ rpc = "irq" /\ rpc' = "next"
    BY <1>6 DEF RxRaiseIrq, tapVars
  <2>2. RxChains'
    BY <1>a, <1>b, <2>1, RxChainsKept DEF HasRead, Got
  <2>3. RxInHand'
    BY <1>a, <1>b, <2>1 DEF RxInHand, HasRead, TapHolds
  <2> QED
    BY <2>2, <2>3 DEF RxOrder
<1> QED
  BY <1>1, <1>2, <1>3, <1>4, <1>5, <1>6 DEF Rx

(* Nothing else but the network touches the tap or the queue of run_rx. *)
LEMMA RxOrderNext == PartsInv /\ RxOrder /\ [Next]_vars => RxOrder'
<1> SUFFICES ASSUME PartsInv, RxOrder, [Next]_vars PROVE RxOrder'
  OBVIOUS
<1>1. CASE UNCHANGED vars \/ Sleep
  <2>1. UNCHANGED <<vq, last_used, rpc, rcur, rlen, rbuf, tap, arrived, buf, failed>>
    BY <1>1 DEF vars, guestVars, rxVars, tapVars, Sleep
  <2> QED
    BY <2>1 DEF RxOrder, RxChains, RxInHand, RxLens, Got, HasRead, TapHolds
<1>2. CASE Arrive
  <2>1. UNCHANGED <<vq, last_used, rpc, rcur, rlen, rbuf, buf, failed>>
    BY <1>2 DEF guestVars, rxVars, Arrive
  <2>2. arrived' = arrived + 1 /\ tap' = Append(tap, arrived + 1)
    BY <1>2 DEF Arrive
  <2> DEFINE c == rbuf
  <2>3. c \in Nat
    BY Lengths DEF PartsInv, FrameTypes
  <2>4. c' = c
    BY <2>1
  <2> HIDE DEF c
  <2>5. ASSUME TapHolds(c) PROVE TapHolds(c)'
    <3>1. /\ Len(tap) = arrived - c /\ \A k \in 1 .. Len(tap) : tap[k] = c + k
          /\ tap \in Seq(1 .. MaxFrames) /\ arrived \in Nat /\ arrived + 1 \in Nat
      BY <2>5, Lengths DEF TapHolds, PartsInv, FrameTypes
    <3>2. tap \in Seq(Nat)
      <4>1. \A k \in 1 .. Len(tap) : tap[k] \in Nat
        BY <2>3, <3>1
      <4> QED
        BY <3>1, <4>1
    <3>3. /\ Len(tap) \in Nat /\ Len(tap') = Len(tap) + 1
          /\ tap'[Len(tap) + 1] = arrived + 1
          /\ \A k \in 1 .. Len(tap) : tap'[k] = tap[k]
      BY <2>2, <3>1, <3>2, AppendProperties, LenProperties
    <3>4. Len(tap') = arrived' - c
      BY <2>2, <2>3, <3>1, <3>3
    <3>5. ASSUME NEW k \in 1 .. Len(tap') PROVE tap'[k] = c + k
      BY <2>3, <3>1, <3>3
    <3> QED
      BY <2>4, <3>4, <3>5 DEF TapHolds
  <2> QED
    BY <2>1, <2>4, <2>5 DEF RxOrder, RxChains, RxInHand, RxLens, Got, HasRead, c
<1>3. CASE GuestSetup \/ GuestPost \/ GuestHandler
  BY <1>3, RxOrderGuest
<1>4. CASE Rx
  BY <1>4, RxOrderRx
<1>5. CASE Tx
  <2>1. vq'[0] = vq[0] /\ failed'[0] = failed[0]
        /\ UNCHANGED <<last_used, rpc, rcur, rlen, rbuf, tap, arrived, buf>>
    BY <1>5, TxSteps DEF rxVars
  <2> QED
    BY <2>1 DEF RxOrder, RxChains, RxInHand, RxLens, Got, HasRead, TapHolds
<1> QED
  BY <1>1, <1>2, <1>3, <1>4, <1>5 DEF Next

(* net.h:114-117 and 122-145: whatever polls time out or reads fail in     *)
(* between, the guest gets the frames of the tap in order and misses none; *)
(* a failed read costs a chain, in which the last frame comes once more.   *)
THEOREM FramesReceivedInOrder == Spec => []RxInOrder
<1>1. PartsInv /\ RxOrder => RxInOrder
  <2> SUFFICES ASSUME PartsInv, RxOrder PROVE RxInOrder
    OBVIOUS
  <2>1. last_used[0] <= vq[0].used_idx /\ 0 \in Queues
    BY TwoQueues DEF PartsInv, RxPart, RxCustody, Custody
  <2>2. ASSUME NEW n \in Unreaped(0)
        PROVE  /\ n \in NotReaped(vq[0], last_used[0])
               /\ LenOf(0, n) = LenAt(vq[0], n)
               /\ Frame(0, n) = Got(n)
    BY <2>1, UnreapedEntries DEF LenAt, LenOf, Frame, Got
  <2>3. arrived - Len(tap) = rbuf /\ \A k \in DOMAIN tap : tap[k] = rbuf + k
    <3>1. tap \in Seq(1 .. MaxFrames) /\ arrived \in Nat /\ rbuf \in Nat
      BY Lengths DEF PartsInv, FrameTypes
    <3>2. Len(tap) \in Nat /\ DOMAIN tap = 1 .. Len(tap)
      BY <3>1, LenProperties
    <3>3. Len(tap) = arrived - rbuf /\ \A k \in 1 .. Len(tap) : tap[k] = rbuf + k
      BY DEF RxOrder, RxInHand, TapHolds
    <3>4. \A x, y, z \in Nat : x = y - z => y - x = z
      OBVIOUS
    <3> QED
      BY <3>1, <3>2, <3>3, <3>4
  <2>4. ASSUME NEW n \in Unreaped(0)
        PROVE  /\ Got(n) \in n + 1 - failed[0] .. n + 1 /\ Got(n) <= rbuf
               /\ LenOf(0, n) \in RxLens
               /\ n + 1 \in Unreaped(0) => After(Got(n), Got(n + 1), LenOf(0, n + 1))
    BY <2>2 DEF RxOrder, RxChains
  <2> QED
    BY <2>2, <2>3, <2>4 DEF RxInOrder, RxLens, After
<1> QED
  BY <1>1, PartsInvInit, PartsInvNext, RxOrderInit, RxOrderNext, PTL DEF Spec

-----------------------------------------------------------------------------
(* Each queue as a server of chains, first come first served               *)

(* Its thread serves the oldest chain when the used index moves; run_rx    *)
(* may take a chain and give it back any number of times before.           *)
LEMMA RxServes ==
  ASSUME PartsInv, Rx
  PROVE  ServerStep(PendingIn(vq[0], posted[0]), DoneIn(vq[0], last_used[0]),
                    PendingIn(vq'[0], posted'[0]), DoneIn(vq'[0], last_used'[0]))
<1> DEFINE r == vq[0]
           F == free[0]
           p == posted[0]
           l == last_used[0]
<1>0. /\ 0 \in Queues /\ vq \in [Queues -> Queue] /\ r \in Queue /\ RingsHoldHeads(r)
      /\ p \in Nat /\ l \in Nat /\ (r.ready => r \in ProgrammedQueue)
  BY TwoQueues, GuestTypes DEF PartsInv, GuestInv
<1>1. UNCHANGED <<p, l>>
  BY RxSteps
<1>2. rpc \in {"elem", "idx"} => r \in ProgrammedQueue /\ Custody(r, F, p, l, 1, rcur)
  BY <1>0 DEF PartsInv, RxPart, RxCustody, RxServing
<1>3. CASE vq'[0].used_idx = r.used_idx /\ vq'[0].avail_ring = r.avail_ring
           /\ vq'[0].used_ring = r.used_ring
  <2> DEFINE e == vq'[0]
  <2>1. PendingIn(e, p) = PendingIn(r, p) /\ DoneIn(e, l) = DoneIn(r, l)
    BY <1>0, <1>3, TakingStutters
  <2> QED
    BY <1>1, <2>1 DEF ServerStep
<1>4. CASE RxTake \/ RxTimeout \/ (\E ok \in {TRUE, ~IoErrors} : RxRead(ok)) \/ RxCopy \/ RxRaiseIrq
  <2>1. vq'[0] = r \/ vq'[0] = next(r) \/ vq'[0] = pop_back(r)
    BY <1>0, <1>4 DEF RxTake, RxTimeout, RxRead, RxCopy, RxRaiseIrq, guestVars
  <2> QED
    BY <1>0, <1>3, <2>1 DEF next, pop_back, Queue
<1>5. CASE RxUseElem
  <2> DEFINE e == add_used_elem(r, rcur, rlen)
  <2>1. vq'[0] = e /\ r \in ProgrammedQueue /\ Custody(r, F, p, l, 1, rcur)
    BY <1>0, <1>2, <1>5 DEF RxUseElem
  <2>2. PendingIn(e, p) = PendingIn(r, p) /\ DoneIn(e, l) = DoneIn(r, l)
    <3> HIDE DEF r, F, p, l
    <3> QED
      BY <1>0, <2>1, UseElemStutters
  <2> QED
    BY <1>1, <2>1, <2>2 DEF ServerStep
<1>6. CASE RxUseIdx
  <2> DEFINE e == add_used_idx(r)
  <2>1. vq'[0] = e /\ r \in ProgrammedQueue /\ Custody(r, F, p, l, 1, rcur)
        /\ UsedAt(r, r.used_idx) = rcur
    BY <1>0, <1>2, <1>6 DEF RxUseIdx, PartsInv, RxPart
  <2>2. /\ PendingIn(r, p) # <<>> /\ PendingIn(e, p) = Tail(PendingIn(r, p))
        /\ DoneIn(e, l) = Append(DoneIn(r, l), Head(PendingIn(r, p)))
    <3> HIDE DEF r, F, p, l
    <3> QED
      BY <1>0, <2>1, RingUseIdxServes
  <2> QED
    BY <1>1, <2>1, <2>2 DEF ServerStep
<1> QED
  BY <1>4, <1>5, <1>6 DEF Rx

LEMMA TxServes ==
  ASSUME PartsInv, Tx
  PROVE  ServerStep(PendingIn(vq[1], posted[1]), DoneIn(vq[1], last_used[1]),
                    PendingIn(vq'[1], posted'[1]), DoneIn(vq'[1], last_used'[1]))
<1> DEFINE r == vq[1]
           F == free[1]
           p == posted[1]
           l == last_used[1]
<1>0. /\ 1 \in Queues /\ vq \in [Queues -> Queue] /\ r \in Queue /\ RingsHoldHeads(r)
      /\ p \in Nat /\ l \in Nat /\ (r.ready => r \in ProgrammedQueue)
  BY TwoQueues, GuestTypes DEF PartsInv, GuestInv
<1>1. UNCHANGED <<p, l>>
  BY TxSteps
<1>2. tpc \in {"elem", "idx"} => r \in ProgrammedQueue /\ Custody(r, F, p, l, 1, tcur)
  BY <1>0 DEF PartsInv, TxPart, TxCustody, TxServing
<1>3. CASE vq'[1].used_idx = r.used_idx /\ vq'[1].avail_ring = r.avail_ring
           /\ vq'[1].used_ring = r.used_ring
  <2> DEFINE e == vq'[1]
  <2>1. PendingIn(e, p) = PendingIn(r, p) /\ DoneIn(e, l) = DoneIn(r, l)
    BY <1>0, <1>3, TakingStutters
  <2> QED
    BY <1>1, <2>1 DEF ServerStep
<1>4. CASE TxTake \/ TxCopy \/ (\E ok \in {TRUE, ~IoErrors} : TxWrite(ok)) \/ TxRaiseIrq
  <2>1. vq'[1] = r \/ vq'[1] = next(r) \/ vq'[1] = pop_back(r)
    BY <1>0, <1>4 DEF TxTake, TxCopy, TxWrite, TxRaiseIrq, guestVars
  <2> QED
    BY <1>0, <1>3, <2>1 DEF next, pop_back, Queue
<1>5. CASE TxUseElem
  <2> DEFINE e == add_used_elem(r, tcur, tlen)
  <2>1. vq'[1] = e /\ r \in ProgrammedQueue /\ Custody(r, F, p, l, 1, tcur)
    BY <1>0, <1>2, <1>5 DEF TxUseElem
  <2>2. PendingIn(e, p) = PendingIn(r, p) /\ DoneIn(e, l) = DoneIn(r, l)
    <3> HIDE DEF r, F, p, l
    <3> QED
      BY <1>0, <2>1, UseElemStutters
  <2> QED
    BY <1>1, <2>1, <2>2 DEF ServerStep
<1>6. CASE TxUseIdx
  <2> DEFINE e == add_used_idx(r)
  <2>1. vq'[1] = e /\ r \in ProgrammedQueue /\ Custody(r, F, p, l, 1, tcur)
        /\ UsedAt(r, r.used_idx) = tcur
    BY <1>0, <1>2, <1>6 DEF TxUseIdx, PartsInv, TxPart
  <2>2. /\ PendingIn(r, p) # <<>> /\ PendingIn(e, p) = Tail(PendingIn(r, p))
        /\ DoneIn(e, l) = Append(DoneIn(r, l), Head(PendingIn(r, p)))
    <3> HIDE DEF r, F, p, l
    <3> QED
      BY <1>0, <2>1, RingUseIdxServes
  <2> QED
    BY <1>1, <2>1, <2>2 DEF ServerStep
<1> QED
  BY <1>4, <1>5, <1>6 DEF Tx

(* Neither thread touches the other one's queue. *)
LEMMA RxQueueSteps ==
  ASSUME PartsInv, [Next]_vars
  PROVE  ServerStep(PendingIn(vq[0], posted[0]), DoneIn(vq[0], last_used[0]),
                    PendingIn(vq'[0], posted'[0]), DoneIn(vq'[0], last_used'[0]))
<1>1. CASE UNCHANGED <<vq[0], posted[0], last_used[0]>>
  BY <1>1 DEF ServerStep
<1>2. CASE UNCHANGED vars \/ Sleep \/ Arrive
  BY <1>1, <1>2 DEF Sleep, Arrive, vars, guestVars
<1>3. CASE GuestSetup \/ GuestPost \/ GuestHandler
  <2>1. GuestStep /\ GuestInv /\ 0 \in Queues
    BY <1>3, GuestActions, TwoQueues DEF PartsInv
  <2>2. \E s \in {0, 1} : Custody(vq[0], free[0], posted[0], last_used[0], s, rcur)
    BY DEF PartsInv, RxPart, RxCustody
  <2> QED
    BY <2>1, <2>2, GuestServes
<1>4. CASE Rx
  BY <1>4, RxServes
<1>5. CASE Tx
  BY <1>1, <1>5, TxSteps
<1> QED
  BY <1>2, <1>3, <1>4, <1>5 DEF Next

LEMMA TxQueueSteps ==
  ASSUME PartsInv, [Next]_vars
  PROVE  ServerStep(PendingIn(vq[1], posted[1]), DoneIn(vq[1], last_used[1]),
                    PendingIn(vq'[1], posted'[1]), DoneIn(vq'[1], last_used'[1]))
<1>1. CASE UNCHANGED <<vq[1], posted[1], last_used[1]>>
  BY <1>1 DEF ServerStep
<1>2. CASE UNCHANGED vars \/ Sleep \/ Arrive
  BY <1>1, <1>2 DEF Sleep, Arrive, vars, guestVars
<1>3. CASE GuestSetup \/ GuestPost \/ GuestHandler
  <2>1. GuestStep /\ GuestInv /\ 1 \in Queues
    BY <1>3, GuestActions, TwoQueues DEF PartsInv
  <2>2. \E s \in {0, 1} : Custody(vq[1], free[1], posted[1], last_used[1], s, tcur)
    BY DEF PartsInv, TxPart, TxCustody
  <2> QED
    BY <2>1, <2>2, GuestServes
<1>4. CASE Tx
  BY <1>4, TxServes
<1>5. CASE Rx
  BY <1>1, <1>5, RxSteps
<1> QED
  BY <1>2, <1>3, <1>4, <1>5 DEF Next

(* net.h:107-147: the receive queue implements the FIFO server, for any    *)
(* ring and any traffic: whatever polls time out and reads fail, every     *)
(* chain comes back once and in the order of posting.                      *)
THEOREM RxImplementsFifo == Spec => RxServer!SafeSpec
<1> DEFINE P == PendingIn(vq[0], posted[0])
           D == DoneIn(vq[0], last_used[0])
           Mapped == PendingOf(0) = P /\ DoneOf(0) = D
<1>1. PartsInv => Mapped
  BY TwoQueues, ServerSequences DEF PartsInv
<1> HIDE DEF Mapped
<1>2. PartsInv' => Mapped'
  BY <1>1, PTL
<1>3. Init => RxServer!Init
  <2> SUFFICES ASSUME Init PROVE RxServer!Init
    OBVIOUS
  <2>1. vq[0].used_idx = 0 /\ posted[0] = 0 /\ last_used[0] = 0
    BY TwoQueues DEF Init, GuestInit, FreshQueue
  <2>2. 1 .. posted[0] - vq[0].used_idx = {} /\ 1 .. vq[0].used_idx - last_used[0] = {}
    BY <2>1
  <2> QED
    BY <2>2 DEF PendingOf, DoneOf, RxServer!Init
<1>4. PartsInv /\ PartsInv' /\ [Next]_vars => [RxServer!Next]_(RxServer!vars)
  <2> SUFFICES ASSUME PartsInv, PartsInv', [Next]_vars
               PROVE  [RxServer!Next]_(RxServer!vars)
    OBVIOUS
  <2>1. ServerStep(P, D, P', D')
    BY RxQueueSteps
  <2>2. ServerStep(PendingOf(0), DoneOf(0), PendingOf(0)', DoneOf(0)')
    BY <1>1, <1>2, <2>1 DEF Mapped
  <2> HIDE DEF P, D
  <2> QED
    BY <2>2 DEF ServerStep, IsIn, RxServer!Contains, RxServer!Next, RxServer!Submit,
                RxServer!Serve, RxServer!Collect, RxServer!vars
<1> QED
  BY <1>3, <1>4, PartsInvInit, PartsInvNext, PTL DEF Spec, RxServer!SafeSpec

(* net.h:149-182: so does the transmit queue, writes that fail included.   *)
THEOREM TxImplementsFifo == Spec => TxServer!SafeSpec
<1> DEFINE P == PendingIn(vq[1], posted[1])
           D == DoneIn(vq[1], last_used[1])
           Mapped == PendingOf(1) = P /\ DoneOf(1) = D
<1>1. PartsInv => Mapped
  BY TwoQueues, ServerSequences DEF PartsInv
<1> HIDE DEF Mapped
<1>2. PartsInv' => Mapped'
  BY <1>1, PTL
<1>3. Init => TxServer!Init
  <2> SUFFICES ASSUME Init PROVE TxServer!Init
    OBVIOUS
  <2>1. vq[1].used_idx = 0 /\ posted[1] = 0 /\ last_used[1] = 0
    BY TwoQueues DEF Init, GuestInit, FreshQueue
  <2>2. 1 .. posted[1] - vq[1].used_idx = {} /\ 1 .. vq[1].used_idx - last_used[1] = {}
    BY <2>1
  <2> QED
    BY <2>2 DEF PendingOf, DoneOf, TxServer!Init
<1>4. PartsInv /\ PartsInv' /\ [Next]_vars => [TxServer!Next]_(TxServer!vars)
  <2> SUFFICES ASSUME PartsInv, PartsInv', [Next]_vars
               PROVE  [TxServer!Next]_(TxServer!vars)
    OBVIOUS
  <2>1. ServerStep(P, D, P', D')
    BY TxQueueSteps
  <2>2. ServerStep(PendingOf(1), DoneOf(1), PendingOf(1)', DoneOf(1)')
    BY <1>1, <1>2, <2>1 DEF Mapped
  <2> HIDE DEF P, D
  <2> QED
    BY <2>2 DEF ServerStep, IsIn, TxServer!Contains, TxServer!Next, TxServer!Submit,
                TxServer!Serve, TxServer!Collect, TxServer!vars
<1> QED
  BY <1>3, <1>4, PartsInvInit, PartsInvNext, PTL DEF Spec, TxServer!SafeSpec

=============================================================================
