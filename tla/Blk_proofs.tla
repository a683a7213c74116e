------------------------------ MODULE Blk_proofs ------------------------------
(***************************************************************************)
(* Theorems about the block device of Blk, for every value of its          *)
(* constants.  The first part gives every variable and every ring slot its *)
(* type; the second relates the ring indices, the interrupt line and the   *)
(* two program counters, which is what NoLostInterrupt needs; the third    *)
(* says who holds a chain: each head the driver has given away is in the   *)
(* avail ring and not taken, with blk::run, or in the used ring and not    *)
(* reaped, and in one of these places only.  From this follow              *)
(* ChainOwnedWhileServed and that the device implements FifoServer.  The   *)
(* last gives every chain under way the image it will find and the one it  *)
(* will leave, from which CompletedInOrder follows.                        *)
(***************************************************************************)
EXTENDS Blk, Rings_proofs

(* What the assumptions say of the sizes, in the form the steps use. *)
LEMMA Sizes ==
  /\ IdxMod \in Nat \ {0}
  /\ QUEUE_SIZE_MAX \in Nat \ {0}
  /\ QueueNum \in Nat \ {0}
  /\ QueueNum <= QUEUE_SIZE_MAX
  /\ QUEUE_SIZE_MAX <= IdxMod
  /\ Queues = {0}
  BY RingSizes, BlkConstants DEF BlkConstants, Queues

-----------------------------------------------------------------------------
(* Types.                                                                  *)

(* TypeOK needs to know when the queue has its size, that ring slots only  *)
(* ever hold heads, and what the length counts.                            *)
TypeInv ==
  /\ TypeOK
  /\ ~q.ready => bpc = "next" /\ gpc = "idle" /\ irq.events = 0
  /\ q.ready => q.size = QueueNum
  /\ RingsHoldHeads(q)
  /\ bpc = "data" => len = seg - 1

(* A step that replaces the queue replaces vq[0] and leaves vq a function. *)
LEMMA VqUpdate ==
  ASSUME vq \in [Queues -> Queue], NEW e \in Queue, vq' = [vq EXCEPT ![0] = e]
  PROVE  vq' \in [Queues -> Queue] /\ q' = e
  BY Sizes DEF q

(* The initial state is well typed. *)
LEMMA TypeInvInit == Init => TypeInv
<1> SUFFICES ASSUME Init PROVE TypeInv
  OBVIOUS
<1> USE DEF Init, GuestInit
<1>1. FreshQueue \in Queue
  BY Sizes DEF FreshQueue, Queue, Word
<1>2. vq \in [Queues -> Queue] /\ q = FreshQueue
  BY <1>1, Sizes DEF q
<1>3. 0 \in Heads /\ 0 \in Word
  BY Sizes DEF Heads, Word
<1>4. GuestTypeOK
  BY <1>2, <1>3, Sizes, GuestConstants
  DEF GuestTypeOK, GuestConstants, Line, LowLine
<1>5. RingsHoldHeads(q)
  BY <1>2, <1>3, Sizes DEF RingsHoldHeads, FreshQueue
<1>6. <<Blank>> \in Buffers(Unit)
  <2>1. 1 \in 1 .. MaxSegs
    BY BlkConstants DEF BlkConstants
  <2>2. <<Blank>> \in [1 .. 1 -> Unit]
    BY DEF Unit
  <2> QED
    BY <2>1, <2>2 DEF Buffers
<1>7. mem \in [Heads -> Request]
  <2> DEFINE r == [type |-> "IN", sector |-> 0, buf |-> <<Blank>>, status |-> "none"]
  <2>1. r \in Request
    BY <1>6, BlkConstants DEF Request, BlkConstants
  <2> HIDE DEF r
  <2>2. mem = [h \in Heads |-> r]
    BY DEF r
  <2> QED
    BY <2>1, <2>2
<1>8. disk \in [0 .. Capacity - 1 -> Unit]
  BY BlkConstants DEF BlkConstants, Unit
<1>9. TypeOK
  BY <1>3, <1>4, <1>7, <1>8, BlkConstants DEF TypeOK, BlkConstants
<1> QED
  BY <1>2, <1>5, <1>9 DEF TypeInv, FreshQueue, LowLine

(* The requests a driver builds are requests. *)
LEMMA RequestsTyped == Requests \subseteq Request
<1>1. Buffers({Blank}) \subseteq Buffers(Unit) /\ Buffers(Data) \subseteq Buffers(Unit)
  <2>1. \A S, T : S \subseteq T => Buffers(S) \subseteq Buffers(T)
    BY DEF Buffers
  <2>2. {Blank} \subseteq Unit /\ Data \subseteq Unit
    BY DEF Unit
  <2> QED
    BY <2>1, <2>2
<1>2. <<Blank>> \in Buffers(Unit)
  <2>1. 1 \in 1 .. MaxSegs
    BY BlkConstants DEF BlkConstants
  <2>2. <<Blank>> \in [1 .. 1 -> Unit]
    BY DEF Unit
  <2> QED
    BY <2>1, <2>2 DEF Buffers
<1>3. \A t \in {"IN", "OUT", "GET_ID", "OTHER"}, s \in 0 .. Capacity - 1, b \in Buffers(Unit) :
        Req(t, s, b) \in Request
  BY DEF Request, Req
<1>4. 0 \in 0 .. Capacity - 1
  BY BlkConstants DEF BlkConstants
<1>5. Transfers("IN", {Blank}) \subseteq Request /\ Transfers("OUT", Data) \subseteq Request
  BY <1>1, <1>3 DEF Transfers
<1>6. Req("GET_ID", 0, <<Blank>>) \in Request /\ Req("OTHER", 0, <<Blank>>) \in Request
  BY <1>2, <1>3, <1>4
<1> QED
  BY <1>5, <1>6, Zenon DEF Requests

(* A step of the guest keeps every type. *)
LEMMA TypeInvGuest ==
  ASSUME TypeInv, GuestSetup \/ GuestPost \/ GuestHandler
  PROVE  TypeInv'
<1> USE DEF TypeInv, TypeOK, GuestTypeOK
<1>0. scan = 0 /\ vq[0] = q /\ q \in Queue
  BY Sizes DEF q
<1>1. CASE GuestSetup
  <2> DEFINE e == set_ready([q EXCEPT !.size = QueueNum])
  <2>1. e \in Queue /\ e.ready /\ e.size = QueueNum /\ RingsHoldHeads(e)
    BY <1>0, SetupQueueTyped
  <2>2. vq' = [vq EXCEPT ![0] = e]
    BY <1>1, <1>0 DEF GuestSetup, SetupQueue
  <2> HIDE DEF e
  <2>3. vq' \in [Queues -> Queue] /\ q' = e
    BY <2>1, <2>2, VqUpdate
  <2> QED
    BY <1>1, <2>1, <2>3 DEF GuestSetup, SetupQueue, threadVars, ghostVars
<1>2. CASE GuestPost
  <2>1. PICK h \in free[0], r \in Requests :
          /\ Post(0, h)
          /\ mem' = [mem EXCEPT ![h] = r]
          /\ UNCHANGED threadVars
    BY <1>2 DEF GuestPost
  <2>2. h \in Heads /\ r \in Request
    BY <2>1, Sizes, RequestsTyped
  <2>3. q \in ProgrammedQueue
    BY <1>0, <2>1 DEF Post, ProgrammedQueue
  <2> DEFINE e == post_avail(q, h)
  <2>4. e \in ProgrammedQueue /\ RingsHoldHeads(e)
    BY <2>2, <2>3, PostAvailQueue
  <2>5. e.ready
    BY <1>0, <2>1 DEF Post, post_avail, Queue
  <2>6. vq' = [vq EXCEPT ![0] = e]
    BY <1>0, <2>1 DEF Post
  <2> HIDE DEF e
  <2>7. vq' \in [Queues -> Queue] /\ q' = e
    BY <2>4, <2>6, VqUpdate DEF ProgrammedQueue
  <2>8. free' \in [Queues -> SUBSET Heads] /\ posted' \in [Queues -> 0 .. MaxPosts]
    BY <2>1, GuestConstants, Sizes DEF Post, GuestConstants
  <2>9. mem' \in [Heads -> Request]
    BY <2>1, <2>2
  <2> QED
    BY <2>1, <2>4, <2>5, <2>7, <2>8, <2>9 DEF Post, threadVars, ProgrammedQueue
<1>3. CASE GuestHandler
  <2> USE <1>3 DEF GuestHandler, threadVars, ghostVars
  <2>1. CASE IrqEntry
    <3>1. irq' = drain_events(irq) /\ q.ready
      BY <2>1 DEF IrqEntry
    <3>2. irq \in Line
      OBVIOUS
    <3>3. irq' \in Line
      BY ONLY <3>1, <3>2, DrainedLine
    <3> QED
      BY <2>1, <3>1, <3>3 DEF IrqEntry, q
  <2>2. CASE ReadStatus
    BY <2>2 DEF ReadStatus, q
  <2>3. CASE AckIrq
    BY <2>3, SetLevelLine, Sizes DEF AckIrq, q
  <2>4. CASE Reap
    <3>1. q \in ProgrammedQueue
      BY <1>0, <2>4 DEF Reap, ProgrammedQueue
    <3>2. last_used[0] \in Word
      BY Sizes
    <3>3. used_elem(q, last_used[0]).id \in Heads
      BY <3>1, <3>2, UsedElemIsHead
    <3>4. free' \in [Queues -> SUBSET Heads]
      BY <1>0, <2>4, <3>3, Sizes DEF Reap
    <3>5. (last_used[0] + 1) % IdxMod \in Word
      <4>1. last_used[0] + 1 \in Int
        BY <3>2, Sizes DEF Word
      <4> QED
        BY <4>1, ModRange, Sizes DEF Word
    <3>6. last_used' \in [Queues -> Word]
      BY <1>0, <2>4, <3>5, Sizes DEF Reap
    <3> QED
      BY <2>4, <3>4, <3>6 DEF Reap, q
  <2>5. CASE PublishEvent
    <3>1. q \in ProgrammedQueue
      BY <1>0, <2>5 DEF PublishEvent, ProgrammedQueue
    <3>2. last_used[0] \in Word
      BY Sizes
    <3> DEFINE e == publish_used_event(q, last_used[0])
    <3>3. e \in ProgrammedQueue /\ RingsHoldHeads(e)
      BY <3>1, <3>2, PublishQueue
    <3>4. e.ready
      BY <1>0, <2>5 DEF PublishEvent, publish_used_event, Queue
    <3>5. vq' = [vq EXCEPT ![0] = e]
      BY <1>0, <2>5 DEF PublishEvent
    <3> HIDE DEF e
    <3>6. vq' \in [Queues -> Queue] /\ q' = e
      BY <3>3, <3>5, VqUpdate DEF ProgrammedQueue
    <3> QED
      BY <2>5, <3>3, <3>4, <3>6 DEF PublishEvent, ProgrammedQueue
  <2>6. CASE Recheck
    BY <2>6, Sizes DEF Recheck, q
  <2> QED
    BY <2>1, <2>2, <2>3, <2>4, <2>5, <2>6 DEF Handler
<1> QED
  BY <1>1, <1>2, <1>3

(* A step of blk::run keeps every type. *)
LEMMA TypeInvThread ==
  ASSUME TypeInv, Thread
  PROVE  TypeInv'
<1> USE DEF TypeInv, TypeOK, GuestTypeOK
<1>0. scan = 0 /\ vq[0] = q /\ q \in Queue
  BY Sizes DEF q
<1>a. bpc # "next" => q \in ProgrammedQueue
  BY <1>0 DEF ProgrammedQueue
<1>b. \A h \in Heads : \E n \in 1 .. MaxSegs :
        mem[h].buf \in [1 .. n -> Unit] /\ Len(mem[h].buf) = n
  <2> SUFFICES ASSUME NEW h \in Heads
               PROVE  \E n \in 1 .. MaxSegs :
                        mem[h].buf \in [1 .. n -> Unit] /\ Len(mem[h].buf) = n
    OBVIOUS
  <2>0. mem[h].buf \in Buffers(Unit)
    BY DEF Request
  <2>1. PICK n \in 1 .. MaxSegs : mem[h].buf \in [1 .. n -> Unit]
    BY <2>0 DEF Buffers
  <2>2. n \in Nat
    BY BlkConstants DEF BlkConstants
  <2>3. mem[h].buf \in Seq(Unit) /\ Len(mem[h].buf) = n
    BY <2>1, <2>2
  <2> QED
    BY <2>1, <2>3
<1>1. CASE Take
  <2>1. q \in ProgrammedQueue
    BY <1>0, <1>1 DEF Take, has_next, ProgrammedQueue
  <2> DEFINE e == next(q)
  <2>2. e \in ProgrammedQueue /\ RingsHoldHeads(e)
    BY <2>1, NextQueue
  <2>3. e.ready
    BY <1>0, <1>1 DEF Take, has_next, next, Queue
  <2>4. vq' = [vq EXCEPT ![0] = e]
    BY <1>0, <1>1 DEF Take
  <2> HIDE DEF e
  <2>5. vq' \in [Queues -> Queue] /\ q' = e
    BY <2>2, <2>4, VqUpdate DEF ProgrammedQueue
  <2>6. cur' = avail_id(e)
    BY <1>1, <2>5, Sizes DEF Take, q
  <2>7. cur' \in Heads
    BY <2>2, <2>6, AvailIdIsHead
  <2> QED
    BY <1>1, <2>2, <2>3, <2>5, <2>7 DEF Take, ProgrammedQueue
<1>2. CASE Start
  <2>1. desc_start' \in Heads
    BY <1>2, <1>a, AvailIdIsHead DEF Start
  <2>2. pos' \in 0 .. Capacity
    BY <1>2, BlkConstants DEF Start, Request, BlkConstants
  <2>3. 0 \in 0 .. MaxSegs + 1 /\ 1 \in 1 .. MaxSegs + 1
    BY BlkConstants DEF BlkConstants
  <2> QED
    BY <1>2, <2>1, <2>2, <2>3 DEF Start, guestVars, ghostVars, q
<1>3. CASE MoveData
  <2>1. PICK n \in 1 .. MaxSegs :
          mem[cur].buf \in [1 .. n -> Unit] /\ Len(mem[cur].buf) = n
    BY <1>b
  <2>2. seg \in 1 .. n /\ seg \in 1 .. MaxSegs
    BY <1>3, <2>1, BlkConstants DEF MoveData, BlkConstants
  <2>3. PICK ok \in BOOLEAN : Transfer(ok) /\ (ok => CanMove)
    BY <1>3 DEF MoveData, CanMove
  <2>4. ok => pos \in 0 .. Capacity - 1
    BY <2>3 DEF CanMove
  <2>5. pos' \in 0 .. Capacity /\ good' \in BOOLEAN
    BY <2>3, <2>4, BlkConstants DEF Transfer, BlkConstants
  <2>6. mem' \in [Heads -> Request]
    <3>1. CASE ~(mem[cur].type = "IN" /\ ok)
      BY <2>3, <3>1 DEF Transfer
    <3>2. CASE mem[cur].type = "IN" /\ ok
      <4> DEFINE b == [mem[cur].buf EXCEPT ![seg] = disk[pos]]
                 r == [mem[cur] EXCEPT !.buf = b]
      <4>1. disk[pos] \in Unit
        BY <2>4, <3>2
      <4>2. b \in [1 .. n -> Unit]
        BY <2>1, <4>1
      <4>3. b \in Buffers(Unit)
        BY <4>2 DEF Buffers
      <4>4. mem' = [mem EXCEPT ![cur] = r]
        BY <2>3, <3>2 DEF Transfer
      <4> HIDE DEF b
      <4>5. r \in Request
        BY <4>3 DEF Request
      <4> HIDE DEF r
      <4> QED
        BY <4>4, <4>5
    <3> QED
      BY <3>1, <3>2
  <2>7. disk' \in [0 .. Capacity - 1 -> Unit]
    <3>1. mem[cur].buf[seg] \in Unit
      BY <2>1, <2>2
    <3> QED
      BY <2>3, <3>1 DEF Transfer
  <2>8. len' = seg' - 1 /\ seg' \in 1 .. MaxSegs + 1 /\ len' \in 0 .. MaxSegs + 1
    BY <1>3, <2>2, BlkConstants DEF MoveData, BlkConstants
  <2> QED
    BY <1>3, <2>5, <2>6, <2>7, <2>8 DEF MoveData, guestVars, ghostVars, q
<1>4. CASE CopyId
  <2>1. PICK n \in 1 .. MaxSegs : mem[cur].buf \in [1 .. n -> Unit]
    BY <1>b
  <2> DEFINE b == [mem[cur].buf EXCEPT ![1] = DISK_ID]
             r == [mem[cur] EXCEPT !.buf = b]
  <2>2. b \in [1 .. n -> Unit]
    BY <2>1 DEF Unit
  <2>3. b \in Buffers(Unit)
    BY <2>2 DEF Buffers
  <2>4. mem' = [mem EXCEPT ![cur] = r]
    BY <1>4 DEF CopyId
  <2> HIDE DEF b
  <2>5. r \in Request
    BY <2>3 DEF Request
  <2> HIDE DEF r
  <2>6. mem' \in [Heads -> Request]
    BY <2>4, <2>5
  <2>7. len' = seg' - 1 /\ seg' \in 1 .. MaxSegs + 1 /\ len' \in 0 .. MaxSegs + 1
    BY <1>4, BlkConstants DEF CopyId, BlkConstants
  <2> QED
    BY <1>4, <2>6, <2>7 DEF CopyId, guestVars, ghostVars, q
<1>5. CASE WriteStatus
  <2> DEFINE r == [mem[cur] EXCEPT !.status = "OK"]
  <2>1. r \in Request
    BY DEF Request
  <2>2. mem' = [mem EXCEPT ![cur] = r]
    BY <1>5 DEF WriteStatus
  <2> HIDE DEF r
  <2>3. mem' \in [Heads -> Request]
    BY <2>1, <2>2
  <2>4. len' \in 0 .. MaxSegs + 1
    BY <1>5, BlkConstants DEF WriteStatus, BlkConstants
  <2> QED
    BY <1>5, <2>3, <2>4 DEF WriteStatus, guestVars, ghostVars, q
<1>6. CASE UseElem
  <2>1. q \in ProgrammedQueue /\ len \in Nat
    BY <1>6, <1>a, BlkConstants DEF UseElem, BlkConstants
  <2> DEFINE e == add_used_elem(q, desc_start, len)
  <2>2. e \in ProgrammedQueue /\ RingsHoldHeads(e)
    BY <2>1, AddUsedElemQueue
  <2>3. e.ready
    BY <1>0, <1>6 DEF UseElem, add_used_elem, Queue
  <2>4. vq' = [vq EXCEPT ![0] = e]
    BY <1>0, <1>6 DEF UseElem
  <2> HIDE DEF e
  <2>5. vq' \in [Queues -> Queue] /\ q' = e
    BY <2>2, <2>4, VqUpdate DEF ProgrammedQueue
  <2> QED
    BY <1>6, <2>2, <2>3, <2>5 DEF UseElem, ProgrammedQueue
<1>7. CASE UseIdx
  <2>1. q \in ProgrammedQueue
    BY <1>7, <1>a DEF UseIdx
  <2> DEFINE e == add_used_idx(q)
  <2>2. e \in ProgrammedQueue /\ RingsHoldHeads(e)
    BY <2>1, AddUsedIdxQueue
  <2>3. e.ready
    BY <1>0, <1>7 DEF UseIdx, add_used_idx, Queue
  <2>4. vq' = [vq EXCEPT ![0] = e]
    BY <1>0, <1>7 DEF UseIdx
  <2> HIDE DEF e
  <2>5. vq' \in [Queues -> Queue] /\ q' = e
    BY <2>2, <2>4, VqUpdate DEF ProgrammedQueue
  <2> QED
    BY <1>7, <2>2, <2>3, <2>5 DEF UseIdx, ProgrammedQueue
<1>8. CASE CheckEvent
  BY <1>8 DEF CheckEvent, guestVars, ghostVars, q
<1>9. CASE RaiseIrq
  <2>1. irq' \in Line
    BY <1>9, SetLevelLine DEF RaiseIrq
  <2>2. q.ready
    BY <1>9 DEF RaiseIrq
  <2> QED
    BY <1>9, <2>1, <2>2 DEF RaiseIrq, q
<1> QED
  BY <1>1, <1>2, <1>3, <1>4, <1>5, <1>6, <1>7, <1>8, <1>9 DEF Thread

(* TypeInv is inductive. *)
LEMMA TypeInvNext == TypeInv /\ [Next]_vars => TypeInv'
<1> SUFFICES ASSUME TypeInv, [Next]_vars PROVE TypeInv'
  OBVIOUS
<1>1. CASE UNCHANGED vars
  BY <1>1 DEF vars, guestVars, threadVars, ghostVars, TypeInv, TypeOK, GuestTypeOK, q
<1>2. CASE Sleep
  BY <1>1, <1>2 DEF Sleep
<1>3. CASE GuestSetup \/ GuestPost \/ GuestHandler
  BY <1>3, TypeInvGuest
<1>4. CASE Thread
  BY <1>4, TypeInvThread
<1> QED
  BY <1>1, <1>2, <1>3, <1>4 DEF Next

(* The device's locals, the rings, the image and guest memory always hold  *)
(* values of their types: indices stay 16 bits wide, blk::run never leaves *)
(* the image, and no length exceeds what its chain can hold.               *)
THEOREM TypeCorrect == Spec => []TypeOK
<1>1. TypeInv => TypeOK
  BY DEF TypeInv
<1> QED
  BY <1>1, TypeInvInit, TypeInvNext, PTL DEF Spec

-----------------------------------------------------------------------------
(* The interrupt line: whatever the sizes, it is high exactly while one    *)
(* edge is pending or the handler has taken it and not acknowledged it.    *)

LineInv ==
  IF gpc \in {"status", "ack"}
  THEN irq.level /\ irq.events = 0
  ELSE irq.events = (IF irq.level THEN 1 ELSE 0)

(* Only RaiseIrq raises the line and only AckIrq lowers it, once the edge  *)
(* has been taken.                                                         *)
LEMMA LineInvNext == TypeInv /\ LineInv /\ [Next]_vars => LineInv'
<1> SUFFICES ASSUME TypeInv, LineInv, [Next]_vars PROVE LineInv'
  OBVIOUS
<1>0. irq \in Line
  BY DEF TypeInv, TypeOK, GuestTypeOK
<1> USE DEF LineInv
<1>1. CASE UNCHANGED <<irq, gpc>>
  BY <1>1
<1>2. CASE IrqEntry
  BY <1>0, <1>2 DEF IrqEntry, drain_events, Line
<1>3. CASE ReadStatus
  BY <1>3 DEF ReadStatus
<1>4. CASE AckIrq
  BY <1>0, <1>4 DEF AckIrq, set_level, Line
<1>5. CASE PublishEvent
  BY <1>5 DEF PublishEvent
<1>6. CASE Recheck
  BY <1>6 DEF Recheck
<1>7. CASE RaiseIrq
  BY <1>0, <1>7 DEF RaiseIrq, set_level, Line
<1>8. (\/ UNCHANGED vars
       \/ Sleep
       \/ GuestSetup \/ GuestPost \/ Reap
       \/ (Thread /\ ~RaiseIrq)) => UNCHANGED <<irq, gpc>>
  BY DEF vars, guestVars, Sleep, GuestSetup, SetupQueue, GuestPost, Post, Reap, Thread,
         Take, Start, MoveData, CopyId, WriteStatus, UseElem, UseIdx, CheckEvent
<1> QED
  BY <1>1, <1>2, <1>3, <1>4, <1>5, <1>6, <1>7, <1>8 DEF Next, GuestHandler, Handler

(* interrupt.h:22-24 and device.h:52-54 together never let the eventfd     *)
(* hold two edges, nor one after the line has been lowered.                *)
THEOREM OneEdge == Spec => []OneEdgeAtATime
<1>1. Init => LineInv
  BY DEF Init, GuestInit, LineInv, LowLine
<1>2. LineInv => OneEdgeAtATime
  BY DEF LineInv, OneEdgeAtATime
<1> QED
  BY <1>1, <1>2, TypeInvInit, TypeInvNext, LineInvNext, PTL DEF Spec

-----------------------------------------------------------------------------
(* No lost interrupt.                                                      *)

(* The indices never pass one another, hence never wrap: next() refuses    *)
(* the last index before they would.                                       *)
IdxInv ==
  /\ last_used[0] <= q.used_idx
  /\ q.used_idx <= q.last_avail
  /\ q.last_avail <= IdxMod - 1
  /\ bpc \in {"start", "data", "elem", "idx"} => q.used_idx < q.last_avail

(* Outside the drain loop the published event is the index reached; and an *)
(* idle handler without a pending edge has at most one chain to reap, the  *)
(* one whose event the thread is about to check.                           *)
EventInv ==
  /\ gpc # "drain" => used_event(q) = last_used[0]
  /\ gpc = "idle" /\ irq.events = 0 /\ q.used_idx # last_used[0]
       => bpc \in {"event", "irq"} /\ q.used_idx = last_used[0] + 1

(* What a step does to the indices, seen from the interrupt's side.        *)
LEMMA IdxInvNext == TypeInv /\ IdxInv /\ [Next]_vars => IdxInv'
<1> SUFFICES ASSUME TypeInv, IdxInv, [Next]_vars PROVE IdxInv'
  OBVIOUS
<1>0. /\ scan = 0 /\ vq[0] = q /\ q \in Queue
      /\ last_used \in [Queues -> Word] /\ last_used[0] \in Nat
      /\ q.used_idx \in Nat /\ q.avail_idx \in Nat /\ q.last_avail \in Nat
      /\ q.avail_idx <= IdxMod - 1
  <2>1. scan = 0 /\ vq[0] = q /\ q \in Queue /\ last_used \in [Queues -> Word]
    BY Sizes DEF q, TypeInv, TypeOK, GuestTypeOK
  <2>2. last_used[0] \in Word
    BY <2>1, Sizes
  <2> QED
    BY <2>1, <2>2, Sizes DEF Queue, Word
<1>a. vq \in [Queues -> Queue] /\ bpc \in {"next", "start", "data", "elem", "idx", "event", "irq"}
  BY DEF TypeInv, TypeOK, GuestTypeOK
<1>b. q' = vq'[0]
  BY DEF q
<1> USE DEF IdxInv
<1>1. CASE GuestSetup
  BY <1>0, <1>1, <1>a, <1>b, Sizes DEF GuestSetup, SetupQueue, set_ready, threadVars, Queue
<1>2. CASE GuestPost
  <2>1. PICK h \in free[0] : Post(0, h) /\ UNCHANGED threadVars
    BY <1>2 DEF GuestPost
  <2>2. q' = post_avail(q, h)
    BY <1>0, <1>a, <1>b, <2>1, Sizes DEF Post
  <2>3. q'.used_idx = q.used_idx /\ q'.last_avail = q.last_avail
    BY <1>0, <2>2 DEF post_avail, Queue
  <2> QED
    BY <2>1, <2>3 DEF Post, threadVars
<1>3. CASE Reap /\ UNCHANGED threadVars
  <2>1. last_used[0] + 1 <= q.used_idx /\ last_used[0] + 1 \in 0 .. IdxMod - 1
    BY <1>0, <1>3, Sizes DEF Reap
  <2>2. (last_used[0] + 1) % IdxMod = last_used[0] + 1
    BY <2>1, Sizes
  <2>3. last_used'[0] = last_used[0] + 1
    BY <1>0, <1>3, <2>2, Sizes DEF Reap
  <2> QED
    BY <1>3, <1>b, <2>1, <2>3 DEF Reap, threadVars, q
<1>4. CASE PublishEvent /\ UNCHANGED threadVars
  <2>1. q' = publish_used_event(q, last_used[0])
    BY <1>0, <1>4, <1>a, <1>b, Sizes DEF PublishEvent
  <2>2. q'.used_idx = q.used_idx /\ q'.last_avail = q.last_avail
    BY <1>0, <2>1 DEF publish_used_event, Queue
  <2> QED
    BY <1>4, <2>2 DEF PublishEvent, threadVars
<1>5. CASE Take
  <2>1. q' = next(q)
    BY <1>0, <1>5, <1>a, <1>b, Sizes DEF Take
  <2>2. q'.used_idx = q.used_idx /\ q'.last_avail = q.last_avail + 1
    BY <1>0, <2>1 DEF next, Queue
  <2> QED
    BY <1>0, <1>5, <2>2, Sizes DEF Take, has_next
<1>6. CASE UseElem
  <2>1. q' = add_used_elem(q, desc_start, len)
    BY <1>0, <1>6, <1>a, <1>b, Sizes DEF UseElem
  <2>2. q'.used_idx = q.used_idx /\ q'.last_avail = q.last_avail
    BY <1>0, <2>1 DEF add_used_elem, Queue
  <2> QED
    BY <1>6, <2>2 DEF UseElem
<1>7. CASE UseIdx
  <2>1. q.used_idx + 1 \in 0 .. IdxMod - 1 /\ q.used_idx + 1 <= q.last_avail
    BY <1>0, <1>7, Sizes DEF UseIdx
  <2>2. (q.used_idx + 1) % IdxMod = q.used_idx + 1
    BY <2>1, Sizes
  <2>3. q' = add_used_idx(q)
    BY <1>0, <1>7, <1>a, <1>b, Sizes DEF UseIdx
  <2>4. q'.used_idx = q.used_idx + 1 /\ q'.last_avail = q.last_avail
    BY <1>0, <2>2, <2>3 DEF add_used_idx, Queue
  <2> QED
    BY <1>0, <1>7, <2>1, <2>4 DEF UseIdx
<1>8. CASE /\ UNCHANGED <<vq, last_used>>
           /\ (bpc' \in {"start", "data", "elem", "idx"} => bpc \in {"start", "data", "elem", "idx"})
  BY <1>8 DEF q
<1>9. (\/ UNCHANGED vars
       \/ Sleep
       \/ (IrqEntry \/ ReadStatus \/ AckIrq \/ Recheck) /\ UNCHANGED threadVars
       \/ Start \/ MoveData \/ CopyId \/ WriteStatus \/ CheckEvent \/ RaiseIrq)
      => /\ UNCHANGED <<vq, last_used>>
         /\ bpc' \in {"start", "data", "elem", "idx"} => bpc \in {"start", "data", "elem", "idx"}
  BY DEF vars, guestVars, threadVars, Sleep, IrqEntry, ReadStatus, AckIrq, Recheck,
         Start, MoveData, CopyId, WriteStatus, CheckEvent, RaiseIrq
<1> HIDE DEF IdxInv
<1>10. GuestHandler => UNCHANGED threadVars
  BY DEF GuestHandler
<1>11. CASE GuestHandler
  <2>1. Handler
    BY <1>11 DEF GuestHandler
  <2> QED
    BY <1>3, <1>4, <1>8, <1>9, <1>10, <1>11, <2>1 DEF Handler
<1>12. CASE Thread
  BY <1>5, <1>6, <1>7, <1>8, <1>9, <1>12 DEF Thread
<1> QED
  BY <1>1, <1>2, <1>8, <1>9, <1>11, <1>12 DEF Next

(* A handler that finds nothing more to reap leaves the event published;   *)
(* a chain returned after that makes the thread raise the line, which is   *)
(* low because the edge before it was acknowledged.                        *)
LEMMA EventInvNext ==
  ASSUME QueueNum = QUEUE_SIZE_MAX
  PROVE  TypeInv /\ LineInv /\ IdxInv /\ EventInv /\ [Next]_vars => EventInv'
<1> SUFFICES ASSUME TypeInv, LineInv, IdxInv, EventInv, [Next]_vars PROVE EventInv'
  OBVIOUS
<1>0. /\ scan = 0 /\ vq[0] = q /\ q \in Queue /\ irq \in Line
      /\ vq \in [Queues -> Queue] /\ last_used \in [Queues -> Word]
      /\ last_used[0] \in Word /\ last_used[0] \in Nat /\ q.used_idx \in Nat
  <2>1. /\ scan = 0 /\ vq[0] = q /\ q \in Queue /\ irq \in Line
        /\ vq \in [Queues -> Queue] /\ last_used \in [Queues -> Word]
    BY Sizes DEF q, TypeInv, TypeOK, GuestTypeOK
  <2>2. last_used[0] \in Word /\ q.used_idx \in Word
    BY <2>1, Sizes DEF Queue
  <2> QED
    BY <2>1, <2>2, Sizes DEF Word
<1>a. used_event(q) = q.avail_ring[QueueNum]
  BY DEF used_event
<1>b. q' = vq'[0] /\ used_event(q)' = used_event(q')
  BY DEF q, used_event
<1>c. q.ready => q \in ProgrammedQueue /\ RingsHoldHeads(q)
  BY <1>0 DEF TypeInv, ProgrammedQueue
<1> USE DEF EventInv
<1>1. CASE GuestSetup
  <2>1. q' = set_ready([q EXCEPT !.size = QueueNum])
    BY <1>0, <1>1, <1>b, Sizes DEF GuestSetup, SetupQueue
  <2>2. q'.used_idx = q.used_idx /\ q'.avail_ring = q.avail_ring
    BY <1>0, <2>1 DEF set_ready, Queue
  <2> QED
    BY <1>1, <1>b, <2>2 DEF GuestSetup, SetupQueue, threadVars, used_event
<1>2. CASE GuestPost
  <2>1. PICK h \in free[0] : Post(0, h) /\ UNCHANGED threadVars
    BY <1>2 DEF GuestPost
  <2>2. h \in Heads
    BY <2>1, Sizes DEF TypeInv, TypeOK, GuestTypeOK
  <2>3. q' = post_avail(q, h)
    BY <1>0, <1>b, <2>1, Sizes DEF Post
  <2>4. q'.used_idx = q.used_idx
    BY <1>0, <2>3 DEF post_avail, Queue
  <2>5. used_event(q') = used_event(q)
    BY <1>0, <1>c, <2>1, <2>2, <2>3, PostAvailQueue DEF Post, used_event
  <2> QED
    BY <1>b, <2>1, <2>4, <2>5 DEF Post, threadVars
<1>3. CASE GuestHandler
  <2>1. UNCHANGED <<bpc>>
    BY <1>3 DEF GuestHandler, threadVars
  <2>2. CASE IrqEntry
    BY <1>b, <2>1, <2>2 DEF IrqEntry, q, used_event
  <2>3. CASE ReadStatus
    BY <1>b, <2>1, <2>3 DEF ReadStatus, q, used_event, LineInv
  <2>4. CASE AckIrq
    BY <2>4 DEF AckIrq
  <2>5. CASE Reap
    BY <2>5 DEF Reap
  <2>6. CASE PublishEvent
    <3>1. q' = publish_used_event(q, last_used[0]) /\ last_used' = last_used
      BY <1>0, <1>b, <2>6, Sizes DEF PublishEvent
    <3>2. q.ready
      BY <2>6 DEF PublishEvent, TypeInv
    <3>3. used_event(q') = last_used[0]
      BY <1>0, <1>c, <3>1, <3>2, PublishQueue DEF used_event
    <3> QED
      BY <1>b, <2>6, <3>1, <3>3 DEF PublishEvent
  <2>7. CASE Recheck
    BY <1>0, <1>b, <2>7 DEF Recheck, q, used_event
  <2> QED
    BY <1>3, <2>2, <2>3, <2>4, <2>5, <2>6, <2>7 DEF GuestHandler, Handler
<1>4. CASE Take
  <2>1. q' = next(q)
    BY <1>0, <1>4, <1>b, Sizes DEF Take
  <2>2. q'.used_idx = q.used_idx /\ used_event(q') = used_event(q)
    BY <1>0, <2>1 DEF next, Queue, used_event
  <2> QED
    BY <1>4, <1>b, <2>2 DEF Take
<1>5. CASE UseElem
  <2>1. q' = add_used_elem(q, desc_start, len)
    BY <1>0, <1>5, <1>b, Sizes DEF UseElem
  <2>2. q'.used_idx = q.used_idx /\ q'.avail_ring = q.avail_ring
    BY <1>0, <2>1, AddUsedElemFields
  <2> QED
    BY <1>5, <1>b, <2>2 DEF UseElem, used_event
<1>6. CASE UseIdx
  <2>1. q.used_idx + 1 \in 0 .. IdxMod - 1
    <3>1. q.last_avail \in Nat /\ IdxMod \in Nat
      BY <1>0, Sizes DEF Queue
    <3>2. bpc = "idx"
      BY <1>6 DEF UseIdx
    <3>3. q.used_idx + 1 <= IdxMod - 1
      BY ONLY IdxInv, <1>0, <3>1, <3>2 DEF IdxInv
    <3> QED
      BY ONLY <1>0, <3>1, <3>3
  <2>2. (q.used_idx + 1) % IdxMod = q.used_idx + 1
    BY <2>1, Sizes
  <2>3. q' = add_used_idx(q)
    BY <1>0, <1>6, <1>b, Sizes DEF UseIdx
  <2>4. q'.used_idx = q.used_idx + 1 /\ used_event(q') = used_event(q)
    BY <1>0, <2>2, <2>3 DEF add_used_idx, Queue, used_event
  <2> QED
    BY <1>0, <1>6, <1>b, <2>4 DEF UseIdx
<1>7. CASE CheckEvent
  BY <1>0, <1>7, <1>b DEF CheckEvent, WantsInterrupt, guestVars, q, used_event
<1>8. CASE RaiseIrq
  <2>1. irq.events = 0 /\ gpc = "idle" => irq'.events = 1
    BY <1>0, <1>8 DEF RaiseIrq, set_level, LineInv, Line
  <2>2. irq.events # 0 => irq'.events # 0
    BY <1>0, <1>8 DEF RaiseIrq, set_level, Line
  <2>3. q' = q /\ UNCHANGED <<gpc, last_used>>
    BY <1>8 DEF RaiseIrq, q
  <2>4. ~(gpc' = "idle" /\ irq'.events = 0)
    BY <2>1, <2>2, <2>3
  <2> QED
    BY <1>b, <2>3, <2>4
<1>9. CASE /\ UNCHANGED <<vq, last_used, gpc, irq>>
           /\ bpc' = bpc \/ bpc \notin {"event", "irq"}
  BY <1>9, <1>b DEF q, used_event
<1>10. (\/ UNCHANGED vars \/ Sleep
        \/ Start \/ MoveData \/ CopyId \/ WriteStatus)
       => /\ UNCHANGED <<vq, last_used, gpc, irq>>
          /\ bpc' = bpc \/ bpc \notin {"event", "irq"}
  BY DEF vars, guestVars, threadVars, Sleep, Start, MoveData, CopyId, WriteStatus
<1> HIDE DEF EventInv
<1>11. CASE Thread
  BY <1>4, <1>5, <1>6, <1>7, <1>8, <1>9, <1>10, <1>11 DEF Thread
<1> QED
  BY <1>1, <1>2, <1>3, <1>9, <1>10, <1>11 DEF Next

(* vring_def.h:46: a driver that has published the used index it expects   *)
(* gets its interrupt, however its handler and blk::run interleave, as     *)
(* long as its ring has the full QUEUE_SIZE_MAX entries (with a shorter    *)
(* one it fails: the device reads used_event from another word).           *)
THEOREM InterruptNotLost ==
  ASSUME QueueNum = QUEUE_SIZE_MAX
  PROVE  Spec => []NoLostInterrupt
<1>1. Init => LineInv /\ IdxInv /\ EventInv
  BY Sizes DEF Init, GuestInit, LineInv, LowLine, IdxInv, EventInv, q, FreshQueue, used_event
<1>2. EventInv => NoLostInterrupt
  BY DEF EventInv, NoLostInterrupt
<1>3. TypeInv /\ LineInv /\ IdxInv /\ EventInv /\ [Next]_vars => EventInv'
  BY EventInvNext
<1> QED
  BY <1>1, <1>2, <1>3, TypeInvInit, TypeInvNext, LineInvNext, IdxInvNext, PTL DEF Spec

-----------------------------------------------------------------------------
(* Who holds a chain                                                       *)

Serving == bpc \in {"start", "data", "elem", "idx"}

(* The slot that is read a second time (blk.h:90) has not changed.         *)
RingInv ==
  /\ Counted(q, free[0], posted[0], last_used[0], IF Serving THEN 1 ELSE 0)
  /\ Apart(q, free[0], posted[0], last_used[0])
  /\ Serving => /\ Alone(q, free[0], posted[0], last_used[0], cur)
                /\ cur = AvailAt(q, q.last_avail - 1)
  /\ bpc \in {"data", "elem", "idx"} => desc_start = cur
  /\ bpc = "idx" => UsedAt(q, q.used_idx) = cur

LEMMA StateTypes ==
  ASSUME TypeInv
  PROVE  /\ scan = 0 /\ vq[0] = q /\ q \in Queue /\ vq \in [Queues -> Queue]
         /\ last_used[0] \in Nat /\ q.used_idx \in Nat /\ q.last_avail \in Nat
         /\ q.avail_idx \in Nat /\ posted[0] \in Nat /\ free[0] \subseteq Heads
         /\ last_used[0] \in Word /\ q.used_idx \in Word
         /\ last_used \in [Queues -> Word] /\ free \in [Queues -> SUBSET Heads]
         /\ posted \in [Queues -> 0 .. MaxPosts] /\ MaxPosts \in Nat
         /\ q.ready => q \in ProgrammedQueue
<1>1. /\ scan = 0 /\ vq[0] = q /\ q \in Queue /\ vq \in [Queues -> Queue]
      /\ last_used \in [Queues -> Word] /\ free \in [Queues -> SUBSET Heads]
      /\ posted \in [Queues -> 0 .. MaxPosts] /\ MaxPosts \in Nat
  BY Sizes, GuestConstants DEF q, TypeInv, TypeOK, GuestTypeOK, GuestConstants
<1>2. /\ last_used[0] \in Word /\ q.used_idx \in Word /\ q.avail_idx \in Word
      /\ q.last_avail \in Nat /\ posted[0] \in Nat /\ free[0] \subseteq Heads
  BY <1>1, Sizes DEF Queue
<1>3. q.ready => q \in ProgrammedQueue
  BY <1>1 DEF TypeInv, ProgrammedQueue
<1> QED
  BY <1>1, <1>2, <1>3, Sizes DEF Word

LEMMA QuietStep ==
  ASSUME TypeInv, RingInv,
         \A n \in Int : AvailAt(q', n) = AvailAt(q, n) /\ UsedAt(q', n) = UsedAt(q, n),
         q'.last_avail = q.last_avail, q'.used_idx = q.used_idx, q'.avail_idx = q.avail_idx,
         UNCHANGED <<bpc, cur, desc_start, last_used, free, posted>>
  PROVE  RingInv'
<1> DEFINE F == free[0]
           p == posted[0]
           l == last_used[0]
<1>1. q \in Queue /\ p \in Nat /\ l \in Nat
  BY StateTypes
<1>2. UNCHANGED <<F, p, l, Serving>>
  BY DEF Serving
<1>3. /\ \A s : Counted(q, F, p, l, s) => Counted(q', F, p, l, s)
      /\ Apart(q, F, p, l) => Apart(q', F, p, l)
      /\ \A c : Alone(q, F, p, l, c) => Alone(q', F, p, l, c)
      /\ AvailAt(q', q'.last_avail - 1) = AvailAt(q, q.last_avail - 1)
      /\ UsedAt(q', q'.used_idx) = UsedAt(q, q.used_idx)
  BY <1>1, SameRings
<1> QED
  BY <1>2, <1>3 DEF RingInv

(* The steps of the guest.                                                 *)
LEMMA RingInvGuest ==
  ASSUME TypeInv, IdxInv, RingInv, GuestSetup \/ GuestPost \/ GuestHandler
  PROVE  RingInv'
<1> DEFINE F == free[0]
           p == posted[0]
           l == last_used[0]
           s == IF Serving THEN 1 ELSE 0
<1>0. /\ scan = 0 /\ vq[0] = q /\ q \in Queue /\ vq \in [Queues -> Queue] /\ q' = vq'[0]
      /\ l \in Nat /\ q.used_idx \in Nat /\ q.last_avail \in Nat
      /\ p \in Nat /\ F \in SUBSET Heads /\ l \in Word /\ q.used_idx \in Word
      /\ q.ready => q \in ProgrammedQueue
  BY StateTypes DEF q
<1>a. Queues = {0} /\ s \in {0, 1}
  BY Sizes
<1>b. UNCHANGED <<bpc, cur, desc_start>> /\ s' = s /\ Serving' = Serving
  BY DEF GuestSetup, GuestPost, GuestHandler, threadVars, Serving
<1>1. CASE GuestSetup
  <2> DEFINE z == [q EXCEPT !.size = QueueNum]
  <2>1. q' = set_ready(z) /\ UNCHANGED <<last_used, free, posted>>
    BY <1>0, <1>1, <1>a DEF GuestSetup, SetupQueue
  <2>2. /\ z.avail_ring = q.avail_ring /\ z.used_ring = q.used_ring
        /\ z.last_avail = q.last_avail /\ z.used_idx = q.used_idx /\ z.avail_idx = q.avail_idx
    BY <1>0 DEF Queue
  <2>3. /\ q'.avail_ring = z.avail_ring /\ q'.used_ring = z.used_ring
        /\ q'.last_avail = z.last_avail /\ q'.used_idx = z.used_idx
        /\ q'.avail_idx = z.avail_idx
    BY <1>0, <2>1 DEF set_ready, Queue
  <2> HIDE DEF z
  <2>4. \A n \in Int : AvailAt(q', n) = AvailAt(q, n) /\ UsedAt(q', n) = UsedAt(q, n)
    BY <2>2, <2>3 DEF AvailAt, UsedAt
  <2> QED
    BY <1>b, <2>1, <2>2, <2>3, <2>4, QuietStep
<1>2. CASE GuestPost
  <2>1. PICK h \in F : Post(0, h)
    BY <1>2 DEF GuestPost
  <2>2. /\ q \in ProgrammedQueue /\ q' = post_avail(q, h) /\ last_used' = last_used
        /\ F' = F \ {h} /\ p' = p + 1
    BY <1>0, <1>a, <2>1, StateTypes DEF Post
  <2>3. /\ l <= q.used_idx /\ q.last_avail <= IdxMod - 1
    BY DEF IdxInv
  <2>4. Counted(q, F, p, l, s) /\ Apart(q, F, p, l)
    BY DEF RingInv
  <2> HIDE DEF F, p, l, s
  <2> DEFINE e == post_avail(q, h)
  <2>5. /\ Counted(e, F \ {h}, p + 1, l, s) /\ Apart(e, F \ {h}, p + 1, l)
        /\ \A c : Alone(q, F, p, l, c) => Alone(e, F \ {h}, p + 1, l, c)
        /\ s = 1 => AvailAt(e, e.last_avail - 1) = AvailAt(q, q.last_avail - 1)
        /\ UsedAt(e, e.used_idx) = UsedAt(q, q.used_idx)
    <3>1. /\ q \in ProgrammedQueue /\ F \in SUBSET Heads /\ p \in Nat /\ l \in Nat
          /\ s \in {0, 1} /\ l <= q.used_idx /\ q.last_avail <= IdxMod - 1
          /\ Counted(q, F, p, l, s) /\ Apart(q, F, p, l)
      BY <1>0, <1>a, <2>2, <2>3, <2>4
    <3> QED
      BY <3>1, PostStep
  <2>6. /\ Counted(q', F', p', l, s) /\ Apart(q', F', p', l)
        /\ \A c : Alone(q, F, p, l, c) => Alone(q', F', p', l, c)
        /\ s = 1 => AvailAt(q', q'.last_avail - 1) = AvailAt(q, q.last_avail - 1)
        /\ UsedAt(q', q'.used_idx) = UsedAt(q, q.used_idx)
    BY <2>2, <2>5
  <2>7. l' = l
    BY <2>2 DEF l
  <2> QED
    BY <1>b, <2>6, <2>7 DEF RingInv, F, p, l, s
<1>3. CASE GuestHandler
  <2>1. CASE IrqEntry \/ ReadStatus \/ AckIrq \/ Recheck
    <3>1. UNCHANGED <<vq, last_used, free, posted>>
      BY <2>1 DEF IrqEntry, ReadStatus, AckIrq, Recheck
    <3>2. q' = q
      BY <3>1 DEF q
    <3> QED
      BY <1>b, <3>1, <3>2, QuietStep
  <2>2. CASE Reap
    <3>1. q \in ProgrammedQueue
      BY <1>0, <2>2 DEF Reap, TypeInv
    <3>2. /\ q' = q /\ posted' = posted /\ l # q.used_idx
          /\ F' = F \cup {UsedAt(q, l)} /\ l' = (l + 1) % IdxMod
      <4>1. used_elem(q, l).id = UsedAt(q, l)
        BY <3>1 DEF used_elem, UsedAt, ProgrammedQueue
      <4> QED
        BY <1>0, <1>a, <2>2, <4>1, StateTypes DEF Reap, q
    <3>3. l < q.used_idx
      BY <1>0, <3>2 DEF IdxInv
    <3>4. l' = l + 1
      BY <1>0, <3>2, <3>3, Sizes DEF Word
    <3>5. Counted(q, F, p, l, s) /\ Apart(q, F, p, l)
      BY DEF RingInv
    <3>6. p' = p
      BY <3>2
    <3> HIDE DEF F, p, l, s
    <3> DEFINE G == F \cup {UsedAt(q, l)}
    <3>7. /\ Counted(q, G, p, l + 1, s) /\ Apart(q, G, p, l + 1)
          /\ \A c : Alone(q, F, p, l, c) => Alone(q, G, p, l + 1, c)
      <4>1. /\ q \in ProgrammedQueue /\ p \in Nat /\ l \in Nat /\ s \in {0, 1} /\ l < q.used_idx
            /\ Counted(q, F, p, l, s) /\ Apart(q, F, p, l)
        BY <1>0, <1>a, <3>1, <3>3, <3>5
      <4> QED
        BY <4>1, ReapStep
    <3>8. /\ Counted(q, F', p, l', s) /\ Apart(q, F', p, l')
          /\ \A c : Alone(q, F, p, l, c) => Alone(q, F', p, l', c)
      BY <3>2, <3>4, <3>7
    <3> QED
      BY <1>b, <3>2, <3>6, <3>8 DEF RingInv, F, p, l, s
  <2>3. CASE PublishEvent
    <3>1. /\ q \in ProgrammedQueue /\ q' = publish_used_event(q, l)
          /\ UNCHANGED <<last_used, free, posted>>
      BY <1>0, <1>a, <2>3 DEF PublishEvent, TypeInv
    <3>2. /\ \A n \in Int : AvailAt(q', n) = AvailAt(q, n) /\ UsedAt(q', n) = UsedAt(q, n)
          /\ q'.last_avail = q.last_avail /\ q'.used_idx = q.used_idx
          /\ q'.avail_idx = q.avail_idx
      BY <1>0, <3>1, PublishedEntries
    <3> QED
      BY <1>b, <3>1, <3>2, QuietStep
  <2> QED
    BY <1>3, <2>1, <2>2, <2>3 DEF GuestHandler, Handler
<1> QED
  BY <1>1, <1>2, <1>3

(* The steps of blk::run.                                                  *)
LEMMA RingInvThread ==
  ASSUME TypeInv, IdxInv, RingInv, Thread
  PROVE  RingInv'
<1> DEFINE F == free[0]
           p == posted[0]
           l == last_used[0]
<1>0. /\ vq[0] = q /\ q \in Queue /\ vq \in [Queues -> Queue] /\ q' = vq'[0]
      /\ l \in Nat /\ q.used_idx \in Nat /\ q.last_avail \in Nat /\ p \in Nat
      /\ q.ready => q \in ProgrammedQueue
  BY StateTypes DEF q
<1>a. Queues = {0} /\ (bpc # "next" => q \in ProgrammedQueue)
  BY <1>0, Sizes DEF TypeInv
<1>b. l <= q.used_idx
  BY DEF IdxInv
<1>c. Thread => UNCHANGED <<F, p, l>>
  BY DEF Thread, Take, Start, MoveData, CopyId, WriteStatus, UseElem, UseIdx, CheckEvent,
         RaiseIrq, guestVars
<1>1. CASE Take
  <2>1. q \in ProgrammedQueue /\ has_next(q) /\ q' = next(q) /\ bpc = "next" /\ bpc' = "start"
    BY <1>0, <1>a, <1>1 DEF Take, has_next
  <2>2. Counted(q, F, p, l, 0) /\ Apart(q, F, p, l)
    BY <2>1 DEF RingInv, Serving
  <2> DEFINE c == AvailAt(q, q.last_avail)
  <2>3. /\ Counted(q', F, p, l, 1) /\ Apart(q', F, p, l)
        /\ Alone(q', F, p, l, c) /\ AvailAt(q', q'.last_avail - 1) = c
    BY <1>0, <2>1, <2>2, TakeStep
  <2>4. cur' = AvailAt(q', q'.last_avail - 1)
    <3>1. q'.size = QueueNum
      BY <2>1 DEF next, ProgrammedQueue, Queue
    <3> QED
      BY <1>0, <1>1, <3>1 DEF Take, avail_id, AvailAt
  <2> QED
    BY <1>c, <2>1, <2>3, <2>4 DEF RingInv, Serving
<1>2. CASE Start
  <2>1. /\ q' = q /\ bpc = "start" /\ bpc' \in {"next", "data"} /\ cur' = cur
        /\ desc_start' = AvailAt(q, q.last_avail - 1)
    BY <1>a, <1>2 DEF Start, guestVars, q, avail_id, AvailAt, ProgrammedQueue
  <2>2. /\ Counted(q, F, p, l, 1) /\ Apart(q, F, p, l)
        /\ Alone(q, F, p, l, cur) /\ cur = AvailAt(q, q.last_avail - 1)
    BY <2>1 DEF RingInv, Serving
  <2>3. Counted(q, F, p, l, 0)
    <3>1. Cardinality(F) \in Nat /\ QueueNum \in Nat
      BY <2>2, FS_CardinalityType, Sizes DEF Counted
    <3> QED
      BY <1>0, <2>2, <3>1 DEF Counted
  <2> QED
    BY <1>c, <2>1, <2>2, <2>3 DEF RingInv, Serving
<1>3. CASE MoveData \/ CopyId \/ WriteStatus
  <2>1. /\ q' = q /\ bpc = "data" /\ bpc' \in {"data", "elem"} /\ cur' = cur
        /\ desc_start' = desc_start
    BY <1>3 DEF MoveData, CopyId, WriteStatus, guestVars, q
  <2> QED
    BY <1>c, <2>1 DEF RingInv, Serving
<1>4. CASE UseElem
  <2>1. /\ q \in ProgrammedQueue /\ q' = add_used_elem(q, desc_start, len)
        /\ bpc = "elem" /\ bpc' = "idx" /\ cur' = cur /\ desc_start' = desc_start
    BY <1>0, <1>a, <1>4 DEF UseElem
  <2>2. /\ Counted(q, F, p, l, 1) /\ Apart(q, F, p, l) /\ desc_start = cur
        /\ Alone(q, F, p, l, cur) /\ cur = AvailAt(q, q.last_avail - 1)
    BY <2>1 DEF RingInv, Serving
  <2>3. /\ Counted(q', F, p, l, 1) /\ Apart(q', F, p, l)
        /\ \A c : Alone(q, F, p, l, c) => Alone(q', F, p, l, c)
        /\ AvailAt(q', q'.last_avail - 1) = AvailAt(q, q.last_avail - 1)
        /\ UsedAt(q', q'.used_idx) = desc_start
    BY <1>0, <1>b, <2>1, <2>2, ElemStep
  <2> QED
    BY <1>c, <2>1, <2>2, <2>3 DEF RingInv, Serving
<1>5. CASE UseIdx
  <2>1. /\ q \in ProgrammedQueue /\ q' = add_used_idx(q) /\ bpc = "idx" /\ bpc' = "event"
    BY <1>0, <1>a, <1>5 DEF UseIdx
  <2>2. /\ Counted(q, F, p, l, 1) /\ Apart(q, F, p, l)
        /\ Alone(q, F, p, l, cur) /\ UsedAt(q, q.used_idx) = cur
    BY <2>1 DEF RingInv, Serving
  <2>3. q.used_idx + 1 \in Word
    BY <1>0, <2>1, Sizes DEF IdxInv, Word
  <2>4. Counted(q', F, p, l, 0) /\ Apart(q', F, p, l)
    BY <1>0, <2>1, <2>2, <2>3, ReturnStep
  <2> QED
    BY <1>c, <2>1, <2>4 DEF RingInv, Serving
<1>6. CASE CheckEvent \/ RaiseIrq
  <2>1. q' = q /\ bpc \in {"event", "irq"} /\ bpc' \in {"next", "irq"}
    BY <1>6 DEF CheckEvent, RaiseIrq, guestVars, q
  <2> QED
    BY <1>c, <2>1 DEF RingInv, Serving
<1> QED
  BY <1>1, <1>2, <1>3, <1>4, <1>5, <1>6 DEF Thread

LEMMA RingInvInit == Init => RingInv
<1> SUFFICES ASSUME Init PROVE RingInv
  OBVIOUS
<1>1. /\ q = FreshQueue /\ free[0] = 0 .. QueueNum - 1 /\ posted[0] = 0 /\ last_used[0] = 0
      /\ bpc = "next"
  BY Sizes DEF Init, GuestInit, q, Heads
<1>2. IsFiniteSet(0 .. QueueNum - 1) /\ Cardinality(0 .. QueueNum - 1) = QueueNum
  <2>1. 0 \in Int /\ QueueNum - 1 \in Int /\ ~(0 > QueueNum - 1) /\ QueueNum - 1 - 0 + 1 = QueueNum
    BY Sizes
  <2> QED
    BY <2>1, FS_Interval
<1>3. /\ FreshQueue.last_avail = 0 /\ FreshQueue.avail_idx = 0 /\ FreshQueue.used_idx = 0
  BY DEF FreshQueue
<1>4. Counted(FreshQueue, 0 .. QueueNum - 1, 0, 0, 0)
  BY <1>2, <1>3, Sizes DEF Counted
<1>5. NotTaken(FreshQueue, 0) = {} /\ NotReaped(FreshQueue, 0) = {}
  BY <1>3 DEF NotTaken, NotReaped
<1>6. Apart(FreshQueue, 0 .. QueueNum - 1, 0, 0)
  BY <1>5 DEF Apart
<1> QED
  BY <1>1, <1>4, <1>6 DEF RingInv, Serving

LEMMA RingInvNext == TypeInv /\ IdxInv /\ RingInv /\ [Next]_vars => RingInv'
<1> SUFFICES ASSUME TypeInv, IdxInv, RingInv, [Next]_vars PROVE RingInv'
  OBVIOUS
<1>1. CASE UNCHANGED vars
  <2>1. UNCHANGED <<q, bpc, cur, desc_start, last_used, free, posted>>
    BY <1>1 DEF vars, guestVars, threadVars, q
  <2> QED
    BY <2>1, QuietStep
<1>2. CASE Sleep
  BY <1>1, <1>2 DEF Sleep
<1>3. CASE GuestSetup \/ GuestPost \/ GuestHandler
  BY <1>3, RingInvGuest
<1>4. CASE Thread
  BY <1>4, RingInvThread
<1> QED
  BY <1>1, <1>2, <1>3, <1>4 DEF Next

LEMMA RingsInvariant == Spec => [](TypeInv /\ IdxInv /\ RingInv)
<1>1. Init => IdxInv
  BY Sizes DEF Init, GuestInit, IdxInv, q, FreshQueue
<1> QED
  BY <1>1, TypeInvInit, TypeInvNext, IdxInvNext, RingInvInit, RingInvNext, PTL DEF Spec

(* blk::run works only on chains the driver has given away, and the id it  *)
(* returns, read a second time outside next()'s lock (blk.h:90), is the    *)
(* chain it works on, for every ring size and however many chains are      *)
(* under way.                                                              *)
THEOREM ChainsStayOwned == Spec => []ChainOwnedWhileServed
<1>1. RingInv => ChainOwnedWhileServed
  BY DEF RingInv, Serving, Alone, ChainOwnedWhileServed
<1> QED
  BY <1>1, RingsInvariant, PTL

-----------------------------------------------------------------------------
(* The device implements FifoServer                                        *)

(* The refinement mapping, in these terms.                                 *)
LEMMA Mapping ==
  ASSUME TypeInv
  PROVE  /\ PendingOf(0) = Window(Avails(q), q.used_idx, posted[0])
         /\ DoneOf(0) = Window(Useds(q), last_used[0], q.used_idx)
<1>1. /\ vq[0] = q /\ q.used_idx \in Int /\ posted[0] \in Int /\ last_used[0] \in Int
  BY StateTypes
<1>2. \A k \in 1 .. posted[0] - q.used_idx :
        q.avail_ring[(q.used_idx + k - 1) % QueueNum] = Avails(q)[q.used_idx + k - 1]
  BY <1>1 DEF Avails, AvailAt
<1>3. \A k \in 1 .. q.used_idx - last_used[0] :
        q.used_ring[(last_used[0] + k - 1) % QueueNum].id = Useds(q)[last_used[0] + k - 1]
  BY <1>1 DEF Useds, UsedAt
<1> QED
  BY <1>1, <1>2, <1>3 DEF PendingOf, DoneOf, Window

(* Nothing is dropped: what was taken is served or returned.               *)
NoDropInv ==
  /\ q.last_avail = q.used_idx + (IF Serving THEN 1 ELSE 0)
  /\ \A h \in Heads : mem[h].type # "OTHER"

LEMMA NoDropInvNext ==
  ASSUME "OTHER" \notin ReqTypes
  PROVE  TypeInv /\ IdxInv /\ NoDropInv /\ [Next]_vars => NoDropInv'
<1> SUFFICES ASSUME TypeInv, IdxInv, NoDropInv, [Next]_vars PROVE NoDropInv'
  OBVIOUS
<1>0. /\ scan = 0 /\ vq[0] = q /\ q \in Queue /\ vq \in [Queues -> Queue] /\ q' = vq'[0]
      /\ q.used_idx \in Nat /\ q.last_avail \in Nat
      /\ q.ready => q \in ProgrammedQueue
  BY StateTypes DEF q
<1>a. Queues = {0} /\ (bpc # "next" => q \in ProgrammedQueue)
  BY <1>0, Sizes DEF TypeInv
<1>b. mem \in [Heads -> Request] /\ cur \in Heads
  BY DEF TypeInv, TypeOK
<1>1. CASE /\ UNCHANGED mem /\ Serving' = Serving
           /\ q'.last_avail = q.last_avail /\ q'.used_idx = q.used_idx
  BY <1>1 DEF NoDropInv
<1>2. CASE UNCHANGED vars \/ Sleep
  BY <1>1, <1>2 DEF Sleep, vars, guestVars, threadVars, q, Serving
<1>3. CASE GuestSetup
  <2>1. UNCHANGED <<mem, bpc>> /\ q' = set_ready([q EXCEPT !.size = QueueNum])
    BY <1>0, <1>3, <1>a DEF GuestSetup, SetupQueue, threadVars
  <2>2. q'.last_avail = q.last_avail /\ q'.used_idx = q.used_idx
    BY <1>0, <2>1 DEF set_ready, Queue
  <2> QED
    BY <1>1, <2>1, <2>2 DEF Serving
<1>4. CASE GuestPost
  <2>1. PICK h \in free[0], r \in Requests :
          Post(0, h) /\ mem' = [mem EXCEPT ![h] = r] /\ UNCHANGED threadVars
    BY <1>4 DEF GuestPost
  <2>2. q' = post_avail(q, h)
    BY <1>0, <1>a, <2>1 DEF Post
  <2>3. q'.last_avail = q.last_avail /\ q'.used_idx = q.used_idx
    BY <1>0, <2>2 DEF post_avail, Queue
  <2>4. r.type # "OTHER"
    BY DEF Requests
  <2>5. \A g \in Heads : mem'[g].type # "OTHER"
    BY <1>b, <2>1, <2>4 DEF NoDropInv
  <2> QED
    BY <2>1, <2>3, <2>5 DEF NoDropInv, threadVars, Serving
<1>5. CASE GuestHandler
  <2>1. UNCHANGED <<mem, bpc>>
    BY <1>5 DEF GuestHandler, threadVars
  <2>2. CASE PublishEvent
    <3>1. q' = publish_used_event(q, last_used[0])
      BY <1>0, <1>a, <2>2 DEF PublishEvent
    <3>2. q'.last_avail = q.last_avail /\ q'.used_idx = q.used_idx
      BY <1>0, <3>1 DEF publish_used_event, Queue
    <3> QED
      BY <1>1, <2>1, <3>2 DEF Serving
  <2>3. CASE IrqEntry \/ ReadStatus \/ AckIrq \/ Reap \/ Recheck
    <3>1. q' = q
      BY <2>3 DEF IrqEntry, ReadStatus, AckIrq, Reap, Recheck, q
    <3> QED
      BY <1>1, <2>1, <3>1 DEF Serving
  <2> QED
    BY <1>5, <2>2, <2>3 DEF GuestHandler, Handler
<1>6. CASE Take
  <2>1. q' = next(q) /\ bpc = "next" /\ bpc' = "start" /\ mem' = mem
    BY <1>0, <1>6, <1>a DEF Take
  <2>2. q'.last_avail = q.last_avail + 1 /\ q'.used_idx = q.used_idx
    BY <1>0, <2>1 DEF next, Queue
  <2> QED
    BY <1>0, <2>1, <2>2 DEF NoDropInv, Serving
<1>7. CASE Start
  <2>1. bpc = "start" /\ bpc' = "data" /\ q' = q /\ mem' = mem
    BY <1>7, <1>b DEF Start, guestVars, q, NoDropInv
  <2> QED
    BY <1>1, <2>1 DEF Serving
<1>8. CASE MoveData \/ CopyId \/ WriteStatus
  <2>1. bpc = "data" /\ bpc' \in {"data", "elem"} /\ q' = q
    BY <1>8 DEF MoveData, CopyId, WriteStatus, guestVars, q
  <2>2. \A h \in Heads : mem'[h].type = mem[h].type
    <3>1. mem[cur] \in Request
      BY <1>b
    <3>2. \A x : [mem[cur] EXCEPT !.buf = x].type = mem[cur].type
      BY <3>1 DEF Request
    <3>3. [mem[cur] EXCEPT !.status = "OK"].type = mem[cur].type
      BY <3>1 DEF Request
    <3>4. \/ mem' = mem
          \/ \E x : mem' = [mem EXCEPT ![cur] = [mem[cur] EXCEPT !.buf = x]]
          \/ mem' = [mem EXCEPT ![cur] = [mem[cur] EXCEPT !.status = "OK"]]
      <4>1. CASE MoveData
        <5>1. PICK ok : Transfer(ok)
          BY <4>1 DEF MoveData
        <5> QED
          BY <5>1 DEF Transfer
      <4>2. CASE CopyId
        BY <4>2 DEF CopyId
      <4>3. CASE WriteStatus
        BY <4>3 DEF WriteStatus
      <4> QED
        BY <1>8, <4>1, <4>2, <4>3
    <3> QED
      BY <1>b, <3>2, <3>3, <3>4
  <2> QED
    BY <2>1, <2>2 DEF NoDropInv, Serving
<1>9. CASE UseElem
  <2>1. q' = add_used_elem(q, desc_start, len) /\ bpc = "elem" /\ bpc' = "idx" /\ mem' = mem
    BY <1>0, <1>9, <1>a DEF UseElem
  <2>2. q'.last_avail = q.last_avail /\ q'.used_idx = q.used_idx
    BY <1>0, <2>1 DEF add_used_elem, Queue
  <2> QED
    BY <1>1, <2>1, <2>2 DEF Serving
<1>10. CASE UseIdx
  <2>1. q' = add_used_idx(q) /\ bpc = "idx" /\ bpc' = "event" /\ mem' = mem
    BY <1>0, <1>10, <1>a DEF UseIdx
  <2>2. (q.used_idx + 1) % IdxMod = q.used_idx + 1
    BY <1>0, <2>1, Sizes DEF IdxInv
  <2>3. q'.last_avail = q.last_avail /\ q'.used_idx = q.used_idx + 1
    BY <1>0, <2>1, <2>2 DEF add_used_idx, Queue
  <2> QED
    BY <1>0, <2>1, <2>3 DEF NoDropInv, Serving
<1>11. CASE CheckEvent \/ RaiseIrq
  <2>1. bpc \in {"event", "irq"} /\ bpc' \in {"next", "irq"} /\ q' = q /\ mem' = mem
    BY <1>11 DEF CheckEvent, RaiseIrq, guestVars, q
  <2> QED
    BY <1>1, <2>1 DEF Serving
<1>12. CASE Thread
  BY <1>6, <1>7, <1>8, <1>9, <1>10, <1>11, <1>12 DEF Thread
<1> QED
  BY <1>2, <1>3, <1>4, <1>5, <1>12 DEF Next

LEMMA MappingNext ==
  ASSUME TypeInv'
  PROVE  /\ PendingOf(0)' = Window(Avails(q'), q'.used_idx, posted'[0])
         /\ DoneOf(0)' = Window(Useds(q'), last_used'[0], q'.used_idx)
<1>1. /\ vq'[0] = q' /\ q'.used_idx \in Int /\ posted'[0] \in Int /\ last_used'[0] \in Int
  <2>1. /\ q' \in Queue /\ posted'[0] \in Nat /\ last_used'[0] \in Word
    BY Sizes, GuestConstants DEF TypeInv, TypeOK, GuestTypeOK, GuestConstants, q
  <2> QED
    BY <2>1, Sizes DEF Queue, Word, q
<1>2. \A k \in 1 .. posted'[0] - q'.used_idx :
        q'.avail_ring[(q'.used_idx + k - 1) % QueueNum] = Avails(q')[q'.used_idx + k - 1]
  BY <1>1 DEF Avails, AvailAt
<1>3. \A k \in 1 .. q'.used_idx - last_used'[0] :
        q'.used_ring[(last_used'[0] + k - 1) % QueueNum].id = Useds(q')[last_used'[0] + k - 1]
  BY <1>1 DEF Useds, UsedAt
<1> QED
  BY <1>1, <1>2, <1>3 DEF PendingOf, DoneOf, Window

(* A step that moves neither the indices nor the entries between them.     *)
LEMMA ServerStutters ==
  ASSUME TypeInv, TypeInv', UNCHANGED <<last_used, posted>>, q'.used_idx = q.used_idx,
         \A n \in q.used_idx .. posted[0] - 1 : AvailAt(q', n) = AvailAt(q, n),
         \A n \in last_used[0] .. q.used_idx - 1 : UsedAt(q', n) = UsedAt(q, n)
  PROVE  PendingOf(0)' = PendingOf(0) /\ DoneOf(0)' = DoneOf(0)
<1>1. q.used_idx \in Int /\ posted[0] \in Int /\ last_used[0] \in Int
  BY StateTypes
<1>2. \A n \in q.used_idx .. posted[0] - 1 : Avails(q')[n] = Avails(q)[n]
  BY <1>1 DEF Avails
<1>3. \A n \in last_used[0] .. q.used_idx - 1 : Useds(q')[n] = Useds(q)[n]
  BY <1>1 DEF Useds
<1>4. Window(Avails(q'), q.used_idx, posted[0]) = Window(Avails(q), q.used_idx, posted[0])
  BY <1>1, <1>2, WindowSame
<1>5. Window(Useds(q'), last_used[0], q.used_idx) = Window(Useds(q), last_used[0], q.used_idx)
  BY <1>1, <1>3, WindowSame
<1> QED
  BY <1>4, <1>5, Mapping, MappingNext

(* A chain the driver has is in neither sequence. *)
LEMMA FreeIsElsewhere ==
  ASSUME TypeInv, IdxInv, RingInv, NoDropInv, NEW h \in free[0]
  PROVE  ~Server!Contains(PendingOf(0), h) /\ ~Server!Contains(DoneOf(0), h)
<1> DEFINE u == q.used_idx
           p == posted[0]
           l == last_used[0]
<1>1. /\ u \in Int /\ p \in Int /\ l \in Int /\ l <= u /\ u <= p /\ q.last_avail \in Int
      /\ Avails(q) \in Entries /\ Useds(q) \in Entries
  <2>1. q.last_avail <= p
    BY DEF RingInv, Counted
  <2> QED
    BY <2>1, StateTypes, RingFunctions DEF IdxInv, NoDropInv, TypeInv
<1>2. \A n \in u .. p - 1 : Avails(q)[n] # h
  <2> SUFFICES ASSUME NEW n \in u .. p - 1 PROVE AvailAt(q, n) # h
    BY <1>1 DEF Avails
  <2>1. CASE n \in NotTaken(q, p)
    BY <2>1 DEF RingInv, Apart
  <2>2. CASE n \notin NotTaken(q, p)
    <3>1. Serving /\ n = q.last_avail - 1
      BY <1>1, <2>2 DEF NotTaken, NoDropInv
    <3> QED
      BY <3>1 DEF RingInv, Alone
  <2> QED
    BY <2>1, <2>2
<1>3. \A n \in l .. u - 1 : Useds(q)[n] # h
  BY <1>1 DEF RingInv, Apart, NotReaped, Useds
<1> HIDE DEF u, p, l
<1>4. \A f, a, b :
        /\ f \in Entries /\ a \in Int /\ b \in Int /\ a <= b /\ (\A n \in a .. b - 1 : f[n] # h)
        => ~Server!Contains(Window(f, a, b), h)
  <2> SUFFICES ASSUME NEW f \in Entries, NEW a \in Int, NEW b \in Int, a <= b,
                      \A n \in a .. b - 1 : f[n] # h, NEW k \in 1 .. b - a
               PROVE  f[a + k - 1] # h
    <3> QED
      BY WindowSeq DEF Server!Contains, Window
  <2>1. a + k - 1 \in a .. b - 1
    OBVIOUS
  <2> QED
    BY <2>1
<1> QED
  BY <1>1, <1>2, <1>3, <1>4, Mapping DEF u, p, l

(* What the steps below have in common. *)
LEMMA ServerState ==
  ASSUME TypeInv, IdxInv, RingInv, NoDropInv
  PROVE  /\ scan = 0 /\ vq[0] = q /\ q' = vq'[0] /\ Queues = {0}
         /\ q.used_idx \in Int /\ posted[0] \in Nat /\ last_used[0] \in Nat
         /\ last_used[0] <= q.used_idx /\ q.used_idx <= posted[0]
         /\ Avails(q) \in Entries /\ Useds(q) \in Entries
         /\ bpc # "next" \/ q.ready => q \in ProgrammedQueue
<1>1. q.last_avail <= posted[0] /\ q.last_avail \in Nat
  BY StateTypes DEF RingInv, Counted
<1>2. q.ready => q \in ProgrammedQueue
  BY StateTypes
<1>3. bpc # "next" => q.ready
  BY DEF TypeInv
<1> QED
  BY <1>1, <1>2, <1>3, StateTypes, Sizes, RingFunctions DEF q, IdxInv, NoDropInv, TypeInv

LEMMA PostSubmits ==
  ASSUME TypeInv, TypeInv', IdxInv, RingInv, NoDropInv, GuestPost
  PROVE  \E c \in Heads : Server!Submit(c)
<1> DEFINE u == q.used_idx
           p == posted[0]
           l == last_used[0]
<1>0. /\ vq[0] = q /\ q' = vq'[0] /\ Queues = {0} /\ u \in Int /\ p \in Nat /\ l \in Int
      /\ l <= u /\ u <= p /\ Avails(q) \in Entries /\ Useds(q) \in Entries
      /\ q.ready => q \in ProgrammedQueue
  BY ServerState
<1>1. PICK h \in free[0] : Post(0, h)
  BY DEF GuestPost
<1>2. /\ h \in Heads /\ q \in ProgrammedQueue /\ q' = post_avail(q, h)
      /\ l' = l /\ p' = p + 1
  BY <1>0, <1>1, StateTypes DEF Post
<1>3. p - u < QueueNum /\ q.avail_idx % QueueNum = p % QueueNum
  <2>1. Counted(q, free[0], p, l, IF Serving THEN 1 ELSE 0)
    BY DEF RingInv
  <2>2. /\ IsFiniteSet(free[0]) /\ Cardinality(free[0]) \in Nat
        /\ Cardinality(free[0] \ {h}) = Cardinality(free[0]) - 1
        /\ Cardinality(free[0] \ {h}) \in Nat
    BY <2>1, FS_RemoveElement, FS_CardinalityType DEF Counted
  <2>3. q.avail_idx % QueueNum = p % QueueNum
    BY <1>0, <2>1, WrappedSlot DEF Counted
  <2>4. p - q.last_avail + (IF Serving THEN 1 ELSE 0) = p - u /\ Cardinality(free[0]) >= 1
    BY <1>0, <2>2, StateTypes DEF NoDropInv
  <2>5. p - u < QueueNum
    <3>1. /\ Cardinality(free[0]) + (p - q.last_avail) + (IF Serving THEN 1 ELSE 0) + (u - l)
               <= QueueNum
          /\ QueueNum \in Nat /\ q.last_avail \in Int /\ l \in Int /\ l <= u /\ p \in Int
      BY <1>0, <2>1, Sizes, StateTypes DEF Counted
    <3> HIDE DEF u, p, l
    <3>2. Cardinality(free[0]) + (p - u) + (u - l) <= QueueNum
      BY <1>0, <2>2, <2>4, <3>1
    <3> QED
      BY <1>0, <2>2, <2>4, <3>1, <3>2
  <2> QED
    BY <2>3, <2>5
<1>4. /\ AvailAt(q', p) = h
      /\ \A n \in Int : n < p /\ p - n < QueueNum => AvailAt(q', n) = AvailAt(q, n)
      /\ \A n \in Int : UsedAt(q', n) = UsedAt(q, n)
      /\ q'.used_idx = u
  BY <1>0, <1>2, <1>3, PostedEntries
<1>5. Window(Avails(q'), u, p + 1) = Append(Window(Avails(q), u, p), h)
  <2>1. Avails(q') \in Entries
    BY RingFunctions, <1>2, PostAvailQueue DEF TypeInv, ProgrammedQueue
  <2>2. \A n \in u .. p - 1 : Avails(q')[n] = Avails(q)[n]
    BY <1>0, <1>3, <1>4, Sizes DEF Avails
  <2>3. Avails(q')[p] = h
    BY <1>0, <1>4 DEF Avails
  <2> HIDE DEF u, p
  <2>4. u \in Int /\ p \in Int /\ u <= p /\ Avails(q) \in Entries
    BY <1>0
  <2>5. p + 1 \in Int /\ (p + 1) - p = 1
    BY <2>4
  <2>6. Pushed(Window(Avails(q), u, p), Avails(q')[p], Window(Avails(q'), u, p + 1))
    BY ONLY <2>1, <2>2, <2>4, <2>5, WindowAppend
  <2> QED
    BY <2>3, <2>6 DEF Pushed
<1>6. Window(Useds(q'), l, u) = Window(Useds(q), l, u)
  <2>1. \A n \in l .. u - 1 : Useds(q')[n] = Useds(q)[n]
    BY <1>0, <1>4 DEF Useds
  <2> QED
    BY <1>0, <2>1, WindowSame
<1>7. PendingOf(0)' = Append(PendingOf(0), h) /\ DoneOf(0)' = DoneOf(0)
  BY <1>2, <1>4, <1>5, <1>6, Mapping, MappingNext
<1> QED
  BY <1>2, <1>7, FreeIsElsewhere DEF Server!Submit

(* The used index moves past the chain that was served. *)
LEMMA UseIdxServes ==
  ASSUME TypeInv, TypeInv', IdxInv, RingInv, NoDropInv, UseIdx
  PROVE  Server!Serve
<1> DEFINE u == q.used_idx
           p == posted[0]
           l == last_used[0]
<1>0. /\ vq[0] = q /\ q' = vq'[0] /\ Queues = {0} /\ u \in Int /\ p \in Nat /\ l \in Int
      /\ l <= u /\ u <= p /\ Avails(q) \in Entries /\ Useds(q) \in Entries
      /\ bpc # "next" => q \in ProgrammedQueue
  BY ServerState
<1>1. /\ bpc = "idx" /\ q \in ProgrammedQueue /\ q' = add_used_idx(q) /\ l' = l /\ p' = p
  BY <1>0, StateTypes DEF UseIdx
<1>2. u < p /\ AvailAt(q, u) = UsedAt(q, u)
  <2>1. q.last_avail = u + 1 /\ q.last_avail <= p
    BY <1>0, <1>1 DEF NoDropInv, RingInv, Counted, Serving
  <2>2. q.last_avail - 1 = u
    BY <1>0, <2>1
  <2> QED
    BY <1>0, <1>1, <2>1, <2>2 DEF RingInv, Serving
<1>3. /\ q'.used_idx = u + 1
      /\ \A n : AvailAt(q', n) = AvailAt(q, n) /\ UsedAt(q', n) = UsedAt(q, n)
  <2>1. (u + 1) % IdxMod = u + 1
    BY <1>0, <1>1, Sizes, StateTypes DEF IdxInv
  <2> QED
    BY <1>1, <2>1 DEF add_used_idx, ProgrammedQueue, Queue, AvailAt, UsedAt
<1>4. Avails(q') = Avails(q) /\ Useds(q') = Useds(q)
  BY <1>3 DEF Avails, Useds
<1>5. Avails(q)[u] = Useds(q)[u]
  BY <1>0, <1>2 DEF Avails, Useds
<1>6. /\ PendingOf(0) = Window(Avails(q), u, p) /\ DoneOf(0) = Window(Useds(q), l, u)
      /\ PendingOf(0)' = Window(Avails(q), u + 1, p)
      /\ DoneOf(0)' = Window(Useds(q), l, u + 1)
  BY <1>1, <1>3, <1>4, Mapping, MappingNext
<1> HIDE DEF u, p, l
<1>7. /\ PendingOf(0) # <<>> /\ Head(PendingOf(0)) = Avails(q)[u]
      /\ PendingOf(0)' = Tail(PendingOf(0))
  <2>1. /\ Avails(q) \in Entries /\ u \in Int /\ p \in Int /\ u < p
        /\ u + 1 \in Int /\ (u + 1) - u = 1
    BY <1>0, <1>2
  <2>2. Popped(Window(Avails(q), u, p), Avails(q)[u], Window(Avails(q), u + 1, p))
    BY ONLY <2>1, WindowTail
  <2> QED
    BY <1>6, <2>2 DEF Popped
<1>8. DoneOf(0)' = Append(DoneOf(0), Useds(q)[u])
  <2>1. /\ Useds(q) \in Entries /\ l \in Int /\ u \in Int /\ l <= u
        /\ \A n \in l .. u - 1 : Useds(q)[n] = Useds(q)[n]
        /\ u + 1 \in Int /\ (u + 1) - u = 1
    BY <1>0
  <2>2. Pushed(Window(Useds(q), l, u), Useds(q)[u], Window(Useds(q), l, u + 1))
    BY ONLY <2>1, WindowAppend
  <2> QED
    BY <1>6, <2>2 DEF Pushed
<1> QED
  BY <1>5, <1>7, <1>8 DEF Server!Serve

LEMMA ReapCollects ==
  ASSUME TypeInv, TypeInv', IdxInv, RingInv, NoDropInv, Reap
  PROVE  Server!Collect
<1> DEFINE u == q.used_idx
           p == posted[0]
           l == last_used[0]
<1>0. /\ scan = 0 /\ vq[0] = q /\ q' = vq'[0] /\ Queues = {0} /\ u \in Int /\ p \in Nat
      /\ l \in Int /\ l <= u /\ Useds(q) \in Entries
  BY ServerState
<1>1. q' = q /\ p' = p /\ l < u /\ l' = (l + 1) % IdxMod
  BY <1>0, StateTypes DEF Reap
<1>2. l' = l + 1
  BY <1>0, <1>1, Sizes, StateTypes DEF Word
<1>3. /\ PendingOf(0) = Window(Avails(q), u, p) /\ DoneOf(0) = Window(Useds(q), l, u)
      /\ PendingOf(0)' = Window(Avails(q), u, p)
      /\ DoneOf(0)' = Window(Useds(q), l + 1, u)
  BY <1>1, <1>2, Mapping, MappingNext
<1> HIDE DEF u, p, l
<1>4. DoneOf(0) # <<>> /\ DoneOf(0)' = Tail(DoneOf(0))
  <2>1. /\ Useds(q) \in Entries /\ l \in Int /\ u \in Int /\ l < u
        /\ l + 1 \in Int /\ (l + 1) - l = 1
    BY <1>0, <1>1
  <2>2. Popped(Window(Useds(q), l, u), Useds(q)[l], Window(Useds(q), l + 1, u))
    BY ONLY <2>1, WindowTail
  <2> QED
    BY <1>3, <2>2 DEF Popped
<1> QED
  BY <1>3, <1>4 DEF Server!Collect

(* Every other step stutters: it may store the element in a slot past the  *)
(* used index, or used_event behind the entries.                           *)
LEMMA OthersStutter ==
  ASSUME TypeInv, TypeInv', IdxInv, RingInv, NoDropInv, [Next]_vars,
         ~GuestPost, ~UseIdx, ~Reap
  PROVE  UNCHANGED <<PendingOf(0), DoneOf(0)>>
<1>0. /\ scan = 0 /\ vq[0] = q /\ q' = vq'[0] /\ Queues = {0}
      /\ bpc # "next" \/ q.ready => q \in ProgrammedQueue
      /\ vq \in [Queues -> Queue] /\ q \in Queue
      /\ q.used_idx \in Int /\ posted[0] \in Int /\ last_used[0] \in Int
      /\ last_used[0] \in Word
  BY ServerState, StateTypes
<1>1. CASE /\ UNCHANGED <<last_used, posted>> /\ q'.used_idx = q.used_idx
           /\ q'.avail_ring = q.avail_ring /\ q'.used_ring = q.used_ring
  <2>1. \A n : AvailAt(q', n) = AvailAt(q, n) /\ UsedAt(q', n) = UsedAt(q, n)
    BY <1>1 DEF AvailAt, UsedAt
  <2> QED
    BY <1>1, <2>1, ServerStutters
<1>2. CASE UNCHANGED vars \/ Sleep
  BY <1>1, <1>2 DEF Sleep, vars, guestVars, q
<1>3. CASE GuestSetup
  <2> DEFINE z == [q EXCEPT !.size = QueueNum]
  <2>1. q' = set_ready(z) /\ UNCHANGED <<last_used, posted>>
    BY <1>0, <1>3 DEF GuestSetup, SetupQueue
  <2>2. z.avail_ring = q.avail_ring /\ z.used_ring = q.used_ring /\ z.used_idx = q.used_idx
    BY <1>0 DEF Queue
  <2>3. /\ q'.avail_ring = z.avail_ring /\ q'.used_ring = z.used_ring
        /\ q'.used_idx = z.used_idx
    BY <1>0, <2>1 DEF set_ready, Queue
  <2> QED
    BY <1>1, <2>1, <2>2, <2>3
<1>4. CASE GuestHandler
  <2>1. CASE IrqEntry \/ ReadStatus \/ AckIrq \/ Recheck
    BY <1>1, <2>1 DEF IrqEntry, ReadStatus, AckIrq, Recheck, q
  <2>2. CASE PublishEvent
    <3>1. /\ q \in ProgrammedQueue /\ q' = publish_used_event(q, last_used[0])
          /\ UNCHANGED <<last_used, posted>>
      BY <1>0, <2>2 DEF PublishEvent, TypeInv
    <3>2. /\ \A n \in Int : AvailAt(q', n) = AvailAt(q, n) /\ UsedAt(q', n) = UsedAt(q, n)
          /\ q'.used_idx = q.used_idx
      BY <1>0, <3>1, PublishedEntries
    <3> QED
      BY <1>0, <3>1, <3>2, ServerStutters
  <2> QED
    BY <1>4, <2>1, <2>2 DEF GuestHandler, Handler
<1>5. CASE Take
  <2>1. q' = next(q) /\ UNCHANGED <<last_used, posted>>
    BY <1>0, <1>5 DEF Take
  <2> QED
    BY <1>0, <1>1, <2>1 DEF next, Queue
<1>6. CASE Start \/ MoveData \/ CopyId \/ WriteStatus \/ CheckEvent \/ RaiseIrq
  BY <1>1, <1>6 DEF Start, MoveData, CopyId, WriteStatus, CheckEvent, RaiseIrq, guestVars, q
<1>7. CASE UseElem
  <2>1. /\ q \in ProgrammedQueue /\ q' = add_used_elem(q, desc_start, len) /\ bpc = "elem"
        /\ UNCHANGED <<last_used, posted>>
    BY <1>0, <1>7 DEF UseElem
  <2>2. q.used_idx - last_used[0] < QueueNum
    <3>1. Counted(q, free[0], posted[0], last_used[0], 1)
      BY <2>1 DEF RingInv, Serving
    <3>2. Cardinality(free[0]) \in Nat
      BY <3>1, FS_CardinalityType DEF Counted
    <3> QED
      BY <1>0, <3>1, <3>2, StateTypes, Sizes DEF Counted
  <2>3. /\ \A n \in Int : n < q.used_idx /\ q.used_idx - n < QueueNum
                            => UsedAt(q', n) = UsedAt(q, n)
        /\ \A n \in Int : AvailAt(q', n) = AvailAt(q, n)
        /\ q'.used_idx = q.used_idx
    BY <2>1, UsedEntries
  <2>4. \A n \in last_used[0] .. q.used_idx - 1 : UsedAt(q', n) = UsedAt(q, n)
    BY <1>0, <2>2, <2>3, Sizes
  <2>5. \A n \in q.used_idx .. posted[0] - 1 : AvailAt(q', n) = AvailAt(q, n)
    BY <1>0, <2>3
  <2> QED
    BY <2>1, <2>3, <2>4, <2>5, ServerStutters
<1> QED
  BY <1>2, <1>3, <1>4, <1>5, <1>6, <1>7 DEF Next, Thread, GuestHandler, Handler

(* blk::run with its rings implements the FIFO server, with no bound on    *)
(* the ring, on the chains under way or on the image: every chain comes    *)
(* back once, in the order of posting, and none is taken twice or lost     *)
(* between the rings.  It needs a driver that sends only the request types *)
(* the code knows: any other is dropped (blk.h:131-134).                   *)
THEOREM ImplementsFifo ==
  ASSUME "OTHER" \notin ReqTypes
  PROVE  Spec => Server!SafeSpec
<1>1. Init => NoDropInv /\ Server!Init
  <2> SUFFICES ASSUME Init PROVE NoDropInv /\ Server!Init
    OBVIOUS
  <2>1. /\ q = FreshQueue /\ posted[0] = 0 /\ last_used[0] = 0 /\ bpc = "next"
        /\ \A h \in Heads : mem[h].type = "IN"
    BY Sizes DEF Init, GuestInit, q
  <2>2. q.used_idx = 0 /\ q.last_avail = 0 /\ vq[0] = q
    BY <2>1 DEF FreshQueue, q
  <2>3. NoDropInv
    BY <2>1, <2>2 DEF NoDropInv, Serving
  <2>4. PendingOf(0) = <<>> /\ DoneOf(0) = <<>>
    <3>1. 1 .. posted[0] - vq[0].used_idx = {} /\ 1 .. vq[0].used_idx - last_used[0] = {}
      BY <2>1, <2>2
    <3> QED
      BY <3>1 DEF PendingOf, DoneOf
  <2> QED
    BY <2>3, <2>4 DEF Server!Init
<1>2. TypeInv /\ TypeInv' /\ IdxInv /\ RingInv /\ NoDropInv /\ [Next]_vars
        => [Server!Next]_(Server!vars)
  <2> SUFFICES ASSUME TypeInv, TypeInv', IdxInv, RingInv, NoDropInv, [Next]_vars
               PROVE  [Server!Next]_(Server!vars)
    OBVIOUS
  <2>1. CASE GuestPost
    BY <2>1, PostSubmits DEF Server!Next
  <2>2. CASE UseIdx
    BY <2>2, UseIdxServes DEF Server!Next
  <2>3. CASE Reap
    BY <2>3, ReapCollects DEF Server!Next
  <2>4. CASE ~GuestPost /\ ~UseIdx /\ ~Reap
    BY <2>4, OthersStutter DEF Server!vars
  <2> QED
    BY <2>1, <2>2, <2>3, <2>4
<1>3. TypeInv /\ IdxInv /\ NoDropInv /\ [Next]_vars => NoDropInv'
  BY NoDropInvNext
<1> QED
  BY <1>1, <1>2, <1>3, RingsInvariant, PTL DEF Spec, Server!SafeSpec

-----------------------------------------------------------------------------
(* What a request does to the image, and what its buffers come to hold     *)

Image == [0 .. Capacity - 1 -> Unit]

(* Request r, which will find image b and leave c, and whose buffers will  *)
(* then be x.                                                              *)
Queued(r, x, b, c) ==
  /\ x = BuffersAfter(r, b)
  /\ c = ImageAfter(r, b)
  /\ r.type = "GET_ID" => DOMAIN r.buf = {1}

(* The same request when all its data descriptors before the i-th have     *)
(* been moved, the image is d and the stream is at position at.            *)
Moved(r, x, b, i, d, at) ==
  /\ r.type = "IN" =>
       /\ at = r.sector + i - 1 /\ d = b
       /\ x = [k \in DOMAIN r.buf |-> b[r.sector + k - 1]]
       /\ \A k \in DOMAIN r.buf : k < i => r.buf[k] = x[k]
  /\ r.type = "OUT" =>
       /\ at = r.sector + i - 1 /\ x = r.buf
       /\ \A s \in 0 .. Capacity - 1 :
            d[s] = IF s \in r.sector .. r.sector + i - 2 THEN r.buf[s - r.sector + 1] ELSE b[s]
  /\ r.type = "GET_ID" =>
       /\ d = b /\ x = <<DISK_ID>> /\ DOMAIN r.buf = {1}
       /\ i > 1 => r.buf[1] = DISK_ID

(* The buffer of a request is a sequence of at most MaxSegs units.         *)
LEMMA BufferShape ==
  ASSUME NEW r \in Request
  PROVE  \E n \in 1 .. MaxSegs :
           n \in Nat /\ r.buf \in [1 .. n -> Unit] /\ Len(r.buf) = n /\ DOMAIN r.buf = 1 .. n
<1>1. r.buf \in Buffers(Unit)
  BY DEF Request
<1>2. PICK n \in 1 .. MaxSegs : r.buf \in [1 .. n -> Unit]
  BY <1>1 DEF Buffers
<1>3. n \in Nat
  BY BlkConstants DEF BlkConstants
<1>4. Len(r.buf) = n
  BY <1>2, <1>3
<1> QED
  BY <1>2, <1>3, <1>4

(* A request turns an image into an image.                                 *)
LEMMA ImageAfterTyped ==
  ASSUME NEW r \in Request, NEW b \in Image
  PROVE  ImageAfter(r, b) \in Image
<1>1. PICK n \in 1 .. MaxSegs :
        n \in Nat /\ r.buf \in [1 .. n -> Unit] /\ Len(r.buf) = n
  BY BufferShape
<1>2. r.sector \in Int /\ Capacity \in Nat
  BY BlkConstants DEF Request, BlkConstants
<1>3. ASSUME NEW s \in 0 .. Capacity - 1, Covers(r, s) PROVE r.buf[s - r.sector + 1] \in Unit
  <2>1. s - r.sector + 1 \in 1 .. n
    BY <1>1, <1>2, <1>3 DEF Covers
  <2> QED
    BY <1>1, <2>1
<1>4. DOMAIN b = 0 .. Capacity - 1 /\ \A s \in 0 .. Capacity - 1 : b[s] \in Unit
  BY DEF Image
<1> QED
  BY <1>3, <1>4 DEF ImageAfter, Image

(* Before the first descriptor nothing has been moved.                     *)
LEMMA ServiceStarts ==
  ASSUME NEW r \in Request, NEW x, NEW b \in Image, NEW c, NEW at,
         Queued(r, x, b, c), r.type \in {"IN", "OUT"} => at = r.sector
  PROVE  r.type # "OTHER" => Moved(r, x, b, 1, b, at)
<1>1. r.sector \in Int /\ r.sector + 1 - 1 = r.sector
      /\ \A s \in 0 .. Capacity - 1 : s \notin r.sector .. r.sector + 1 - 2
  BY DEF Request
<1>2. PICK n \in 1 .. MaxSegs : DOMAIN r.buf = 1 .. n
  BY BufferShape
<1>3. r.type = "IN" => /\ x = [k \in DOMAIN r.buf |-> b[r.sector + k - 1]]
                       /\ \A k \in DOMAIN r.buf : ~(k < 1)
  BY <1>2 DEF Queued, BuffersAfter
<1>4. r.type = "OUT" => x = r.buf
  BY DEF Queued, BuffersAfter
<1>5. r.type = "GET_ID" => x = <<DISK_ID>> /\ DOMAIN r.buf = {1}
  BY DEF Queued, BuffersAfter
<1> QED
  BY <1>1, <1>3, <1>4, <1>5 DEF Moved

(* One step of the IN walk.                                                *)
LEMMA UnitRead ==
  ASSUME NEW r \in Request, NEW x, NEW b, NEW i \in 1 .. Len(r.buf), NEW d, NEW at,
         r.type = "IN", Moved(r, x, b, i, d, at), NEW buf, buf = [r.buf EXCEPT ![i] = d[at]]
  PROVE  Moved([r EXCEPT !.buf = buf], x, b, i + 1, d, at + 1)
<1> DEFINE e == [r EXCEPT !.buf = buf]
<1>1. PICK n \in 1 .. MaxSegs :
        n \in Nat /\ r.buf \in [1 .. n -> Unit] /\ Len(r.buf) = n /\ DOMAIN r.buf = 1 .. n
  BY BufferShape
<1>2. e.type = "IN" /\ e.sector = r.sector /\ e.buf = buf /\ r.sector \in Int
  BY DEF Request
<1>3. /\ at = r.sector + i - 1 /\ d = b /\ x = [k \in DOMAIN r.buf |-> b[r.sector + k - 1]]
      /\ \A k \in DOMAIN r.buf : k < i => r.buf[k] = x[k]
  BY DEF Moved
<1>4. DOMAIN buf = DOMAIN r.buf /\ i \in DOMAIN r.buf /\ i \in Int
  BY <1>1
<1>5. buf[i] = x[i]
  BY <1>1, <1>3, <1>4
<1>6. ASSUME NEW k \in DOMAIN buf, k < i + 1 PROVE buf[k] = x[k]
  <2>1. CASE k = i
    BY <1>5, <2>1
  <2>2. CASE k # i
    <3>1. k \in 1 .. n /\ k < i
      BY <1>1, <1>4, <1>6, <2>2
    <3>2. buf[k] = r.buf[k]
      BY <1>1, <2>2, <3>1
    <3> QED
      BY <1>1, <1>3, <3>1, <3>2
  <2> QED
    BY <2>1, <2>2
<1>7. at + 1 = r.sector + (i + 1) - 1
  <2>1. at = r.sector + i - 1 /\ r.sector \in Int /\ i \in Int
    BY <1>2, <1>3, <1>4
  <2> QED
    BY ONLY <2>1
<1> HIDE DEF e
<1>8. Moved(e, x, b, i + 1, d, at + 1)
  BY <1>2, <1>3, <1>4, <1>6, <1>7 DEF Moved
<1> QED
  BY <1>8 DEF e

(* One step of the OUT walk.                                               *)
LEMMA UnitWritten ==
  ASSUME NEW r \in Request, NEW x, NEW b, NEW i \in 1 .. Len(r.buf), NEW d \in Image,
         NEW at \in 0 .. Capacity - 1, r.type = "OUT", Moved(r, x, b, i, d, at)
  PROVE  Moved(r, x, b, i + 1, [d EXCEPT ![at] = r.buf[i]], at + 1)
<1> DEFINE e == [d EXCEPT ![at] = r.buf[i]]
<1>1. i \in Int /\ r.sector \in Int /\ Capacity \in Nat
  <2>1. PICK n \in 1 .. MaxSegs : n \in Nat /\ Len(r.buf) = n
    BY BufferShape
  <2> QED
    BY <2>1, BlkConstants DEF Request, BlkConstants
<1>2. /\ at = r.sector + i - 1 /\ x = r.buf
      /\ \A s \in 0 .. Capacity - 1 :
           d[s] = IF s \in r.sector .. r.sector + i - 2 THEN r.buf[s - r.sector + 1] ELSE b[s]
  BY DEF Moved
<1>3. ASSUME NEW s \in 0 .. Capacity - 1
      PROVE  e[s] = IF s \in r.sector .. r.sector + (i + 1) - 2
                    THEN r.buf[s - r.sector + 1] ELSE b[s]
  <2>1. CASE s = at
    <3>1. s - r.sector + 1 = i /\ s \in r.sector .. r.sector + (i + 1) - 2
      BY <1>1, <1>2, <2>1
    <3>2. e[s] = r.buf[i]
      BY <2>1 DEF Image
    <3> QED
      BY <3>1, <3>2
  <2>2. CASE s # at
    <3>1. s \in r.sector .. r.sector + (i + 1) - 2 <=> s \in r.sector .. r.sector + i - 2
      BY <1>1, <1>2, <2>2
    <3>2. e[s] = d[s]
      BY <2>2 DEF Image
    <3> QED
      BY <1>2, <3>1, <3>2
  <2> QED
    BY <2>1, <2>2
<1>4. at + 1 = r.sector + (i + 1) - 1
  BY <1>1, <1>2
<1> QED
  BY <1>2, <1>3, <1>4 DEF Moved

(* The memcpy of the identity string.                                      *)
LEMMA IdCopied ==
  ASSUME NEW r \in Request, NEW x, NEW b, NEW d, NEW at,
         r.type = "GET_ID", Moved(r, x, b, 1, d, at), NEW buf, buf = [r.buf EXCEPT ![1] = DISK_ID]
  PROVE  Moved([r EXCEPT !.buf = buf], x, b, 2, d, at)
<1>1. /\ [r EXCEPT !.buf = buf].type = "GET_ID" /\ [r EXCEPT !.buf = buf].buf = buf
  BY DEF Request
<1>2. DOMAIN buf = {1} /\ buf[1] = DISK_ID
  BY DEF Moved
<1> QED
  BY <1>1, <1>2 DEF Moved

(* When the walk has reached the status byte the request has taken effect. *)
LEMMA ServiceEnds ==
  ASSUME NEW r \in Request, NEW x, NEW b \in Image, NEW d \in Image, NEW at,
         r.type # "OTHER", Moved(r, x, b, Len(r.buf) + 1, d, at)
  PROVE  r.buf = x /\ d = ImageAfter(r, b)
<1>1. PICK n \in 1 .. MaxSegs :
        n \in Nat /\ n > 0 /\ r.buf \in [1 .. n -> Unit] /\ Len(r.buf) = n /\ DOMAIN r.buf = 1 .. n
  <2>1. PICK n \in 1 .. MaxSegs :
          n \in Nat /\ r.buf \in [1 .. n -> Unit] /\ Len(r.buf) = n /\ DOMAIN r.buf = 1 .. n
    BY BufferShape
  <2> QED
    BY <2>1
<1>2. r.sector \in Int /\ r.type \in {"IN", "OUT", "GET_ID"}
  BY DEF Request
<1>3. CASE r.type = "IN"
  <2>1. /\ d = b /\ x = [k \in DOMAIN r.buf |-> b[r.sector + k - 1]]
        /\ \A k \in DOMAIN r.buf : k < n + 1 => r.buf[k] = x[k]
    BY <1>1, <1>3 DEF Moved
  <2>2. \A k \in DOMAIN r.buf : r.buf[k] = x[k]
    BY <1>1, <2>1
  <2>3. DOMAIN x = DOMAIN r.buf /\ x = [k \in DOMAIN x |-> x[k]]
    BY <2>1
  <2>4. r.buf = [k \in DOMAIN r.buf |-> r.buf[k]]
    BY <1>1
  <2>5. r.buf = x
    BY <2>2, <2>3, <2>4
  <2> QED
    BY <1>3, <2>1, <2>5 DEF ImageAfter
<1>4. CASE r.type = "OUT"
  <2>1. /\ x = r.buf
        /\ \A s \in 0 .. Capacity - 1 :
             d[s] = IF s \in r.sector .. r.sector + (n + 1) - 2
                    THEN r.buf[s - r.sector + 1] ELSE b[s]
    BY <1>1, <1>4 DEF Moved
  <2>2. \A s \in 0 .. Capacity - 1 : Covers(r, s) <=> s \in r.sector .. r.sector + (n + 1) - 2
    BY <1>1, <1>2 DEF Covers
  <2>3. ImageAfter(r, b) = [s \in 0 .. Capacity - 1 |->
          IF Covers(r, s) THEN r.buf[s - r.sector + 1] ELSE b[s]]
    BY <1>4 DEF ImageAfter, Image
  <2>4. d = [s \in 0 .. Capacity - 1 |-> d[s]]
    BY DEF Image
  <2> QED
    BY <2>1, <2>2, <2>3, <2>4
<1>5. CASE r.type = "GET_ID"
  <2>1. d = b /\ x = <<DISK_ID>> /\ DOMAIN r.buf = {1} /\ r.buf[1] = DISK_ID
    BY <1>1, <1>5 DEF Moved
  <2>2. r.buf = [k \in {1} |-> DISK_ID]
    BY <1>1, <2>1
  <2>3. x = [k \in {1} |-> DISK_ID]
    <3>1. \A v : <<v>> = [k \in 1 .. 1 |-> v] /\ 1 .. 1 = {1}
      OBVIOUS
    <3> QED
      BY <2>1, <3>1
  <2> QED
    BY <1>5, <2>1, <2>2, <2>3 DEF ImageAfter
<1> QED
  BY <1>2, <1>3, <1>4, <1>5

-----------------------------------------------------------------------------
(* Requests take effect in the order of posting                            *)

(* The n-th chain returned holds what its request asks for.                *)
Returned(n) ==
  /\ mem[UsedAt(q, n)].status = "OK"
  /\ LenAt(q, n) = Len(mem[UsedAt(q, n)].buf) + 1
  /\ good => mem[UsedAt(q, n)].buf = expect[UsedAt(q, n)]

Finished ==
  /\ \A n \in NotReaped(q, last_used[0]) : Returned(n)
  /\ bpc = "data" => mem[cur].type # "OTHER" /\ seg <= Len(mem[cur].buf) + 1
  /\ bpc \in {"elem", "idx"} => /\ mem[cur].status = "OK" /\ len = Len(mem[cur].buf) + 1
                                /\ good => mem[cur].buf = expect[cur]
  /\ bpc = "idx" => LenAt(q, q.used_idx) = len

(* The chain being served finds image b and leaves image c.                *)
Served(b, c) ==
  /\ bpc = "start" => disk = b /\ Queued(mem[cur], expect[cur], b, c)
  /\ bpc = "data" => /\ c = ImageAfter(mem[cur], b)
                     /\ Moved(mem[cur], expect[cur], b, seg, disk, pos)
  /\ bpc \in {"elem", "idx"} => disk = c

(* S[n] is the image the n-th chain posted finds.  The image on disk has   *)
(* reached the chain taken last, the driver's has reached the end.         *)
Follows(S) ==
  /\ S[posted[0]] = shadow
  /\ \A n \in NotTaken(q, posted[0]) :
       Queued(mem[AvailAt(q, n)], expect[AvailAt(q, n)], S[n], S[n + 1])
  /\ Serving => Served(S[q.last_avail - 1], S[q.last_avail])
  /\ ~Serving => disk = S[q.last_avail]

DataInv ==
  /\ Finished
  /\ good => \E S \in [Nat -> Image] : Follows(S)

(* What TypeInv says of the memory and the rings, in the form used here.   *)
LEMMA DataTypes ==
  ASSUME TypeInv
  PROVE  /\ cur \in Heads /\ mem \in [Heads -> Request] /\ mem[cur] \in Request
         /\ disk \in Image /\ DOMAIN disk = 0 .. Capacity - 1 /\ good \in BOOLEAN
         /\ \A n \in Int : AvailAt(q, n) \in Heads /\ UsedAt(q, n) \in Heads
<1>1. \A n \in Int : n % QueueNum \in 0 .. QueueNum - 1
  BY ModRange, Sizes
<1>2. \A n \in Int : AvailAt(q, n) \in Heads /\ UsedAt(q, n) \in Heads
  BY <1>1 DEF TypeInv, RingsHoldHeads, AvailAt, UsedAt
<1> QED
  BY <1>2 DEF TypeInv, TypeOK, Image

(* A step that serves no request and posts none.                           *)
LEMMA DataKept ==
  ASSUME TypeInv, DataInv, bpc' = bpc \/ (~Serving /\ ~Serving'),
         UNCHANGED <<cur, len, seg, pos, disk, good, mem, shadow, expect, posted>>,
         q'.last_avail = q.last_avail, q'.used_idx = q.used_idx,
         \A n \in Int : AvailAt(q', n) = AvailAt(q, n),
         \A n \in Int : UsedAt(q', n) = UsedAt(q, n) /\ LenAt(q', n) = LenAt(q, n),
         last_used'[0] \in Int, last_used[0] <= last_used'[0]
  PROVE  DataInv'
<1>0. /\ q.used_idx \in Int /\ q.last_avail \in Int /\ last_used[0] \in Int /\ posted[0] \in Int
      /\ Serving' = Serving
  BY StateTypes DEF Serving
<1>1. \A n \in NotReaped(q', last_used'[0]) : n \in NotReaped(q, last_used[0]) /\ n \in Int
  BY <1>0 DEF NotReaped
<1>2. \A n \in Int : Returned(n)' <=> Returned(n)
  BY DEF Returned
<1>3. Finished'
  BY <1>0, <1>1, <1>2 DEF DataInv, Finished, Serving
<1>4. ASSUME NEW S \in [Nat -> Image], Follows(S) PROVE Follows(S)'
  <2>1. NotTaken(q', posted'[0]) = NotTaken(q, posted[0]) /\ NotTaken(q, posted[0]) \subseteq Int
    BY <1>0 DEF NotTaken
  <2>2. \A b, c : Serving /\ Served(b, c) => Served(b, c)'
    BY <1>0 DEF Served, Serving
  <2> QED
    BY <1>0, <1>4, <2>1, <2>2 DEF Follows
<1> QED
  BY <1>3, <1>4 DEF DataInv

(* The step of blk::run that writes the chain it is serving.               *)
LEMMA ServiceStep ==
  ASSUME TypeInv, IdxInv, RingInv, DataInv, bpc = "data", bpc' \in {"data", "elem"},
         NEW r \in Request, mem' = [mem EXCEPT ![cur] = r], good' => good,
         UNCHANGED <<q, last_used, posted, cur, shadow, expect>>,
         bpc' = "data" => r.type # "OTHER" /\ seg' <= Len(r.buf) + 1,
         bpc' = "elem" => r.status = "OK" /\ len' = Len(r.buf) + 1,
         \A b \in Image : good' /\ Moved(mem[cur], expect[cur], b, seg, disk, pos) =>
           /\ bpc' = "data" => /\ ImageAfter(r, b) = ImageAfter(mem[cur], b)
                               /\ Moved(r, expect[cur], b, seg', disk', pos')
           /\ bpc' = "elem" => disk' = ImageAfter(mem[cur], b) /\ r.buf = expect[cur]
  PROVE  DataInv'
<1>0. /\ q.used_idx \in Int /\ q.last_avail \in Nat /\ last_used[0] \in Int /\ posted[0] \in Int
      /\ Serving /\ Serving' /\ q.last_avail - 1 \in Nat
  BY StateTypes DEF Serving, IdxInv
<1>1. Alone(q, free[0], posted[0], last_used[0], cur)
  BY <1>0 DEF RingInv
<1>2. mem'[cur] = r /\ \A h \in Heads : h # cur => mem'[h] = mem[h]
  BY DataTypes
<1>3. /\ \A n \in NotReaped(q, last_used[0]) : UsedAt(q, n) # cur /\ UsedAt(q, n) \in Heads
      /\ \A n \in NotTaken(q, posted[0]) : AvailAt(q, n) # cur /\ AvailAt(q, n) \in Heads
  BY <1>0, <1>1, DataTypes DEF Alone, NotReaped, NotTaken
<1>4. \A n \in NotReaped(q, last_used[0]) : Returned(n)'
  BY <1>2, <1>3 DEF Returned, DataInv, Finished
<1>5. ASSUME NEW S \in [Nat -> Image], Follows(S), good'
      PROVE  Follows(S)' /\ (bpc' = "elem" => r.buf = expect[cur])
  <2> DEFINE b == S[q.last_avail - 1]
             c == S[q.last_avail]
  <2>1. b \in Image /\ Served(b, c)
    BY <1>0, <1>5 DEF Follows
  <2>2. c = ImageAfter(mem[cur], b) /\ Moved(mem[cur], expect[cur], b, seg, disk, pos)
    BY <2>1 DEF Served
  <2> HIDE DEF b, c
  <2>3. /\ bpc' = "data" => ImageAfter(r, b) = c /\ Moved(r, expect[cur], b, seg', disk', pos')
        /\ bpc' = "elem" => disk' = c /\ r.buf = expect[cur]
    BY <1>5, <2>1, <2>2
  <2>4. Served(b, c)'
    BY <1>2, <2>3 DEF Served, b, c
  <2>5. \A n \in NotTaken(q, posted[0]) :
          Queued(mem'[AvailAt(q, n)], expect[AvailAt(q, n)], S[n], S[n + 1])
    BY <1>2, <1>3, <1>5 DEF Follows
  <2>6. S[posted[0]] = shadow
    BY <1>5 DEF Follows
  <2> QED
    BY <1>0, <2>3, <2>4, <2>5, <2>6 DEF Follows, b, c
<1>6. good' => /\ \E S \in [Nat -> Image] : Follows(S)'
               /\ bpc' = "elem" => r.buf = expect[cur]
  BY <1>5 DEF DataInv
<1>7. Finished'
  BY <1>2, <1>4, <1>6 DEF Finished
<1> QED
  BY <1>6, <1>7 DEF DataInv

(* What the rings show the other side does not move.                       *)
LEMMA DataQuiet ==
  ASSUME TypeInv, IdxInv, DataInv,
         UNCHANGED vars \/ Sleep \/ GuestSetup \/ GuestHandler \/ CheckEvent \/ RaiseIrq
  PROVE  DataInv'
<1>0. /\ scan = 0 /\ vq[0] = q /\ q \in Queue /\ vq \in [Queues -> Queue] /\ q' = vq'[0]
      /\ last_used[0] \in Nat /\ q.used_idx \in Nat /\ last_used[0] \in Word
      /\ last_used \in [Queues -> Word]
      /\ q.ready => q \in ProgrammedQueue
  BY StateTypes DEF q
<1>a. Queues = {0}
  BY Sizes
<1>1. CASE /\ UNCHANGED <<cur, len, seg, pos, disk, good, mem, shadow, expect, posted, last_used>>
           /\ UNCHANGED q /\ (bpc' = bpc \/ (~Serving /\ ~Serving'))
  BY <1>0, <1>1, DataKept DEF AvailAt, UsedAt, LenAt
<1>2. CASE UNCHANGED vars \/ Sleep
  BY <1>1, <1>2 DEF Sleep, vars, guestVars, threadVars, ghostVars, q
<1>3. CASE CheckEvent \/ RaiseIrq
  BY <1>1, <1>3 DEF CheckEvent, RaiseIrq, guestVars, ghostVars, q, Serving
<1>4. CASE GuestSetup
  <2> DEFINE z == [q EXCEPT !.size = QueueNum]
  <2>1. q' = set_ready(z) /\ UNCHANGED <<last_used, free, posted>>
    BY <1>0, <1>4, <1>a DEF GuestSetup, SetupQueue
  <2>2. /\ z.avail_ring = q.avail_ring /\ z.used_ring = q.used_ring
        /\ z.last_avail = q.last_avail /\ z.used_idx = q.used_idx
    BY <1>0 DEF Queue
  <2>3. /\ q'.avail_ring = z.avail_ring /\ q'.used_ring = z.used_ring
        /\ q'.last_avail = z.last_avail /\ q'.used_idx = z.used_idx
    BY <1>0, <2>1 DEF set_ready, Queue
  <2> HIDE DEF z
  <2> QED
    BY <1>0, <1>4, <2>1, <2>2, <2>3, DataKept
    DEF GuestSetup, threadVars, ghostVars, AvailAt, UsedAt, LenAt
<1>5. CASE GuestHandler
  <2>0. UNCHANGED <<bpc, cur, len, seg, pos, disk, good, mem, shadow, expect>>
    BY <1>5 DEF GuestHandler, threadVars, ghostVars
  <2>1. CASE IrqEntry \/ ReadStatus \/ AckIrq \/ Recheck
    BY <1>1, <2>0, <2>1 DEF IrqEntry, ReadStatus, AckIrq, Recheck, q
  <2>2. CASE Reap
    <3>1. /\ UNCHANGED <<q, posted>> /\ last_used[0] # q.used_idx
          /\ last_used'[0] = (last_used[0] + 1) % IdxMod
      <4>1. vq' = vq /\ posted' = posted /\ last_used[0] # vq[0].used_idx
            /\ last_used' = [last_used EXCEPT ![0] = (last_used[0] + 1) % IdxMod]
        BY <1>0, <2>2 DEF Reap
      <4>2. 0 \in DOMAIN last_used
        BY <1>0, <1>a
      <4> QED
        BY <4>1, <4>2 DEF q
    <3>2. last_used'[0] = last_used[0] + 1
      <4>1. last_used[0] < q.used_idx /\ q.used_idx \in Word
        BY <1>0, <3>1, StateTypes DEF IdxInv
      <4> QED
        BY <1>0, <3>1, <4>1, Sizes DEF Word
    <3> QED
      BY <1>0, <2>0, <3>1, <3>2, DataKept DEF AvailAt, UsedAt, LenAt
  <2>3. CASE PublishEvent
    <3>1. /\ q \in ProgrammedQueue /\ q' = publish_used_event(q, last_used[0])
          /\ UNCHANGED <<last_used, posted>>
      <4>1. gpc = "drain" /\ UNCHANGED <<last_used, posted>>
            /\ vq' = [vq EXCEPT ![0] = publish_used_event(q, last_used[0])]
        BY <1>0, <2>3 DEF PublishEvent
      <4>2. q \in ProgrammedQueue
        BY <1>0, <4>1 DEF TypeInv
      <4>3. 0 \in DOMAIN vq
        BY <1>0, <1>a
      <4> QED
        BY <1>0, <4>1, <4>2, <4>3
    <3>2. /\ \A n \in Int : AvailAt(q', n) = AvailAt(q, n) /\ UsedAt(q', n) = UsedAt(q, n)
          /\ q'.last_avail = q.last_avail /\ q'.used_idx = q.used_idx
      BY <1>0, <3>1, PublishedEntries
    <3>3. q'.used_ring = q.used_ring
      BY <3>1 DEF publish_used_event, ProgrammedQueue, Queue
    <3> QED
      BY <1>0, <2>0, <3>1, <3>2, <3>3, DataKept DEF LenAt
  <2> QED
    BY <1>5, <2>1, <2>2, <2>3 DEF GuestHandler, Handler
<1> QED
  BY <1>2, <1>3, <1>4, <1>5

(* next(): the oldest chain not taken becomes the one being served.        *)
LEMMA DataTake ==
  ASSUME TypeInv, IdxInv, RingInv, DataInv, Take
  PROVE  DataInv'
<1>0. /\ vq[0] = q /\ q \in Queue /\ vq \in [Queues -> Queue] /\ q' = vq'[0] /\ Queues = {0}
      /\ last_used[0] \in Nat /\ q.used_idx \in Nat /\ q.last_avail \in Nat /\ posted[0] \in Nat
  BY StateTypes, Sizes DEF q
<1>1. /\ q \in ProgrammedQueue /\ has_next(q) /\ q' = next(q) /\ bpc = "next" /\ bpc' = "start"
      /\ UNCHANGED <<last_used, posted, disk, good, mem, shadow, expect>>
  BY <1>0, StateTypes DEF Take, has_next, ghostVars
<1>2. /\ q'.last_avail = q.last_avail + 1 /\ q'.used_idx = q.used_idx
      /\ q'.avail_ring = q.avail_ring /\ q'.used_ring = q.used_ring /\ q'.size = QueueNum
  BY <1>0, <1>1 DEF next, ProgrammedQueue, Queue
<1>3. \A n : AvailAt(q', n) = AvailAt(q, n) /\ UsedAt(q', n) = UsedAt(q, n) /\ LenAt(q', n) = LenAt(q, n)
  BY <1>2 DEF AvailAt, UsedAt, LenAt
<1>4. cur' = AvailAt(q, q.last_avail)
  <2>1. cur' = AvailAt(q', q'.last_avail - 1)
    BY <1>0, <1>2 DEF Take, avail_id, AvailAt
  <2> QED
    BY <1>0, <1>2, <1>3, <2>1
<1>5. q.last_avail \in NotTaken(q, posted[0])
  <2>1. Counted(q, free[0], posted[0], last_used[0], 0)
    BY <1>1 DEF RingInv, Serving
  <2>2. q.last_avail < posted[0]
    BY <1>0, <1>1, <2>1, Sizes DEF Counted, has_next
  <2> QED
    BY <1>0, <2>2 DEF NotTaken
<1>6. Finished'
  BY <1>1, <1>2, <1>3 DEF DataInv, Finished, NotReaped, Returned
<1>7. ASSUME NEW S \in [Nat -> Image], Follows(S) PROVE Follows(S)'
  <2>1. NotTaken(q', posted[0]) \subseteq NotTaken(q, posted[0])
    BY <1>0, <1>2 DEF NotTaken
  <2>2. disk = S[q.last_avail]
    BY <1>1, <1>7 DEF Follows, Serving
  <2>3. Queued(mem[cur'], expect[cur'], S[q.last_avail], S[q.last_avail + 1])
    BY <1>4, <1>5, <1>7 DEF Follows
  <2>4. q'.last_avail - 1 = q.last_avail
    BY <1>0, <1>2
  <2>5. Served(S[q.last_avail - 1], S[q.last_avail])'
    BY <1>1, <1>2, <2>2, <2>3, <2>4 DEF Served
  <2>6. S[posted'[0]] = shadow'
    BY <1>1, <1>7 DEF Follows
  <2>7. ASSUME NEW n \in NotTaken(q', posted'[0])
        PROVE  Queued(mem'[AvailAt(q', n)], expect'[AvailAt(q', n)], S[n], S[n + 1])
    BY <1>1, <1>3, <1>7, <2>1 DEF Follows
  <2> QED
    BY <1>1, <2>5, <2>6, <2>7 DEF Follows, Serving
<1> QED
  BY <1>1, <1>6, <1>7 DEF DataInv

(* The header is decoded.  A request that is dropped changes nothing, so   *)
(* the image it leaves is the one it found.                                *)
LEMMA DataStart ==
  ASSUME TypeInv, IdxInv, RingInv, DataInv, Start
  PROVE  DataInv'
<1>0. /\ q' = q /\ last_used[0] \in Nat /\ q.used_idx \in Nat /\ q.last_avail \in Nat
      /\ q.last_avail - 1 \in Nat
  BY StateTypes DEF Start, guestVars, q, IdxInv
<1>1. /\ UNCHANGED <<last_used, posted, cur, disk, good, mem, shadow, expect>>
      /\ bpc = "start" /\ seg' = 1
      /\ bpc' = IF mem[cur].type = "OTHER" THEN "next" ELSE "data"
      /\ mem[cur].type \in {"IN", "OUT"} => pos' = mem[cur].sector
  BY DEF Start, guestVars, ghostVars
<1>2. mem[cur] \in Request
  BY DataTypes
<1>3. 1 <= Len(mem[cur].buf) + 1
  BY <1>2, BufferShape
<1>4. Finished'
  BY <1>0, <1>1, <1>3 DEF DataInv, Finished, Returned
<1>5. ASSUME NEW S \in [Nat -> Image], Follows(S) PROVE Follows(S)'
  <2> DEFINE b == S[q.last_avail - 1]
             c == S[q.last_avail]
  <2>1. b \in Image /\ disk = b /\ Queued(mem[cur], expect[cur], b, c)
    BY <1>0, <1>1, <1>5 DEF Follows, Serving, Served
  <2>2. CASE mem[cur].type = "OTHER"
    <3>1. disk = c
      BY <2>1, <2>2 DEF Queued, ImageAfter
    <3> QED
      BY <1>0, <1>1, <1>5, <2>2, <3>1 DEF Follows, Serving
  <2>3. CASE mem[cur].type # "OTHER"
    <3> HIDE DEF b, c
    <3>1. Moved(mem[cur], expect[cur], b, 1, disk, pos')
      BY <1>1, <1>2, <2>1, <2>3, ServiceStarts
    <3>2. c = ImageAfter(mem[cur], b)
      BY <2>1 DEF Queued
    <3>3. Served(b, c)'
      BY <1>0, <1>1, <2>3, <3>1, <3>2 DEF Served, b, c
    <3> QED
      BY <1>0, <1>1, <1>5, <2>3, <3>3 DEF Follows, Serving, b, c
  <2> QED
    BY <2>2, <2>3
<1> QED
  BY <1>1, <1>4, <1>5 DEF DataInv

(* A unit of data is moved, or the stream fails and nothing is promised.   *)
LEMMA DataMove ==
  ASSUME TypeInv, IdxInv, RingInv, DataInv, MoveData
  PROVE  DataInv'
<1> DEFINE o == mem[cur]
           x == expect[cur]
<1>0. /\ cur \in Heads /\ mem \in [Heads -> Request] /\ o \in Request /\ disk \in Image
      /\ DOMAIN disk = 0 .. Capacity - 1 /\ seg \in Int
  BY DataTypes, BlkConstants DEF TypeInv, TypeOK, BlkConstants
<1>1. /\ bpc = "data" /\ bpc' = "data" /\ o.type \in {"IN", "OUT"} /\ seg <= Len(o.buf)
      /\ seg' = seg + 1 /\ UNCHANGED <<q, last_used, posted, cur, shadow, expect>>
  BY DEF MoveData, guestVars, ghostVars, q
<1>2. PICK n \in 1 .. MaxSegs :
        n \in Nat /\ o.buf \in [1 .. n -> Unit] /\ Len(o.buf) = n /\ DOMAIN o.buf = 1 .. n
  BY <1>0, BufferShape
<1>3. seg \in 1 .. Len(o.buf)
  BY <1>1, <1>2 DEF TypeInv, TypeOK
<1>4. PICK ok \in BOOLEAN : Transfer(ok) /\ (ok => CanMove)
  BY DEF MoveData, CanMove
<1>5. (good' => good /\ pos \in 0 .. Capacity - 1 /\ pos' = pos + 1) /\ (ok <=> good')
  BY <1>0, <1>4 DEF Transfer, CanMove
<1> HIDE DEF o, x
<1>6. CASE ~(o.type = "IN" /\ ok)
  <2>1. mem' = mem
    BY <1>4, <1>6 DEF Transfer, o
  <2>2. mem' = [mem EXCEPT ![cur] = o]
    BY <1>0, <2>1 DEF o
  <2>3. ASSUME NEW b \in Image, good', Moved(o, x, b, seg, disk, pos)
        PROVE  Moved(o, x, b, seg', disk', pos')
    <3>1. o.type = "OUT" /\ pos \in 0 .. Capacity - 1 /\ pos' = pos + 1
      BY <1>1, <1>5, <1>6, <2>3
    <3>2. disk' = [disk EXCEPT ![pos] = o.buf[seg]]
      BY <1>4, <1>5, <2>3, <3>1 DEF Transfer, o
    <3> QED
      BY <1>0, <1>1, <1>3, <2>3, <3>1, <3>2, UnitWritten
  <2>4. o.type # "OTHER" /\ seg' <= Len(o.buf) + 1
    BY <1>0, <1>1, <1>2
  <2> QED
    BY <1>0, <1>1, <1>5, <2>2, <2>3, <2>4, ServiceStep DEF o, x
<1>7. CASE o.type = "IN" /\ ok
  <2> DEFINE buf == [o.buf EXCEPT ![seg] = disk[pos]]
             r == [o EXCEPT !.buf = buf]
  <2>1. mem' = [mem EXCEPT ![cur] = r] /\ disk' = disk
    BY <1>4, <1>7 DEF Transfer, o
  <2>2. disk[pos] \in Unit
    BY <1>0, <1>5, <1>7 DEF Image
  <2>3. buf \in [1 .. n -> Unit] /\ Len(buf) = n
    <3> DEFINE u == disk[pos]
    <3>1. u \in Unit /\ o.buf \in [1 .. n -> Unit] /\ n \in Nat
      BY <1>2, <2>2
    <3> HIDE DEF u
    <3>2. [o.buf EXCEPT ![seg] = u] \in [1 .. n -> Unit]
      BY <3>1
    <3>3. Len([o.buf EXCEPT ![seg] = u]) = n
      BY <3>1, <3>2
    <3> QED
      BY <3>2, <3>3 DEF u
  <2>4. buf \in Buffers(Unit)
    BY <2>3 DEF Buffers
  <2>5. r \in Request /\ r.type = "IN" /\ r.buf = buf
    BY <1>0, <1>7, <2>4 DEF Request
  <2>6. ASSUME NEW b \in Image, good', Moved(o, x, b, seg, disk, pos)
        PROVE  Moved(r, x, b, seg', disk', pos')
    <3>1. buf = [o.buf EXCEPT ![seg] = disk[pos]]
      BY DEF buf
    <3> HIDE DEF buf
    <3>2. Moved(r, x, b, seg + 1, disk, pos + 1)
      BY ONLY <1>0, <1>3, <1>7, <2>6, <3>1, UnitRead
    <3> QED
      BY <1>1, <1>5, <2>1, <2>6, <3>2
  <2>7. \A b : ImageAfter(r, b) = ImageAfter(o, b)
    BY <1>7, <2>5 DEF ImageAfter
  <2> HIDE DEF buf, r
  <2>8. r.type # "OTHER" /\ seg' <= Len(r.buf) + 1
    BY <1>0, <1>1, <1>2, <2>3, <2>5
  <2> QED
    BY <1>0, <1>1, <1>5, <2>1, <2>5, <2>6, <2>7, <2>8, ServiceStep DEF o, x
<1> QED
  BY <1>6, <1>7

(* The identity string is copied.                                          *)
LEMMA DataId ==
  ASSUME TypeInv, IdxInv, RingInv, DataInv, CopyId
  PROVE  DataInv'
<1> DEFINE o == mem[cur]
           x == expect[cur]
           buf == [o.buf EXCEPT ![1] = DISK_ID]
           r == [o EXCEPT !.buf = buf]
<1>1. /\ bpc = "data" /\ bpc' = "data" /\ o.type = "GET_ID" /\ seg = 1 /\ seg' = 2
      /\ UNCHANGED <<q, last_used, posted, cur, disk, pos, good, shadow, expect>>
      /\ mem' = [mem EXCEPT ![cur] = r] /\ o \in Request
  BY DataTypes DEF CopyId, guestVars, ghostVars, q
<1>2. PICK n \in 1 .. MaxSegs :
        n \in Nat /\ o.buf \in [1 .. n -> Unit] /\ Len(o.buf) = n /\ DOMAIN o.buf = 1 .. n
  BY <1>1, BufferShape
<1> HIDE DEF o, x
<1>3. buf \in [1 .. n -> Unit] /\ Len(buf) = n
  <2>1. DISK_ID \in Unit
    BY DEF Unit
  <2>2. buf \in [1 .. n -> Unit]
    BY <1>2, <2>1
  <2> QED
    BY <1>2, <2>2
<1>4. buf \in Buffers(Unit)
  BY <1>3 DEF Buffers
<1>5. r \in Request /\ r.type = "GET_ID" /\ r.buf = buf
  BY <1>1, <1>4 DEF Request
<1>6. ASSUME NEW b \in Image, Moved(o, x, b, seg, disk, pos)
      PROVE  Moved(r, x, b, seg', disk', pos')
  <2>1. buf = [o.buf EXCEPT ![1] = DISK_ID]
    BY DEF buf
  <2> HIDE DEF buf
  <2>2. Moved(o, x, b, 1, disk, pos)
    BY <1>1, <1>6
  <2>3. Moved(r, x, b, 2, disk, pos)
    BY <1>1, <2>1, <2>2, IdCopied
  <2> QED
    BY <1>1, <2>3
<1>7. \A b : ImageAfter(r, b) = ImageAfter(o, b)
  BY <1>1, <1>5 DEF ImageAfter
<1> HIDE DEF buf, r
<1>8. r.type # "OTHER" /\ seg' <= Len(r.buf) + 1
  BY <1>1, <1>2, <1>3, <1>5
<1> QED
  BY <1>1, <1>5, <1>6, <1>7, <1>8, ServiceStep DEF o, x

(* The walk has reached the status byte: the request has taken effect.     *)
LEMMA DataStatus ==
  ASSUME TypeInv, IdxInv, RingInv, DataInv, WriteStatus
  PROVE  DataInv'
<1> DEFINE o == mem[cur]
           x == expect[cur]
           r == [o EXCEPT !.status = "OK"]
<1>1. /\ bpc = "data" /\ bpc' = "elem" /\ seg > Len(o.buf) /\ len' = len + 1
      /\ UNCHANGED <<q, last_used, posted, cur, disk, pos, good, shadow, expect>>
      /\ mem' = [mem EXCEPT ![cur] = r] /\ o \in Request /\ disk \in Image
  BY DataTypes DEF WriteStatus, guestVars, ghostVars, q
<1>2. r \in Request /\ r.status = "OK" /\ r.buf = o.buf
  BY <1>1 DEF Request
<1>3. o.type # "OTHER" /\ seg = Len(o.buf) + 1 /\ len = seg - 1
  <2>1. o.type # "OTHER" /\ seg <= Len(o.buf) + 1 /\ len = seg - 1 /\ seg \in Int
    BY <1>1, BlkConstants DEF DataInv, Finished, TypeInv, TypeOK, BlkConstants
  <2>2. Len(o.buf) \in Int
    BY <1>1, BufferShape
  <2> QED
    BY <1>1, <2>1, <2>2
<1>4. len' = Len(r.buf) + 1
  BY <1>1, <1>2, <1>3, BlkConstants DEF TypeInv, TypeOK, BlkConstants
<1> HIDE DEF r, o, x
<1>5. ASSUME NEW b \in Image, Moved(o, x, b, seg, disk, pos)
      PROVE  disk' = ImageAfter(o, b) /\ r.buf = x
  BY <1>1, <1>2, <1>3, <1>5, ServiceEnds
<1> QED
  BY <1>1, <1>2, <1>4, <1>5, ServiceStep DEF o, x

(* add_used, first half: the element goes to the slot behind the others.   *)
LEMMA DataElem ==
  ASSUME TypeInv, IdxInv, RingInv, DataInv, UseElem
  PROVE  DataInv'
<1>0. /\ vq[0] = q /\ q \in Queue /\ vq \in [Queues -> Queue] /\ q' = vq'[0] /\ Queues = {0}
      /\ last_used[0] \in Int /\ q.used_idx \in Int /\ q.last_avail \in Int /\ posted[0] \in Int
      /\ Cardinality(free[0]) \in Nat
  BY StateTypes, Sizes, FS_CardinalityType DEF q, RingInv, Counted
<1>1. /\ q \in ProgrammedQueue /\ bpc = "elem" /\ bpc' = "idx"
      /\ UNCHANGED <<last_used, posted, cur, len, disk, good, mem, shadow, expect>>
  BY <1>0, StateTypes DEF UseElem, TypeInv, ghostVars
<1>2. q' = add_used_elem(q, desc_start, len)
  BY <1>0 DEF UseElem
<1>3. /\ LenAt(q', q.used_idx) = len
      /\ \A n \in Int : n < q.used_idx /\ q.used_idx - n < QueueNum
                          => UsedAt(q', n) = UsedAt(q, n) /\ LenAt(q', n) = LenAt(q, n)
      /\ \A n \in Int : AvailAt(q', n) = AvailAt(q, n)
      /\ q'.last_avail = q.last_avail /\ q'.used_idx = q.used_idx
  BY <1>1, <1>2, UsedEntries, UsedLengths
<1>4. q.used_idx - last_used[0] < QueueNum
  <2>1. Counted(q, free[0], posted[0], last_used[0], 1)
    BY <1>1 DEF RingInv, Serving
  <2> QED
    BY <1>0, <2>1, Sizes DEF Counted
<1>5. \A n \in NotReaped(q, last_used[0]) :
        UsedAt(q', n) = UsedAt(q, n) /\ LenAt(q', n) = LenAt(q, n)
  BY <1>0, <1>3, <1>4, Sizes DEF NotReaped
<1>6. NotReaped(q', last_used'[0]) = NotReaped(q, last_used[0])
  BY <1>1, <1>3 DEF NotReaped
<1>7. \A n \in NotReaped(q, last_used[0]) : Returned(n)'
  BY <1>1, <1>5 DEF Returned, DataInv, Finished
<1>8. Finished'
  BY <1>1, <1>3, <1>6, <1>7 DEF DataInv, Finished
<1>9. ASSUME NEW S \in [Nat -> Image], Follows(S) PROVE Follows(S)'
  <2>1. NotTaken(q', posted'[0]) = NotTaken(q, posted[0]) /\ NotTaken(q, posted[0]) \subseteq Int
    BY <1>0, <1>1, <1>3 DEF NotTaken
  <2>2. Served(S[q.last_avail - 1], S[q.last_avail])'
    BY <1>1, <1>3, <1>9 DEF Follows, Serving, Served
  <2> QED
    BY <1>1, <1>3, <1>9, <2>1, <2>2 DEF Follows, Serving
<1> QED
  BY <1>1, <1>8, <1>9 DEF DataInv

(* Second half: the driver may reap it.                                    *)
LEMMA DataIdx ==
  ASSUME TypeInv, IdxInv, RingInv, DataInv, UseIdx
  PROVE  DataInv'
<1>0. /\ vq[0] = q /\ q \in Queue /\ vq \in [Queues -> Queue] /\ q' = vq'[0] /\ Queues = {0}
      /\ last_used[0] \in Int /\ q.used_idx \in Nat /\ q.last_avail \in Nat
  BY StateTypes, Sizes DEF q
<1>1. /\ bpc = "idx" /\ bpc' = "event" /\ q' = add_used_idx(q)
      /\ UNCHANGED <<last_used, posted, cur, disk, good, mem, shadow, expect>>
  BY <1>0 DEF UseIdx, ghostVars
<1>2. /\ q'.used_idx = q.used_idx + 1 /\ q'.last_avail = q.last_avail
      /\ q'.avail_ring = q.avail_ring /\ q'.used_ring = q.used_ring
  <2>1. (q.used_idx + 1) % IdxMod = q.used_idx + 1
    BY <1>0, <1>1, Sizes DEF IdxInv
  <2> QED
    BY <1>0, <1>1, <2>1 DEF add_used_idx, Queue
<1>3. \A n : AvailAt(q', n) = AvailAt(q, n) /\ UsedAt(q', n) = UsedAt(q, n) /\ LenAt(q', n) = LenAt(q, n)
  BY <1>2 DEF AvailAt, UsedAt, LenAt
<1>4. Returned(q.used_idx)
  BY <1>1 DEF DataInv, Finished, RingInv, Returned
<1>5. \A n \in NotReaped(q', last_used'[0]) : n \in NotReaped(q, last_used[0]) \/ n = q.used_idx
  BY <1>0, <1>1, <1>2 DEF NotReaped
<1>6. \A n : Returned(n)' <=> Returned(n)
  BY <1>1, <1>3 DEF Returned
<1>7. Finished'
  BY <1>1, <1>4, <1>5, <1>6 DEF DataInv, Finished
<1>8. ASSUME NEW S \in [Nat -> Image], Follows(S) PROVE Follows(S)'
  <2>1. disk = S[q.last_avail]
    BY <1>1, <1>8 DEF Follows, Serving, Served
  <2> QED
    BY <1>1, <1>2, <1>3, <1>8, <2>1 DEF Follows, Serving, NotTaken
<1> QED
  BY <1>1, <1>7, <1>8 DEF DataInv

(* The driver posts: the chain will find the driver's image.               *)
LEMMA DataPost ==
  ASSUME TypeInv, IdxInv, RingInv, DataInv, DOMAIN expect = Heads, GuestPost
  PROVE  DataInv'
<1> DEFINE p == posted[0]
           l == last_used[0]
<1>0. /\ vq[0] = q /\ q' = vq'[0] /\ Queues = {0} /\ p \in Nat /\ l \in Int /\ q \in Queue
      /\ q.used_idx \in Nat /\ q.last_avail \in Nat /\ l <= q.used_idx
      /\ q.ready => q \in ProgrammedQueue
  BY StateTypes, Sizes DEF q, IdxInv
<1>1. PICK h \in free[0], r \in Requests :
        /\ Post(0, h) /\ mem' = [mem EXCEPT ![h] = r] /\ shadow' = ImageAfter(r, shadow)
        /\ expect' = [expect EXCEPT ![h] = BuffersAfter(r, shadow)] /\ UNCHANGED threadVars
  BY DEF GuestPost
<1>2. /\ h \in Heads /\ r \in Request /\ q \in ProgrammedQueue /\ q' = post_avail(q, h)
      /\ last_used' = last_used /\ posted'[0] = p + 1
      /\ UNCHANGED <<bpc, cur, len, seg, pos, disk, good>>
  <2>1. h \in Heads /\ r \in Request /\ vq[0].ready
    BY <1>1, StateTypes, RequestsTyped DEF Post
  <2>2. posted' = [posted EXCEPT ![0] = posted[0] + 1] /\ last_used' = last_used
        /\ vq' = [vq EXCEPT ![0] = post_avail(vq[0], h)]
    BY <1>1 DEF Post
  <2>3. posted'[0] = p + 1 /\ q' = post_avail(q, h)
    BY <1>0, <2>2, StateTypes
  <2> QED
    BY <1>0, <1>1, <2>1, <2>2, <2>3 DEF threadVars
<1>3. /\ IsFiniteSet(free[0]) /\ q.last_avail <= p
      /\ q.avail_idx = IF p < IdxMod THEN p ELSE p - IdxMod
      /\ Cardinality(free[0]) + (p - q.last_avail) + (IF Serving THEN 1 ELSE 0)
           + (q.used_idx - l) <= QueueNum
  BY DEF RingInv, Counted
<1>4. p - q.last_avail < QueueNum
  <2>1. Cardinality(free[0]) \in Nat /\ Cardinality(free[0] \ {h}) = Cardinality(free[0]) - 1
        /\ Cardinality(free[0] \ {h}) \in Nat
    BY <1>1, <1>3, FS_RemoveElement, FS_CardinalityType
  <2> DEFINE s == IF Serving THEN 1 ELSE 0
  <2>2. s \in Nat
    OBVIOUS
  <2>3. Cardinality(free[0]) + (p - q.last_avail) + s + (q.used_idx - l) <= QueueNum
    BY <1>3
  <2> HIDE DEF s, p, l
  <2> QED
    BY <1>0, <2>1, <2>2, <2>3, Sizes
<1>5. /\ AvailAt(q', p) = h
      /\ \A n \in Int : n < p /\ p - n < QueueNum => AvailAt(q', n) = AvailAt(q, n)
      /\ \A n \in Int : UsedAt(q', n) = UsedAt(q, n)
      /\ q'.last_avail = q.last_avail /\ q'.used_idx = q.used_idx
  <2>1. q.avail_idx % QueueNum = p % QueueNum
    BY <1>0, <1>3, WrappedSlot
  <2> QED
    BY <1>0, <1>2, <2>1, PostedEntries
<1>6. \A n : LenAt(q', n) = LenAt(q, n)
  BY <1>2 DEF post_avail, ProgrammedQueue, Queue, LenAt
<1>7. \A g \in Heads : g # h => mem'[g] = mem[g] /\ expect'[g] = expect[g]
  BY <1>1, DataTypes
<1>8. mem'[h] = r /\ expect'[h] = BuffersAfter(r, shadow)
  BY <1>1, <1>2, DataTypes
<1>9. Serving => cur # h /\ cur \in Heads
  BY <1>1, DataTypes DEF RingInv, Alone
<1>10. \A n \in NotReaped(q, l) : UsedAt(q, n) # h /\ UsedAt(q, n) \in Heads /\ UsedAt(q', n) = UsedAt(q, n)
  <2>1. NotReaped(q, l) \subseteq Int
    BY <1>0 DEF NotReaped
  <2> QED
    BY <1>1, <1>5, <2>1, DataTypes DEF RingInv, Apart
<1>11. \A n \in NotTaken(q, p) :
         AvailAt(q, n) # h /\ AvailAt(q, n) \in Heads /\ AvailAt(q', n) = AvailAt(q, n)
  <2>1. \A n \in NotTaken(q, p) : n \in Int /\ n < p /\ p - n < QueueNum
    BY <1>0, <1>4, Sizes DEF NotTaken
  <2> QED
    BY <1>1, <1>5, <2>1, DataTypes DEF RingInv, Apart
<1>12. Finished'
  <2>1. \A n \in NotReaped(q, l) : Returned(n)'
    BY <1>2, <1>6, <1>7, <1>10 DEF DataInv, Finished, Returned
  <2>2. Serving => mem'[cur] = mem[cur] /\ expect'[cur] = expect[cur]
    BY <1>7, <1>9
  <2>3. NotReaped(q', last_used'[0]) = NotReaped(q, l)
    BY <1>2, <1>5 DEF NotReaped
  <2>4. Finished
    BY DEF DataInv
  <2> QED
    BY <1>2, <1>5, <1>6, <2>1, <2>2, <2>3, <2>4 DEF Finished, Serving
<1>13. ASSUME NEW S \in [Nat -> Image], Follows(S)
       PROVE  \E T \in [Nat -> Image] : Follows(T)'
  <2>1. shadow = S[p] /\ shadow \in Image
    BY <1>0, <1>13 DEF Follows
  <2>2. PICK T \in [Nat -> Image] :
          T[p + 1] = shadow' /\ \A n \in Nat : n <= p => T[n] = S[n]
    <3> DEFINE U == [S EXCEPT ![p + 1] = ImageAfter(r, shadow)]
    <3>1. U \in [Nat -> Image] /\ U[p + 1] = shadow'
      BY <1>0, <1>1, <1>2, <2>1, ImageAfterTyped
    <3>2. \A n \in Nat : n <= p => U[n] = S[n]
      BY <1>0
    <3> HIDE DEF U
    <3> QED
      BY <3>1, <3>2
  <2>3. \A n \in Nat : n <= p => T[n] = S[n]
    BY <2>2
  <2>4. Queued(mem'[AvailAt(q', p)], expect'[AvailAt(q', p)], T[p], T[p + 1])
    <3>1. r.type = "GET_ID" => DOMAIN r.buf = {1}
      <4>1. r \in Transfers("IN", {Blank}) \/ r \in Transfers("OUT", Data)
            \/ r = Req("GET_ID", 0, <<Blank>>) \/ r = Req("OTHER", 0, <<Blank>>)
        BY DEF Requests
      <4> QED
        BY <4>1 DEF Transfers, Req
    <3>2. T[p] = shadow /\ T[p + 1] = ImageAfter(r, shadow)
      BY <1>0, <1>1, <2>1, <2>2, <2>3
    <3> QED
      BY <1>5, <1>8, <3>1, <3>2 DEF Queued
  <2>5. ASSUME NEW n \in NotTaken(q', posted'[0])
        PROVE  Queued(mem'[AvailAt(q', n)], expect'[AvailAt(q', n)], T[n], T[n + 1])
    <3>1. CASE n = p
      BY <2>4, <3>1
    <3>2. CASE n # p
      <4>1. n \in NotTaken(q, p) /\ n \in Nat /\ n <= p /\ n + 1 <= p /\ n + 1 \in Nat
        BY <1>0, <1>2, <1>5, <2>5, <3>2 DEF NotTaken
      <4>2. Queued(mem[AvailAt(q, n)], expect[AvailAt(q, n)], S[n], S[n + 1])
        BY <1>13, <4>1 DEF Follows
      <4> QED
        BY <1>7, <1>11, <2>3, <4>1, <4>2
    <3> QED
      BY <3>1, <3>2
  <2>6. T[q.last_avail] = S[q.last_avail]
    BY <1>0, <1>3, <2>3
  <2>7. Serving => T[q.last_avail - 1] = S[q.last_avail - 1]
    BY <1>0, <1>3, <2>3 DEF Serving, IdxInv
  <2>8. Serving => Served(T[q.last_avail - 1], T[q.last_avail])
    BY <1>13, <2>6, <2>7 DEF Follows
  <2>9. Serving' => Served(T[q.last_avail - 1], T[q.last_avail])'
    <3>1. Serving => mem'[cur] = mem[cur] /\ expect'[cur] = expect[cur]
      BY <1>7, <1>9
    <3> QED
      BY <1>2, <1>5, <2>8, <3>1 DEF Served, Serving
  <2>10. ~Serving' => disk' = T[q'.last_avail]
    BY <1>2, <1>5, <1>13, <2>6 DEF Follows, Serving
  <2>11. T[posted'[0]] = shadow'
    BY <1>2, <2>2
  <2>12. Follows(T)'
    BY <2>5, <2>9, <2>10, <2>11 DEF Follows
  <2> QED
    BY <2>2, <2>12
<1> QED
  BY <1>2, <1>12, <1>13 DEF DataInv

(* At first nothing is under way and both images are the fresh one.        *)
LEMMA DataInvInit == Init => DataInv /\ DOMAIN expect = Heads
<1> SUFFICES ASSUME Init PROVE DataInv /\ DOMAIN expect = Heads
  OBVIOUS
<1>1. /\ q = FreshQueue /\ posted[0] = 0 /\ last_used[0] = 0 /\ bpc = "next"
      /\ shadow = disk /\ DOMAIN expect = Heads
  BY Sizes DEF Init, GuestInit, q
<1>2. FreshQueue.last_avail = 0 /\ FreshQueue.used_idx = 0
  BY DEF FreshQueue
<1>3. NotTaken(q, posted[0]) = {} /\ NotReaped(q, last_used[0]) = {}
  BY <1>1, <1>2 DEF NotTaken, NotReaped
<1>4. disk \in Image
  BY TypeInvInit, DataTypes
<1>5. PICK S \in [Nat -> Image] : S[0] = disk
  <2>1. [n \in Nat |-> disk] \in [Nat -> Image] /\ [n \in Nat |-> disk][0] = disk
    BY <1>4
  <2> QED
    BY <2>1
<1>6. Follows(S)
  BY <1>1, <1>2, <1>3, <1>5 DEF Follows, Serving
<1> QED
  BY <1>1, <1>3, <1>6 DEF DataInv, Finished

(* Every step keeps the images in order.                                   *)
LEMMA DataInvNext ==
  TypeInv /\ IdxInv /\ RingInv /\ DataInv /\ DOMAIN expect = Heads /\ [Next]_vars
    => DataInv' /\ DOMAIN expect' = Heads
<1> SUFFICES ASSUME TypeInv, IdxInv, RingInv, DataInv, DOMAIN expect = Heads, [Next]_vars
             PROVE  DataInv' /\ DOMAIN expect' = Heads
  OBVIOUS
<1>1. CASE UNCHANGED vars \/ Sleep \/ GuestSetup \/ GuestHandler \/ CheckEvent \/ RaiseIrq
  BY <1>1, DataQuiet
  DEF vars, ghostVars, Sleep, GuestSetup, GuestHandler, CheckEvent, RaiseIrq
<1>2. CASE GuestPost
  BY <1>2, DataPost DEF GuestPost
<1>3. CASE Take \/ Start
  BY <1>3, DataTake, DataStart DEF Take, Start, ghostVars
<1>4. CASE MoveData \/ CopyId \/ WriteStatus
  BY <1>4, DataMove, DataId, DataStatus DEF MoveData, CopyId, WriteStatus, ghostVars
<1>5. CASE UseElem \/ UseIdx
  BY <1>5, DataElem, DataIdx DEF UseElem, UseIdx, ghostVars
<1> QED
  BY <1>1, <1>2, <1>3, <1>4, <1>5 DEF Next, Thread

(* No chain holds anything but what its request asks for or a blank, even  *)
(* when the stream has failed.                                             *)
Kept(h) ==
  /\ DOMAIN mem[h].buf = DOMAIN expect[h]
  /\ mem[h].type = "GET_ID" => DOMAIN mem[h].buf = {1} /\ expect[h][1] = DISK_ID
  /\ \A k \in DOMAIN mem[h].buf : mem[h].buf[k] \in {expect[h][k], Blank}

KeptInv == \A h \in Heads : Kept(h)

(* A fresh request has blanks wherever the device is to write.             *)
LEMMA FreshKept ==
  ASSUME NEW r \in Requests, NEW b
  PROVE  LET x == BuffersAfter(r, b)
         IN  /\ DOMAIN r.buf = DOMAIN x
             /\ r.type = "GET_ID" => DOMAIN r.buf = {1} /\ x[1] = DISK_ID
             /\ \A k \in DOMAIN r.buf : r.buf[k] \in {x[k], Blank}
<1>0. \A v : DOMAIN <<v>> = {1} /\ <<v>>[1] = v
  OBVIOUS
<1>1. \/ r \in Transfers("IN", {Blank}) \/ r \in Transfers("OUT", Data)
      \/ r = Req("GET_ID", 0, <<Blank>>) \/ r = Req("OTHER", 0, <<Blank>>)
  BY DEF Requests
<1>2. CASE r \in Transfers("IN", {Blank})
  <2>1. PICK s \in 0 .. Capacity - 1 : \E y \in Buffers({Blank}) : r = Req("IN", s, y)
    BY <1>2 DEF Transfers
  <2>2. PICK y \in Buffers({Blank}) : r = Req("IN", s, y)
    BY <2>1
  <2>3. PICK n \in 1 .. MaxSegs : y \in [1 .. n -> {Blank}]
    BY DEF Buffers
  <2>4. r.type = "IN" /\ r.buf = y
    BY <2>2 DEF Req
  <2>5. BuffersAfter(r, b) = [k \in DOMAIN r.buf |-> b[r.sector + k - 1]]
    BY <2>4 DEF BuffersAfter
  <2>6. \A k \in DOMAIN r.buf : r.buf[k] = Blank
    BY <2>3, <2>4
  <2> QED
    BY <2>4, <2>5, <2>6
<1>3. CASE r \in Transfers("OUT", Data) \/ r = Req("OTHER", 0, <<Blank>>)
  <2>1. r.type \in {"OUT", "OTHER"}
    BY <1>3 DEF Transfers, Req
  <2>2. BuffersAfter(r, b) = r.buf
    BY <2>1 DEF BuffersAfter
  <2> QED
    BY <2>1, <2>2
<1>4. CASE r = Req("GET_ID", 0, <<Blank>>)
  <2>1. r.type = "GET_ID" /\ r.buf = <<Blank>>
    BY <1>4 DEF Req
  <2>2. BuffersAfter(r, b) = <<DISK_ID>>
    BY <2>1 DEF BuffersAfter
  <2>3. r.buf[1] = Blank /\ DOMAIN r.buf = {1} /\ DOMAIN <<DISK_ID>> = {1} /\ <<DISK_ID>>[1] = DISK_ID
    BY <1>0, <2>1
  <2> QED
    BY <2>2, <2>3
<1> QED
  BY <1>1, <1>2, <1>3, <1>4

(* The unit just read is the one the request asks for: the stream has not  *)
(* failed, so the image has not missed a write.                            *)
LEMMA ReadIsExpected ==
  ASSUME TypeInv, DataInv', MoveData, mem[cur].type = "IN", good',
         DOMAIN mem'[cur].buf = DOMAIN mem[cur].buf, mem'[cur].type = "IN",
         seg \in DOMAIN mem[cur].buf, seg \in Int
  PROVE  mem'[cur].buf[seg] = expect[cur][seg]
<1>1. PICK S \in [Nat -> Image] : Follows(S)'
  BY DEF DataInv
<1>2. bpc' = "data" /\ seg' = seg + 1 /\ cur' = cur /\ expect' = expect
  BY DEF MoveData, ghostVars
<1>3. Serving'
  BY <1>2 DEF Serving
<1>4. Moved(mem'[cur], expect[cur], S[q'.last_avail - 1], seg + 1, disk', pos')
  BY <1>1, <1>2, <1>3 DEF Follows, Served
<1>5. \A k \in DOMAIN mem'[cur].buf : k < seg + 1 => mem'[cur].buf[k] = expect[cur][k]
  BY <1>4 DEF Moved
<1> QED
  BY <1>5

LEMMA KeptNext ==
  TypeInv /\ DataInv' /\ DOMAIN expect = Heads /\ KeptInv /\ [Next]_vars => KeptInv'
<1> SUFFICES ASSUME TypeInv, DataInv', DOMAIN expect = Heads, KeptInv, [Next]_vars,
                    NEW h \in Heads
             PROVE  Kept(h)'
  BY DEF KeptInv
<1>0. Kept(h) /\ mem \in [Heads -> Request] /\ cur \in Heads /\ mem[h] \in Request
  BY DataTypes DEF KeptInv
<1>1. ASSUME mem'[h] = mem[h], expect'[h] = expect[h] PROVE Kept(h)'
  BY <1>0, <1>1 DEF Kept
<1>2. ASSUME NEW r, mem' = [mem EXCEPT ![cur] = r], h # cur, expect' = expect PROVE Kept(h)'
  BY <1>0, <1>1, <1>2
<1>3. CASE GuestPost
  <2>1. PICK g \in free[0], r \in Requests :
          /\ mem' = [mem EXCEPT ![g] = r]
          /\ expect' = [expect EXCEPT ![g] = BuffersAfter(r, shadow)]
    BY <1>3 DEF GuestPost
  <2>2. CASE g # h
    BY <1>0, <1>1, <2>1, <2>2
  <2>3. CASE g = h
    <3> DEFINE x == BuffersAfter(r, shadow)
    <3>1. mem'[h] = r /\ expect'[h] = x
      BY <1>0, <2>1, <2>3
    <3>2. /\ DOMAIN r.buf = DOMAIN x
          /\ r.type = "GET_ID" => DOMAIN r.buf = {1} /\ x[1] = DISK_ID
          /\ \A k \in DOMAIN r.buf : r.buf[k] \in {x[k], Blank}
      BY FreshKept
    <3> HIDE DEF x
    <3> QED
      BY <3>1, <3>2 DEF Kept
  <2> QED
    BY <2>2, <2>3
<1>4. CASE MoveData
  <2>1. expect' = expect
    BY <1>4 DEF MoveData, ghostVars
  <2>2. PICK ok \in BOOLEAN : Transfer(ok)
    BY <1>4 DEF MoveData, CanMove
  <2>3. CASE ~(mem[cur].type = "IN" /\ ok)
    BY <1>1, <2>1, <2>2, <2>3 DEF Transfer
  <2>4. CASE mem[cur].type = "IN" /\ ok
    <3> DEFINE u == disk[pos]
    <3>1. mem' = [mem EXCEPT ![cur].buf[seg] = u] /\ good'
      BY <2>2, <2>4 DEF Transfer
    <3> HIDE DEF u
    <3>2. CASE h # cur
      <4>1. mem'[h] = mem[h]
        BY <1>0, <3>1, <3>2
      <4> QED
        BY <1>1, <2>1, <4>1
    <3>3. CASE h = cur
      <4>1. PICK n \in 1 .. MaxSegs :
              n \in Nat /\ mem[h].buf \in [1 .. n -> Unit] /\ Len(mem[h].buf) = n /\ DOMAIN mem[h].buf = 1 .. n
        BY <1>0, BufferShape
      <4>2. mem'[h] = [mem[h] EXCEPT !.buf = [mem[h].buf EXCEPT ![seg] = u]]
        BY <1>0, <3>1, <3>3
      <4> DEFINE buf == [mem[h].buf EXCEPT ![seg] = u]
      <4>3. mem'[h].buf = buf /\ mem'[h].type = "IN"
        BY <1>0, <2>4, <3>3, <4>2 DEF Request
      <4>4. DOMAIN buf = DOMAIN mem[h].buf /\ \A k \in DOMAIN buf : k # seg => buf[k] = mem[h].buf[k]
        BY <4>1
      <4> HIDE DEF buf
      <4>5. seg \in DOMAIN mem[h].buf /\ seg \in Int
        BY <1>4, <3>3, <4>1, BlkConstants DEF MoveData, TypeInv, TypeOK, BlkConstants
      <4>6. buf[seg] = expect[h][seg]
        BY <1>4, <2>4, <3>1, <3>3, <4>3, <4>4, <4>5, ReadIsExpected
      <4> QED
        BY <1>0, <2>1, <4>3, <4>4, <4>6 DEF Kept
    <3> QED
      BY <3>2, <3>3
  <2> QED
    BY <2>3, <2>4
<1>5. CASE CopyId
  <2>1. mem[cur].type = "GET_ID" /\ mem' = [mem EXCEPT ![cur].buf[1] = DISK_ID] /\ expect' = expect
    BY <1>5 DEF CopyId, ghostVars
  <2>2. CASE h # cur
    <3>1. mem'[h] = mem[h]
      BY <1>0, <2>1, <2>2
    <3> QED
      BY <1>1, <2>1, <3>1
  <2>3. CASE h = cur
    <3>1. mem'[h] = [mem[h] EXCEPT !.buf = [mem[h].buf EXCEPT ![1] = DISK_ID]]
      BY <1>0, <2>1, <2>3
    <3> DEFINE buf == [mem[h].buf EXCEPT ![1] = DISK_ID]
    <3>2. mem'[h].buf = buf /\ mem'[h].type = "GET_ID"
      BY <1>0, <2>1, <2>3, <3>1 DEF Request
    <3>3. DOMAIN mem[h].buf = {1} /\ expect[h][1] = DISK_ID /\ DOMAIN expect[h] = {1}
      BY <1>0, <2>1, <2>3 DEF Kept
    <3>4. DOMAIN buf = {1} /\ buf[1] = DISK_ID
      BY <3>3
    <3> HIDE DEF buf
    <3> QED
      BY <2>1, <3>2, <3>3, <3>4 DEF Kept
  <2> QED
    BY <2>2, <2>3
<1>6. CASE WriteStatus
  <2>1. mem' = [mem EXCEPT ![cur].status = "OK"] /\ expect' = expect
    BY <1>6 DEF WriteStatus, ghostVars
  <2>2. mem'[h].buf = mem[h].buf /\ mem'[h].type = mem[h].type
    <3>1. CASE h # cur
      BY <1>0, <2>1, <3>1
    <3>2. CASE h = cur
      <4>1. mem'[h] = [mem[h] EXCEPT !.status = "OK"]
        BY <1>0, <2>1, <3>2
      <4> QED
        BY <1>0, <4>1 DEF Request
    <3> QED
      BY <3>1, <3>2
  <2> QED
    BY <1>0, <2>1, <2>2 DEF Kept
<1>7. CASE \/ UNCHANGED vars \/ Sleep \/ GuestSetup \/ GuestHandler \/ Take \/ Start
           \/ UseElem \/ UseIdx \/ CheckEvent \/ RaiseIrq
  <2>1. mem' = mem /\ expect' = expect
    BY <1>7 DEF vars, ghostVars, Sleep, GuestSetup, GuestHandler, Take, Start, UseElem, UseIdx,
                CheckEvent, RaiseIrq
  <2> QED
    BY <1>1, <2>1
<1> QED
  BY <1>3, <1>4, <1>5, <1>6, <1>7 DEF Next, Thread

(* Nothing is returned before the queue has been set up.                   *)
ReadyInv == ~q.ready => q.used_idx = 0

(* No step that changes the queue leaves it unprogrammed.                  *)
LEMMA ReadyInvNext == TypeInv /\ ReadyInv /\ [Next]_vars => ReadyInv'
<1> SUFFICES ASSUME TypeInv, ReadyInv, [Next]_vars, q' # q PROVE q'.ready
  BY DEF ReadyInv
<1>0. /\ scan = 0 /\ vq[0] = q /\ q \in Queue /\ vq \in [Queues -> Queue] /\ q' = vq'[0]
      /\ Queues = {0}
      /\ bpc # "next" \/ gpc # "idle" => q.ready
  BY StateTypes, Sizes DEF q, TypeInv
<1>1. CASE GuestSetup
  <2>1. q' = set_ready([q EXCEPT !.size = QueueNum])
    BY <1>0, <1>1 DEF GuestSetup, SetupQueue
  <2> QED
    BY <1>0, <2>1 DEF set_ready, Queue
<1>2. CASE GuestPost
  <2>1. PICK h \in free[0] : Post(0, h)
    BY <1>2 DEF GuestPost
  <2>2. q.ready /\ q' = post_avail(q, h)
    BY <1>0, <2>1 DEF Post
  <2> QED
    BY <1>0, <2>2 DEF post_avail, Queue
<1>3. CASE PublishEvent
  <2>1. q.ready /\ q' = publish_used_event(q, last_used[0])
    BY <1>0, <1>3 DEF PublishEvent
  <2> QED
    BY <1>0, <2>1 DEF publish_used_event, Queue
<1>4. CASE Take
  <2>1. q.ready /\ q' = next(q)
    BY <1>0, <1>4 DEF Take, has_next
  <2> QED
    BY <1>0, <2>1 DEF next, Queue
<1>5. CASE UseElem
  <2>1. q.ready /\ q' = add_used_elem(q, desc_start, len)
    BY <1>0, <1>5 DEF UseElem
  <2> QED
    BY <1>0, <2>1 DEF add_used_elem, Queue
<1>6. CASE UseIdx
  <2>1. q.ready /\ q' = add_used_idx(q)
    BY <1>0, <1>6 DEF UseIdx
  <2> QED
    BY <1>0, <2>1 DEF add_used_idx, Queue
<1>7. ~(UNCHANGED vars \/ Sleep \/ IrqEntry \/ ReadStatus \/ AckIrq \/ Reap \/ Recheck
          \/ Start \/ MoveData \/ CopyId \/ WriteStatus \/ CheckEvent \/ RaiseIrq)
  BY DEF vars, guestVars, Sleep, IrqEntry, ReadStatus, AckIrq, Reap, Recheck, Start, MoveData,
         CopyId, WriteStatus, CheckEvent, RaiseIrq, q
<1> QED
  BY <1>1, <1>2, <1>3, <1>4, <1>5, <1>6, <1>7 DEF Next, Thread, GuestHandler, Handler

(* The used elements not reaped yet are the chains DataInv speaks of.      *)
LEMMA ReturnedComplete ==
  TypeInv /\ RingInv /\ ReadyInv /\ DataInv /\ KeptInv => CompletedInOrder
<1> SUFFICES ASSUME TypeInv, RingInv, ReadyInv, DataInv, KeptInv, NEW e \in Unreaped
             PROVE  /\ e.id \notin free[0]
                    /\ mem[e.id].status = "OK"
                    /\ e.len = Len(mem[e.id].buf) + 1
                    /\ good => mem[e.id].buf = expect[e.id]
                    /\ \A k \in DOMAIN mem[e.id].buf : mem[e.id].buf[k] \in {expect[e.id][k], Blank}
  BY DEF CompletedInOrder
<1>1. PICK n \in NotReaped(q, last_used[0]) : e = used_elem(q, n)
  BY DEF Unreaped, NotReaped
<1>2. q.size = QueueNum
  <2>1. n \in last_used[0] .. q.used_idx - 1 /\ last_used[0] \in Nat /\ q.used_idx \in Nat
    BY <1>1, StateTypes DEF NotReaped
  <2>2. q.used_idx # 0
    BY <2>1
  <2> QED
    BY <2>2 DEF TypeInv, ReadyInv
<1>3. e.id = UsedAt(q, n) /\ e.len = LenAt(q, n)
  BY <1>1, <1>2 DEF used_elem, UsedAt, LenAt
<1>4. e.id \in Heads
  BY <1>1, <1>3, StateTypes, DataTypes DEF NotReaped
<1>5. \A k \in DOMAIN mem[e.id].buf : mem[e.id].buf[k] \in {expect[e.id][k], Blank}
  BY <1>4 DEF KeptInv, Kept
<1> QED
  BY <1>1, <1>3, <1>5 DEF RingInv, Apart, DataInv, Finished, Returned

(* blk::run carries out requests in the order they were made available     *)
(* (blk.h:83-139): while the stream has not failed, every chain returned   *)
(* holds what the image contained after all earlier writes, and later each *)
(* of its units is that or blank; its status is set, and its used element  *)
(* counts what was written into it, for every ring size, image, chain      *)
(* length and mix of request types, those the code drops included.         *)
THEOREM RequestsTakeEffectInOrder == Spec => []CompletedInOrder
<1> DEFINE I == DataInv /\ DOMAIN expect = Heads
<1>1. Init => I
  BY DataInvInit
<1>2. TypeInv /\ IdxInv /\ RingInv /\ I /\ [Next]_vars => I'
  BY DataInvNext
<1>3. Init => ReadyInv /\ KeptInv
  <2> SUFFICES ASSUME Init PROVE ReadyInv /\ KeptInv
    OBVIOUS
  <2>1. ReadyInv
    BY Sizes DEF Init, GuestInit, ReadyInv, q, FreshQueue
  <2>2. ASSUME NEW h \in Heads PROVE Kept(h)
    <3>1. mem[h] = [type |-> "IN", sector |-> 0, buf |-> <<Blank>>, status |-> "none"]
          /\ expect[h] = <<Blank>>
      BY DEF Init
    <3>2. mem[h].buf = <<Blank>> /\ mem[h].type = "IN"
      BY <3>1
    <3> QED
      BY <3>1, <3>2 DEF Kept
  <2> QED
    BY <2>1, <2>2 DEF KeptInv
<1>4. TypeInv /\ I' /\ I /\ KeptInv /\ [Next]_vars => KeptInv'
  BY KeptNext
<1>5. TypeInv /\ RingInv /\ ReadyInv /\ I /\ KeptInv => CompletedInOrder
  BY ReturnedComplete
<1> HIDE DEF I
<1> QED
  BY <1>1, <1>2, <1>3, <1>4, <1>5, ReadyInvNext, RingsInvariant, PTL DEF Spec

=============================================================================
