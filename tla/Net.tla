--------------------------------- MODULE Net ---------------------------------
(***************************************************************************)
(* The virtio network device of src/src/kvm/virtio/net.h: thread run_rx    *)
(* moves frames from the tap device into chains of queue 0, thread run_tx  *)
(* moves chains of queue 1 to the tap, and both raise the same interrupt   *)
(* line.  The guest runs concurrently.                                     *)
(*                                                                         *)
(* Frames are numbered in the order the network, or the driver, produces   *)
(* them; a buffer holds the number of the frame it was filled with, 0 when *)
(* blank.  The control queue has no thread (net.h:210 is commented out),   *)
(* the device does not offer it and the driver leaves it alone.            *)
(***************************************************************************)
EXTENDS VirtioGuest, Sequences

CONSTANTS
  FrameLen,   \* length of a frame
  ChainLen,   \* length of the receive chains the driver posts
  MaxFrames,  \* bound: frames the network sends to the guest
  IoErrors    \* whether read and write of the tap may fail

ASSUME NetConstants ==
  /\ queue_count = 2
  /\ FrameLen \in Nat \ {0}
  /\ ChainLen \in Nat
  /\ FrameLen <= ChainLen
  /\ MaxFrames \in Nat
  /\ IoErrors \in BOOLEAN

rx_queue == 0
tx_queue == 1

VARIABLES
  rpc, rcur, rlen, rbuf,  \* run_rx: where it is, its chain, len, buffer[]
  tpc, tcur, tlen, tbuf,  \* run_tx: where it is, its chain, len, buffer[]
  tap,                    \* frames the host holds for the guest
  arrived,                \* number of frames the network has sent
  wire,                   \* frames written to the tap
  buf,                    \* per queue, the frame in the chain of each head
  failed                  \* history: per queue, reads or writes of the tap that failed

rxVars == <<rpc, rcur, rlen, rbuf>>
txVars == <<tpc, tcur, tlen, tbuf>>
tapVars == <<tap, arrived, wire>>
vars == <<guestVars, rxVars, txVars, tapVars, buf, failed>>

Init ==
  /\ GuestInit
  /\ rpc = "next" /\ rcur = 0 /\ rlen = 0 /\ rbuf = 0
  /\ tpc = "next" /\ tcur = 0 /\ tlen = 0 /\ tbuf = 0
  /\ tap = <<>>
  /\ arrived = 0
  /\ wire = <<>>
  /\ buf = [i \in Queues |-> [h \in Heads |-> 0]]
  /\ failed = [i \in Queues |-> 0]

-----------------------------------------------------------------------------
(* The network and the guest (external).                                   *)

Arrive ==
  /\ arrived < MaxFrames
  /\ arrived' = arrived + 1
  /\ tap' = Append(tap, arrived')
  /\ UNCHANGED <<guestVars, rxVars, txVars, wire, buf, failed>>

(* A receive chain is blank; the k-th transmit chain holds frame k. *)
GuestPost ==
  \E i \in Queues : \E h \in free[i] :
    /\ Post(i, h)
    /\ buf' = [buf EXCEPT ![i][h] = IF i = tx_queue THEN posted'[i] ELSE 0]
    /\ UNCHANGED <<rxVars, txVars, tapVars, failed>>

GuestSetup ==
  /\ \E i \in Queues : SetupQueue(i)
  /\ UNCHANGED <<rxVars, txVars, tapVars, buf, failed>>

GuestHandler ==
  /\ Handler
  /\ UNCHANGED <<rxVars, txVars, tapVars, buf, failed>>

-----------------------------------------------------------------------------
(* run_rx                                                                  *)

RxTake ==
  /\ rpc = "next"
  /\ has_next(vq[rx_queue])
  /\ vq' = [vq EXCEPT ![rx_queue] = next(@)]
  /\ rcur' = avail_id(vq'[rx_queue])
  /\ rpc' = "poll"
  /\ UNCHANGED <<irq, gpc, scan, last_used, free, posted, rlen, rbuf, txVars, tapVars, buf, failed>>

(* Nothing to read for 100 ms: the chain is given back to the queue.  A    *)
(* poll that fails does the same and might have come before the frame.     *)
RxTimeout ==
  /\ rpc = "poll"
  /\ tap = <<>>
  /\ vq' = [vq EXCEPT ![rx_queue] = pop_back(@)]
  /\ rpc' = "next"
  /\ UNCHANGED <<irq, gpc, scan, last_used, free, posted, rcur, rlen, rbuf, txVars, tapVars, buf, failed>>

(* A failed read is only logged: size is -1, and the loop that follows     *)
(* fills the whole chain from what buffer[] held before.                   *)
RxRead(ok) ==
  /\ rpc = "poll"
  /\ tap # <<>>
  /\ IF ok
     THEN /\ rbuf' = Head(tap)
          /\ tap' = Tail(tap)
          /\ rlen' = FrameLen
          /\ UNCHANGED failed
     ELSE /\ rlen' = ChainLen
          /\ failed' = [failed EXCEPT ![rx_queue] = @ + 1]
          /\ UNCHANGED <<rbuf, tap>>
  /\ rpc' = "copy"
  /\ UNCHANGED <<guestVars, rcur, txVars, arrived, wire, buf>>

(* desc_start = avail_id() is what add_used gets below. *)
RxCopy ==
  /\ rpc = "copy"
  /\ buf' = [buf EXCEPT ![rx_queue][rcur] = rbuf]
  /\ rcur' = avail_id(vq[rx_queue])
  /\ rpc' = "elem"
  /\ UNCHANGED <<guestVars, rlen, rbuf, txVars, tapVars, failed>>

RxUseElem ==
  /\ rpc = "elem"
  /\ vq' = [vq EXCEPT ![rx_queue] = add_used_elem(@, rcur, rlen)]
  /\ rpc' = "idx"
  /\ UNCHANGED <<irq, gpc, scan, last_used, free, posted, rcur, rlen, rbuf, txVars, tapVars, buf, failed>>

RxUseIdx ==
  /\ rpc = "idx"
  /\ vq' = [vq EXCEPT ![rx_queue] = add_used_idx(@)]
  /\ rpc' = "irq"
  /\ UNCHANGED <<irq, gpc, scan, last_used, free, posted, rcur, rlen, rbuf, txVars, tapVars, buf, failed>>

RxRaiseIrq ==
  /\ rpc = "irq"
  /\ irq' = set_level(irq, TRUE)
  /\ rpc' = "next"
  /\ UNCHANGED <<vq, gpc, scan, last_used, free, posted, rcur, rlen, rbuf, txVars, tapVars, buf, failed>>

Rx ==
  \/ RxTake \/ RxTimeout \/ \E ok \in {TRUE, ~IoErrors} : RxRead(ok)
  \/ RxCopy \/ RxUseElem \/ RxUseIdx \/ RxRaiseIrq

-----------------------------------------------------------------------------
(* run_tx                                                                  *)

TxTake ==
  /\ tpc = "next"
  /\ has_next(vq[tx_queue])
  /\ vq' = [vq EXCEPT ![tx_queue] = next(@)]
  /\ tcur' = avail_id(vq'[tx_queue])
  /\ tpc' = "copy"
  /\ UNCHANGED <<irq, gpc, scan, last_used, free, posted, tlen, tbuf, rxVars, tapVars, buf, failed>>

TxCopy ==
  /\ tpc = "copy"
  /\ tbuf' = buf[tx_queue][tcur]
  /\ tcur' = avail_id(vq[tx_queue])
  /\ tpc' = "write"
  /\ UNCHANGED <<guestVars, tlen, rxVars, tapVars, buf, failed>>

(* A failed write is only logged: ret is -1 and is added to the __u32 len. *)
TxWrite(ok) ==
  /\ tpc = "write"
  /\ IF ok
     THEN /\ wire' = Append(wire, tbuf)
          /\ tlen' = FrameLen
          /\ UNCHANGED failed
     ELSE /\ tlen' = (0 - 1) % (IdxMod * IdxMod)
          /\ failed' = [failed EXCEPT ![tx_queue] = @ + 1]
          /\ UNCHANGED wire
  /\ tpc' = "elem"
  /\ UNCHANGED <<guestVars, tcur, tbuf, rxVars, tap, arrived, buf>>

TxUseElem ==
  /\ tpc = "elem"
  /\ vq' = [vq EXCEPT ![tx_queue] = add_used_elem(@, tcur, tlen)]
  /\ tpc' = "idx"
  /\ UNCHANGED <<irq, gpc, scan, last_used, free, posted, tcur, tlen, tbuf, rxVars, tapVars, buf, failed>>

TxUseIdx ==
  /\ tpc = "idx"
  /\ vq' = [vq EXCEPT ![tx_queue] = add_used_idx(@)]
  /\ tpc' = "irq"
  /\ UNCHANGED <<irq, gpc, scan, last_used, free, posted, tcur, tlen, tbuf, rxVars, tapVars, buf, failed>>

TxRaiseIrq ==
  /\ tpc = "irq"
  /\ irq' = set_level(irq, TRUE)
  /\ tpc' = "next"
  /\ UNCHANGED <<vq, gpc, scan, last_used, free, posted, tcur, tlen, tbuf, rxVars, tapVars, buf, failed>>

Tx ==
  \/ TxTake \/ TxCopy \/ \E ok \in {TRUE, ~IoErrors} : TxWrite(ok)
  \/ TxUseElem \/ TxUseIdx \/ TxRaiseIrq

(* next() returned nullptr: update_rx or update_tx sleeps and comes back.  *)
Sleep ==
  /\ \/ rpc = "next" /\ ~has_next(vq[rx_queue])
     \/ tpc = "next" /\ ~has_next(vq[tx_queue])
  /\ UNCHANGED vars

-----------------------------------------------------------------------------

Next == Arrive \/ GuestSetup \/ GuestPost \/ GuestHandler \/ Sleep \/ Rx \/ Tx

(* The host schedules both threads and the guest runs its handler to the   *)
(* end; nothing obliges the network or the guest to produce anything.      *)
Fairness == WF_vars(Rx) /\ WF_vars(Tx) /\ WF_vars(GuestHandler)

Spec == Init /\ [][Next]_vars

FairSpec == Spec /\ Fairness

-----------------------------------------------------------------------------
(* Properties                                                              *)

Pc == {"next", "poll", "copy", "write", "elem", "idx", "irq"}

(* Types of the threads' locals and of the tap. *)
TypeOK ==
  /\ GuestTypeOK
  /\ rpc \in Pc \ {"write"} /\ tpc \in Pc \ {"poll"}
  /\ rcur \in Heads /\ tcur \in Heads
  /\ rlen \in {0, FrameLen, ChainLen}
  /\ tlen \in {0, FrameLen, IdxMod * IdxMod - 1}
  /\ rbuf \in 0 .. MaxFrames /\ tbuf \in 0 .. MaxPosts
  /\ arrived \in 0 .. MaxFrames
  /\ tap \in Seq(1 .. MaxFrames)
  /\ wire \in Seq(1 .. MaxPosts)
  /\ buf \in [Queues -> [Heads -> Nat]]
  /\ failed \in [Queues -> Nat]

(* A thread touches the memory of a chain only while the driver has given  *)
(* that chain away, a chain handed back by pop_back (net.h:115) included.  *)
ChainOwnedWhileServed ==
  /\ rpc \in {"poll", "copy", "elem", "idx"} => rcur \notin free[rx_queue]
  /\ tpc \in {"copy", "write", "elem", "idx"} => tcur \notin free[tx_queue]

Unreaped(i) == last_used[i] .. vq[i].used_idx - 1

Frame(i, n) == buf[i][used_elem(vq[i], n).id]
LenOf(i, n) == used_elem(vq[i], n).len

(* The guest receives the frames of the tap in order and each once,        *)
(* whatever polls time out in between (net.h:114-117): the chain at used   *)
(* index n holds frame n+1 as long as no read has failed.  A failed read   *)
(* (net.h:122) costs a chain, which holds the frame before it once more;   *)
(* no frame is lost or overtaken by it, then or later.                     *)
RxInOrder ==
  /\ \A k \in DOMAIN tap : tap[k] = arrived - Len(tap) + k
  /\ \A n \in Unreaped(rx_queue) :
       /\ Frame(rx_queue, n) \in n + 1 - failed[rx_queue] .. n + 1
       /\ Frame(rx_queue, n) <= arrived - Len(tap)
       /\ LenOf(rx_queue, n) \in {FrameLen} \union IF failed[rx_queue] = 0 THEN {} ELSE {ChainLen}
       /\ n + 1 \in Unreaped(rx_queue) =>
            LET step == Frame(rx_queue, n + 1) - Frame(rx_queue, n)
            IN  /\ step \in {0, 1}
                /\ LenOf(rx_queue, n + 1) # FrameLen => step = 0
                /\ LenOf(rx_queue, n + 1) # ChainLen => step = 1

(* The guest's frames go out in the order it queued them, each at most     *)
(* once, and no chain is returned before its frame has been written: only  *)
(* the frames whose write failed (net.h:178) are missing from the wire.    *)
TxInOrder ==
  /\ \A k \in DOMAIN wire : wire[k] \in k .. k + failed[tx_queue]
  /\ \A j, k \in DOMAIN wire : j < k => wire[j] < wire[k]
  /\ (Len(wire) + failed[tx_queue]) - vq[tx_queue].used_idx \in 0 .. 1
  /\ \A n \in Unreaped(tx_queue) : Frame(tx_queue, n) = n + 1

(* Two threads share one line and one handler drains both queues: when the *)
(* handler is idle and no edge is pending, a chain it has not reaped is    *)
(* one whose thread is just about to raise the line (net.h:145-146, 180-1).*)
NoLostInterrupt ==
  gpc = "idle" /\ irq.events = 0 =>
    /\ last_used[rx_queue] # vq[rx_queue].used_idx => rpc = "irq"
    /\ last_used[tx_queue] # vq[tx_queue].used_idx => tpc = "irq"

TxServer == INSTANCE FifoServer
  WITH Chains <- Heads, pending <- PendingOf(tx_queue), done <- DoneOf(tx_queue)
RxServer == INSTANCE FifoServer
  WITH Chains <- Heads, pending <- PendingOf(rx_queue), done <- DoneOf(rx_queue)

(* Every chain the driver queues for transmission comes back, in order.    *)
(* Receive chains come back in order too, although a timeout gives them    *)
(* back to the queue (net.h:115); when, is up to the network.              *)
ServesFifo == TxServer!Spec /\ RxServer!SafeSpec

(* No frame waits for ever at the tap or in buffer[] while the driver has  *)
(* chains posted, however many polls have timed out (net.h:114-117) or     *)
(* reads have failed before, each of which uses up a chain (net.h:122-145):*)
(* again and again all that arrived has been read and is in chains the     *)
(* driver has reaped, or the driver has all its chains back.               *)
FrameDelivered ==
  []<>(\/ /\ tap = <<>> /\ rpc \in {"next", "poll"}
          /\ last_used[rx_queue] = vq[rx_queue].used_idx
      \/ last_used[rx_queue] >= posted[rx_queue])

=============================================================================
