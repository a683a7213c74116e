----------------------------- MODULE VirtioGuest -----------------------------
(***************************************************************************)
(* The guest's side of one virtio-mmio device: it programs the queues,     *)
(* posts descriptor chains, and serves the device's interrupt line.  The   *)
(* driver is not part of the repository; it is modelled from the registers *)
(* and rings that src/src/kvm/virtio offers it.  The device specifications *)
(* (Blk, Net) EXTEND this module and add their threads.                    *)
(*                                                                         *)
(* The handler reads INTERRUPT_STATUS, acknowledges, and only then drains  *)
(* the used rings; before it leaves a queue it publishes the used index    *)
(* it has reached as used_event and looks at the ring once more.           *)
(***************************************************************************)
EXTENDS VirtQueue, Interrupt, Sequences

CONSTANTS
  queue_count,  \* queues of the device that its driver uses
  QueueNum,     \* ring size the driver writes to QUEUE_NUM
  MaxPosts      \* bound: chains the driver posts on each queue

Queues == 0 .. queue_count - 1

(* A chain is named by the index of its first descriptor. *)
Heads == 0 .. QueueNum - 1

ASSUME GuestConstants ==
  /\ queue_count \in Nat \ {0}
  /\ QueueNum \in 1 .. QUEUE_SIZE_MAX
  /\ MaxPosts \in Nat
  /\ IdxMod % QueueNum = 0   \* rings are a power of two in size

VARIABLES
  vq,         \* [Queues -> Queue]
  irq,        \* the interrupt line of the device
  gpc,        \* where the interrupt handler is
  scan,       \* queue the handler is draining
  last_used,  \* per queue, next used index to reap (16 bits)
  free,       \* per queue, heads the driver may use
  posted      \* per queue, number of chains posted so far

guestVars == <<vq, irq, gpc, scan, last_used, free, posted>>

GuestTypeOK ==
  /\ vq \in [Queues -> Queue]
  /\ irq \in Line
  /\ gpc \in {"idle", "status", "ack", "drain", "recheck"}
  /\ scan \in Queues
  /\ last_used \in [Queues -> Word]
  /\ free \in [Queues -> SUBSET Heads]
  /\ posted \in [Queues -> 0 .. MaxPosts]

GuestInit ==
  /\ vq = [i \in Queues |-> FreshQueue]
  /\ irq = LowLine
  /\ gpc = "idle"
  /\ scan = 0
  /\ last_used = [i \in Queues |-> 0]
  /\ free = [i \in Queues |-> Heads]
  /\ posted = [i \in Queues |-> 0]

-----------------------------------------------------------------------------
(* The driver writes QUEUE_NUM and the ring addresses, then QUEUE_READY.   *)
SetupQueue(i) ==
  /\ ~vq[i].ready
  /\ vq' = [vq EXCEPT ![i] = set_ready([@ EXCEPT !.size = QueueNum])]
  /\ UNCHANGED <<irq, gpc, scan, last_used, free, posted>>

(* The driver makes a chain available. *)
Post(i, h) ==
  /\ vq[i].ready
  /\ posted[i] < MaxPosts
  /\ h \in free[i]
  /\ vq' = [vq EXCEPT ![i] = post_avail(@, h)]
  /\ free' = [free EXCEPT ![i] = @ \ {h}]
  /\ posted' = [posted EXCEPT ![i] = @ + 1]
  /\ UNCHANGED <<irq, gpc, scan, last_used>>

-----------------------------------------------------------------------------
(* Interrupt handler.                                                      *)

IrqEntry ==
  /\ gpc = "idle"
  /\ irq.events > 0
  /\ irq' = drain_events(irq)
  /\ gpc' = "status"
  /\ UNCHANGED <<vq, scan, last_used, free, posted>>

(* Read of INTERRUPT_STATUS: the register is 1 iff the line is high.       *)
ReadStatus ==
  /\ gpc = "status"
  /\ gpc' = IF irq.level THEN "ack" ELSE "idle"
  /\ UNCHANGED <<vq, irq, scan, last_used, free, posted>>

(* Write of 1 to INTERRUPT_ACK: irq_ack lowers the line.                   *)
AckIrq ==
  /\ gpc = "ack"
  /\ irq' = set_level(irq, FALSE)
  /\ gpc' = "drain"
  /\ scan' = 0
  /\ UNCHANGED <<vq, last_used, free, posted>>

Reap ==
  /\ gpc = "drain"
  /\ last_used[scan] # vq[scan].used_idx
  /\ free' = [free EXCEPT ![scan] = @ \cup {used_elem(vq[scan], last_used[scan]).id}]
  /\ last_used' = [last_used EXCEPT ![scan] = (@ + 1) % IdxMod]
  /\ UNCHANGED <<vq, irq, gpc, scan, posted>>

PublishEvent ==
  /\ gpc = "drain"
  /\ last_used[scan] = vq[scan].used_idx
  /\ vq' = [vq EXCEPT ![scan] = publish_used_event(@, last_used[scan])]
  /\ gpc' = "recheck"
  /\ UNCHANGED <<irq, scan, last_used, free, posted>>

Recheck ==
  /\ gpc = "recheck"
  /\ \/ /\ last_used[scan] # vq[scan].used_idx
        /\ gpc' = "drain"
        /\ UNCHANGED scan
     \/ /\ last_used[scan] = vq[scan].used_idx
        /\ scan + 1 \in Queues
        /\ gpc' = "drain"
        /\ scan' = scan + 1
     \/ /\ last_used[scan] = vq[scan].used_idx
        /\ scan + 1 \notin Queues
        /\ gpc' = "idle"
        /\ UNCHANGED scan
  /\ UNCHANGED <<vq, irq, last_used, free, posted>>

Handler == IrqEntry \/ ReadStatus \/ AckIrq \/ Reap \/ PublishEvent \/ Recheck

-----------------------------------------------------------------------------
(* The chains of queue i that the device still holds, oldest first, and    *)
(* those it has returned and the driver has not reaped; exact as long as   *)
(* fewer than IdxMod chains are posted and none is dropped.                *)

PendingOf(i) ==
  [k \in 1 .. posted[i] - vq[i].used_idx |->
     vq[i].avail_ring[(vq[i].used_idx + k - 1) % QueueNum]]

DoneOf(i) ==
  [k \in 1 .. vq[i].used_idx - last_used[i] |->
     vq[i].used_ring[(last_used[i] + k - 1) % QueueNum].id]

=============================================================================
