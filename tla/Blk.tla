--------------------------------- MODULE Blk ---------------------------------
(***************************************************************************)
(* The virtio block device of src/src/kvm/virtio/blk.h: its thread blk::run*)
(* takes chains off the queue, moves data between guest buffers and the    *)
(* disk image, returns the chains through the used ring and raises the     *)
(* interrupt when the driver's used_event asks for it.  The guest runs     *)
(* concurrently; every access the two make to shared memory is a step.     *)
(*                                                                         *)
(* A chain is header, data descriptors, status byte.  One data descriptor  *)
(* carries one unit of data and the image is an array of such units.       *)
(***************************************************************************)
EXTENDS VirtioGuest, Sequences

CONSTANTS
  Data,      \* contents of a unit of the disk or of a data descriptor
  Zero,      \* contents of the fresh image
  Blank,     \* contents of a guest buffer the device has to fill
  DISK_ID,   \* the identity string
  Capacity,  \* units in the image
  MaxSegs,   \* bound: data descriptors in a chain
  ReqTypes,  \* request types the driver sends
  IoErrors   \* whether host file operations may fail

ASSUME BlkConstants ==
  /\ queue_count = 1
  /\ Zero \in Data
  /\ Capacity \in Nat \ {0}
  /\ MaxSegs \in Nat \ {0}
  /\ ReqTypes \subseteq {"IN", "OUT", "GET_ID", "OTHER"}
  /\ IoErrors \in BOOLEAN

VARIABLES
  bpc,         \* where blk::run is
  cur,         \* head of the chain next() returned
  desc_start,  \* local desc_start
  len,         \* local len
  seg,         \* data descriptor the walk has reached
  pos,         \* position of the file stream
  disk,        \* contents of the image
  good,        \* the stream has no failbit; nothing ever clears it
  mem,         \* guest memory of the chain of each head
  shadow,      \* history: the image after every posted request
  expect       \* history: per head, what its buffers must hold when used

threadVars == <<bpc, cur, desc_start, len, seg, pos, disk, good>>
ghostVars == <<shadow, expect>>
vars == <<guestVars, threadVars, mem, ghostVars>>

(* The only queue.  (q() indexes queues[] by queue_index, which a driver   *)
(* of a one-queue device leaves at 0.)                                     *)
q == vq[0]

Unit == Data \cup {Blank, DISK_ID}

Buffers(S) == UNION {[1 .. n -> S] : n \in 1 .. MaxSegs}

Request == [ type   : {"IN", "OUT", "GET_ID", "OTHER"},
             sector : 0 .. Capacity - 1,
             buf    : Buffers(Unit),
             status : {"none", "OK"} ]

(* The chains the driver builds: transfers stay inside the capacity it     *)
(* reads from the configuration space.                                     *)
Req(t, s, b) == [type |-> t, sector |-> s, buf |-> b, status |-> "none"]

Transfers(t, S) == {Req(t, s, b) : s \in 0 .. Capacity - 1, b \in Buffers(S)}

Requests ==
  {r \in Transfers("IN", {Blank}) \cup Transfers("OUT", Data)
           \cup {Req("GET_ID", 0, <<Blank>>), Req("OTHER", 0, <<Blank>>)} :
     r.type \in ReqTypes /\ r.sector + Len(r.buf) <= Capacity}

Init ==
  /\ GuestInit
  /\ bpc = "next"
  /\ cur = 0
  /\ desc_start = 0
  /\ len = 0
  /\ seg = 1
  /\ pos = 0
  /\ disk = [s \in 0 .. Capacity - 1 |-> Zero]
  /\ good = TRUE
  /\ mem = [h \in Heads |->
              [type |-> "IN", sector |-> 0, buf |-> <<Blank>>, status |-> "none"]]
  /\ shadow = disk
  /\ expect = [h \in Heads |-> <<Blank>>]

-----------------------------------------------------------------------------
(* What a request does to an image, and what it leaves in its buffers.     *)

Covers(r, s) == s \in r.sector .. r.sector + Len(r.buf) - 1

ImageAfter(r, image) ==
  IF r.type = "OUT"
  THEN [s \in DOMAIN image |->
          IF Covers(r, s) THEN r.buf[s - r.sector + 1] ELSE image[s]]
  ELSE image

BuffersAfter(r, image) ==
  CASE r.type = "IN"     -> [k \in DOMAIN r.buf |-> image[r.sector + k - 1]]
    [] r.type = "GET_ID" -> <<DISK_ID>>
    [] OTHER             -> r.buf

GuestPost ==
  \E h \in free[0], r \in Requests :
    /\ Post(0, h)
    /\ mem' = [mem EXCEPT ![h] = r]
    /\ shadow' = ImageAfter(r, shadow)
    /\ expect' = [expect EXCEPT ![h] = BuffersAfter(r, shadow)]
    /\ UNCHANGED threadVars

GuestSetup == SetupQueue(0) /\ UNCHANGED <<threadVars, mem, ghostVars>>

GuestHandler == Handler /\ UNCHANGED <<threadVars, mem, ghostVars>>

-----------------------------------------------------------------------------
(* blk::run                                                                *)

(* next() returned nullptr: sleep and poll again.                          *)
Sleep ==
  /\ bpc = "next"
  /\ ~has_next(q)
  /\ UNCHANGED vars

(* next() returned the descriptor of the oldest chain not taken yet.       *)
Take ==
  /\ bpc = "next"
  /\ has_next(q)
  /\ vq' = [vq EXCEPT ![0] = next(@)]
  /\ cur' = avail_id(vq'[0])
  /\ bpc' = "start"
  /\ UNCHANGED <<irq, gpc, scan, last_used, free, posted>>
  /\ UNCHANGED <<desc_start, len, seg, pos, disk, good, mem, ghostVars>>

(* desc_start is read from the ring a second time, outside next()'s lock;  *)
(* then the header is decoded.  An unknown type goes back to the top of    *)
(* the loop without returning the chain.                                   *)
Start ==
  /\ bpc = "start"
  /\ desc_start' = avail_id(q)
  /\ len' = 0
  /\ seg' = 1
  /\ IF mem[cur].type \in {"IN", "OUT"} THEN pos' = mem[cur].sector ELSE UNCHANGED pos
  /\ bpc' = IF mem[cur].type = "OTHER" THEN "next" ELSE "data"
  /\ UNCHANGED <<guestVars, cur, disk, good, mem, ghostVars>>

(* file.read into, or file.write and flush from, the current descriptor.   *)
(* On a stream that has failed both do nothing, silently; reading past the *)
(* end of the image makes it fail.                                         *)
CanMove == good /\ pos \in DOMAIN disk

Transfer(ok) ==
  /\ mem' = IF mem[cur].type = "IN" /\ ok
            THEN [mem EXCEPT ![cur].buf[seg] = disk[pos]] ELSE mem
  /\ disk' = IF mem[cur].type = "OUT" /\ ok
             THEN [disk EXCEPT ![pos] = mem[cur].buf[seg]] ELSE disk
  /\ pos' = IF ok THEN pos + 1 ELSE pos
  /\ good' = ok

MoveData ==
  /\ bpc = "data"
  /\ mem[cur].type \in {"IN", "OUT"}
  /\ seg <= Len(mem[cur].buf)
  /\ \E ok \in IF IoErrors THEN {CanMove, FALSE} ELSE {CanMove} : Transfer(ok)
  /\ len' = len + 1
  /\ seg' = seg + 1
  /\ UNCHANGED <<guestVars, bpc, cur, desc_start, ghostVars>>

CopyId ==
  /\ bpc = "data"
  /\ mem[cur].type = "GET_ID"
  /\ seg = 1
  /\ mem' = [mem EXCEPT ![cur].buf[1] = DISK_ID]
  /\ len' = len + 1
  /\ seg' = seg + 1
  /\ UNCHANGED <<guestVars, bpc, cur, desc_start, pos, disk, good, ghostVars>>

(* The last descriptor has no NEXT flag: it is the status byte.            *)
WriteStatus ==
  /\ bpc = "data"
  /\ seg > Len(mem[cur].buf)
  /\ mem' = [mem EXCEPT ![cur].status = "OK"]
  /\ len' = len + 1
  /\ bpc' = "elem"
  /\ UNCHANGED <<guestVars, cur, desc_start, seg, pos, disk, good, ghostVars>>

UseElem ==
  /\ bpc = "elem"
  /\ vq' = [vq EXCEPT ![0] = add_used_elem(@, desc_start, len)]
  /\ bpc' = "idx"
  /\ UNCHANGED <<irq, gpc, scan, last_used, free, posted>>
  /\ UNCHANGED <<cur, desc_start, len, seg, pos, disk, good, mem, ghostVars>>

UseIdx ==
  /\ bpc = "idx"
  /\ vq' = [vq EXCEPT ![0] = add_used_idx(@)]
  /\ bpc' = "event"
  /\ UNCHANGED <<irq, gpc, scan, last_used, free, posted>>
  /\ UNCHANGED <<cur, desc_start, len, seg, pos, disk, good, mem, ghostVars>>

(* Slips in blk::run that the runs must notice; see README, "Mutants".     *)
WantsInterrupt_next == q.used_idx = used_event(q)

(* (idx - 1) == used_event, computed in int.  idx is the value add_used    *)
(* returned; only this thread moves it.                                    *)
WantsInterrupt == q.used_idx - 1 = used_event(q)

CheckEvent ==
  /\ bpc = "event"
  /\ bpc' = IF WantsInterrupt THEN "irq" ELSE "next"
  /\ UNCHANGED <<guestVars, cur, desc_start, len, seg, pos, disk, good, mem, ghostVars>>

RaiseIrq ==
  /\ bpc = "irq"
  /\ irq' = set_level(irq, TRUE)
  /\ bpc' = "next"
  /\ UNCHANGED <<vq, gpc, scan, last_used, free, posted>>
  /\ UNCHANGED <<cur, desc_start, len, seg, pos, disk, good, mem, ghostVars>>

Thread ==
  \/ Take \/ Start \/ MoveData \/ CopyId \/ WriteStatus
  \/ UseElem \/ UseIdx \/ CheckEvent \/ RaiseIrq

Next == GuestSetup \/ GuestPost \/ GuestHandler \/ Sleep \/ Thread

(* The host schedules the device thread and the guest runs its handler to  *)
(* the end; nothing obliges the guest to set the queue up or to post.      *)
Fairness == WF_vars(Thread) /\ WF_vars(GuestHandler)

Spec == Init /\ [][Next]_vars

FairSpec == Spec /\ Fairness

-----------------------------------------------------------------------------
(* Properties                                                              *)

(* Types of the thread's locals, of the image and of guest memory.         *)
TypeOK ==
  /\ GuestTypeOK
  /\ bpc \in {"next", "start", "data", "elem", "idx", "event", "irq"}
  /\ cur \in Heads
  /\ desc_start \in Heads
  /\ len \in 0 .. MaxSegs + 1
  /\ seg \in 1 .. MaxSegs + 1
  /\ pos \in 0 .. Capacity
  /\ good \in BOOLEAN
  /\ disk \in [0 .. Capacity - 1 -> Unit]
  /\ mem \in [Heads -> Request]

(* The thread reads and writes the memory of a chain, and stores its used  *)
(* element, only while the driver has given that chain away; and the id it *)
(* returns (the second read of the avail ring, blk.h:90, taken outside     *)
(* next()'s lock) is the chain it is working on.                           *)
ChainOwnedWhileServed ==
  /\ bpc \in {"start", "data", "elem", "idx"} => cur \notin free[0]
  /\ bpc \in {"data", "elem", "idx"} => desc_start = cur

(* Used elements the driver has not reaped yet. *)
Unreaped == {used_elem(q, n) : n \in last_used[0] .. q.used_idx - 1}

(* Requests take effect in the order they were made available: while the   *)
(* stream has not failed, a returned chain holds exactly what the image    *)
(* contained when it was posted after all earlier writes, its status byte  *)
(* is set, and the length in its used element counts its data and status.  *)
(* After a failure too, status and length are the same, and each unit of a *)
(* returned chain is either that or still blank: a read behind a write     *)
(* that was lost moves nothing rather than what the write should have      *)
(* replaced, because nothing clears the failbit (blk.h:99-121).            *)
CompletedInOrder ==
  \A e \in Unreaped :
    /\ e.id \notin free[0]
    /\ mem[e.id].status = "OK"
    /\ e.len = Len(mem[e.id].buf) + 1
    /\ good => mem[e.id].buf = expect[e.id]
    /\ \A k \in DOMAIN mem[e.id].buf : mem[e.id].buf[k] \in {expect[e.id][k], Blank}

(* vring_def.h:46: "The Guest publishes the used index for which it        *)
(* expects an interrupt at the end of the avail ring."  Whenever the       *)
(* handler is idle, having published the index it expects, and a chain has *)
(* been returned since, an interrupt is pending or the thread is between   *)
(* moving the used index and raising the line (blk.h:141-145).             *)
NoLostInterrupt ==
  gpc = "idle" /\ irq.events = 0 /\ q.used_idx # last_used[0]
    => bpc \in {"event", "irq"}

(* The eventfd never accumulates edges: the line stays high from the edge  *)
(* until the handler acknowledges it (interrupt.h:22-24, device.h:52-54).  *)
OneEdgeAtATime ==
  /\ irq.events <= 1
  /\ irq.events = 1 => irq.level

(* vring_def.h:46 again, as liveness: an idle driver that has published    *)
(* the current used index and still has chains with the device does get    *)
(* the interrupt it expects.                                               *)
Expecting ==
  /\ gpc = "idle"
  /\ q.ready /\ q.avail_ring[q.size] = q.used_idx
  /\ free[0] # Heads

ExpectedInterruptComes == Expecting ~> irq.level

(* The device implements the abstract FIFO server: chains come back in the *)
(* order they were made available, once each, and all of them.             *)
Server == INSTANCE FifoServer
  WITH Chains <- Heads, pending <- PendingOf(0), done <- DoneOf(0)

ServesFifo == Server!Spec

=============================================================================
