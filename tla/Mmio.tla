-------------------------------- MODULE Mmio ---------------------------------
(***************************************************************************)
(* The registers of the virtio-mmio devices (src/src/kvm/virtio/mmio.h,    *)
(* device.h): a driver that comes, negotiates features, sets its queues up *)
(* register by register, goes and comes back, while the threads of the     *)
(* devices look at the queues all the time.  Every access is one exit of a *)
(* vCPU; registers have no lock, but a queue's `ready' has.                *)
(*                                                                         *)
(* The driver (external) does what Linux' virtio_mmio does.  A 32-bit word *)
(* is the set of its bits where the code shifts, masks or ors it.          *)
(* Notifications only count (queue.h:99) and are left out, the status byte *)
(* is stored and decides nothing; INTERRUPT_STATUS, INTERRUPT_ACK and what *)
(* travels through the rings are in VirtioGuest.                           *)
(***************************************************************************)
EXTENDS Integers, Sequences

CONSTANTS
  Devices,
  features,     \* per device, the bits features() returns
  queue_count,  \* per device, the queues it has
  SetUp,        \* per device, how many of them its driver sets up
  Threads,      \* per device, the arguments of q(...) in its threads
  Rings,        \* rings a driver may allocate: size and three addresses
  Supported,    \* sets of features a driver may know
  MaxProbes     \* bound: how often the driver comes to a device

Word == 32
VERSION_1 == 32
RingNames == {"desc", "avail", "used"}

(* The argument of a thread that calls q() without one. *)
Selected == -1

ASSUME MmioConstants ==
  /\ \A d \in Devices :
       /\ features[d] \subseteq 0 .. Word - 1
       /\ queue_count[d] \in Nat \ {0} /\ SetUp[d] \in 1 .. queue_count[d]
       /\ Threads[d] \in {{Selected}, 0 .. SetUp[d] - 1}
       /\ Selected \in Threads[d] => queue_count[d] = 1
  /\ Rings \subseteq [size : Nat \ {0}, addr : [RingNames -> SUBSET (0 .. 2 * Word - 1)]]
  /\ MaxProbes \in Nat

VARIABLES
  dev,     \* per device, the fields of device and of its queues
  driver,  \* per device, what its driver is doing
  probes,  \* per device, how often a driver has come
  given,   \* history: per device and queue, the rings a driver completed
  failed,  \* history: per device, its driver could not allocate a ring
  on       \* per device and thread, the queue next() took a chain from

mmioVars == <<dev, driver, probes, given, failed, on>>

NoRings == [size |-> 0, addr |-> [r \in RingNames |-> {}]]
None == -1

MmioInit ==
  /\ dev = [d \in Devices |->
       [status |-> {}, device_feature_sel |-> FALSE, driver_feature_sel |-> FALSE,
        driver_features |-> {}, queue_index |-> 0,
        queues |-> [i \in 0 .. queue_count[d] - 1 |-> [ready |-> FALSE, rings |-> NoRings]]]]
  /\ driver = [d \in Devices |->
       [phase |-> "unbound", at |-> 1, queue |-> 0, owned |-> 0, seen |-> {}, accepted |-> {},
        supported |-> {}, alloc |-> [i \in 0 .. SetUp[d] - 1 |-> NoRings]]]
  /\ probes = [d \in Devices |-> 0]
  /\ given = [d \in Devices |-> [i \in 0 .. queue_count[d] - 1 |-> NoRings]]
  /\ failed = [d \in Devices |-> FALSE]
  /\ on = [d \in Devices |-> [t \in Threads[d] |-> None]]

-----------------------------------------------------------------------------
(* The register file                                                       *)

shift(sel) == IF sel THEN Word ELSE 0

(* DEVICE_FEATURES is masked with 0xFFFFFF: bits 24 to 31 of either word,  *)
(* VIRTIO_RING_F_EVENT_IDX among them, are never seen (mmio.h:65).         *)
read_features(d, r) ==
  {b \in 0 .. 23 : b + shift(r.device_feature_sel) \in features[d] \union {VERSION_1}}

(* Plausible slips: the queue is always the selected one; QUEUE_READY      *)
(* takes the value written; the features are not shifted; nor is the high  *)
(* half of an address.                                                     *)
q_selected(r, index) == r.queue_index
set_ready_value(queue, value) == [queue EXCEPT !.ready = value = 1]
or_features_unshifted(r, value) == [r EXCEPT !.driver_features = @ \union value]
or_word_low(address, half, value) == address \union value

(* q() and q(index). *)
q(r, index) == IF index = Selected THEN r.queue_index ELSE index

(* QUEUE_READY: whatever is written sets ready, and nothing clears it.     *)
set_ready(queue, value) == [queue EXCEPT !.ready = TRUE]

sel(value) == value = 1

or_features(r, value) ==
  [r EXCEPT !.driver_features = @ \union {b + shift(r.driver_feature_sel) : b \in value}]

(* QUEUE_DESC_LOW and the like: the word is or'ed into the address.        *)
or_word(address, half, value) == address \union {b + shift(half = "HIGH") : b \in value}

write(r, a) ==
  LET i == q(r, Selected)
  IN  CASE a.reg = "STATUS" -> [r EXCEPT !.status = a.value]
        [] a.reg = "DEVICE_FEATURES_SEL" -> [r EXCEPT !.device_feature_sel = sel(a.value)]
        [] a.reg = "DRIVER_FEATURES_SEL" -> [r EXCEPT !.driver_feature_sel = sel(a.value)]
        [] a.reg = "DRIVER_FEATURES" -> or_features(r, a.value)
        [] a.reg = "QUEUE_SEL" -> [r EXCEPT !.queue_index = a.value]
        [] a.reg = "QUEUE_NUM" -> [r EXCEPT !.queues[i].rings.size = a.value]
        [] a.reg = "QUEUE_READY" -> [r EXCEPT !.queues[i] = set_ready(@, a.value)]
        [] a.reg \in RingNames ->
             [r EXCEPT !.queues[i].rings.addr[a.reg] = or_word(@, a.half, a.value)]

-----------------------------------------------------------------------------
(* The driver (external): a phase, and the next of its accesses            *)

W(reg, value) == [op |-> "write", reg |-> reg, value |-> value]
R(reg) == [op |-> "read", reg |-> reg]

Half(set, half) ==
  {b \in 0 .. Word - 1 : b + shift(half = "HIGH") \in set}

W_half(reg, half, set) ==
  [op |-> "write", reg |-> reg, half |-> half, value |-> Half(set, half)]

NegotiateFeatures(accepted) ==
  <<W("STATUS", {}), W("STATUS", {"DRIVER"}),
    W("DEVICE_FEATURES_SEL", 1), R("DEVICE_FEATURES"),
    W("DEVICE_FEATURES_SEL", 0), R("DEVICE_FEATURES"),
    W("DRIVER_FEATURES_SEL", 1), W("DRIVER_FEATURES", Half(accepted, "HIGH")),
    W("DRIVER_FEATURES_SEL", 0), W("DRIVER_FEATURES", Half(accepted, "LOW")),
    W("STATUS", {"DRIVER", "FEATURES_OK"})>>

SetupQueue(i, rings) ==
  <<W("QUEUE_SEL", i), R("QUEUE_READY"), W("QUEUE_NUM", rings.size),
    W_half("desc", "LOW", rings.addr["desc"]), W_half("desc", "HIGH", rings.addr["desc"]),
    W_half("avail", "LOW", rings.addr["avail"]), W_half("avail", "HIGH", rings.addr["avail"]),
    W_half("used", "LOW", rings.addr["used"]), W_half("used", "HIGH", rings.addr["used"]),
    W("QUEUE_READY", 1)>>

(* What a driver r writes and reads in its phase, and what comes next. *)
Accesses(r) ==
  CASE r.phase = "features" -> NegotiateFeatures(r.accepted)
    [] r.phase = "queue" -> SetupQueue(r.queue, r.alloc[r.queue])
    [] r.phase = "ok" -> <<W("STATUS", {"DRIVER", "FEATURES_OK", "DRIVER_OK"})>>
    [] r.phase = "reset" -> <<W("STATUS", {})>>
    [] r.phase = "abort" -> <<W("QUEUE_READY", 0)>>
    [] r.phase = "drop" -> <<W("QUEUE_SEL", r.queue), W("QUEUE_READY", 0)>>
    [] r.phase = "failed" -> <<W("STATUS", {"FAILED"})>>

Current(r) == Accesses(r)[r.at]

Phases == {"unbound", "features", "queue", "ok", "bound", "reset", "abort", "drop", "failed"}
Busy(r) == r.phase \notin {"unbound", "bound"}

Enter(r, phase, queue) == [r EXCEPT !.phase = phase, !.at = 1, !.queue = queue]

(* One queue after the other is dropped; a driver that gave up has fewer   *)
(* than it wanted, and says so.                                            *)
DropFrom(d, r, queue) ==
  IF queue < r.owned THEN Enter(r, "drop", queue)
  ELSE Enter(r, IF r.owned < SetUp[d] THEN "failed" ELSE "unbound", 0)

SetUpFrom(d, r, queue) ==
  IF queue < SetUp[d] THEN Enter(r, "queue", queue) ELSE Enter(r, "ok", 0)

NextPhase(d, r) ==
  CASE r.phase = "features" -> SetUpFrom(d, r, 0)
    [] r.phase = "queue" -> SetUpFrom(d, [r EXCEPT !.owned = r.queue + 1], r.queue + 1)
    [] r.phase = "ok" -> Enter(r, "bound", 0)
    [] r.phase \in {"reset", "abort"} -> DropFrom(d, r, 0)
    [] r.phase = "drop" -> DropFrom(d, r, r.queue + 1)
    [] r.phase = "failed" -> Enter(r, "unbound", 0)

Proceed(d, r) ==
  IF r.at < Len(Accesses(r)) THEN [r EXCEPT !.at = @ + 1] ELSE NextPhase(d, r)

(* The driver core brings one driver at a time to a device. *)
Probe(d) ==
  /\ \A e \in Devices : ~Busy(driver[e])
  /\ driver[d].phase = "unbound"
  /\ probes[d] < MaxProbes
  /\ \E s \in Supported, alloc \in [0 .. SetUp[d] - 1 -> Rings] :
       driver' = [driver EXCEPT ![d] =
         [phase |-> "features", at |-> 1, queue |-> 0, owned |-> 0, seen |-> {}, accepted |-> {},
          supported |-> s \union {VERSION_1}, alloc |-> alloc]]
  /\ probes' = [probes EXCEPT ![d] = @ + 1]
  /\ UNCHANGED <<dev, given, failed, on>>

(* The driver is unbound: it resets the device and drops its queues. *)
Unbind(d) ==
  /\ \A e \in Devices : ~Busy(driver[e])
  /\ driver[d].phase = "bound"
  /\ driver' = [driver EXCEPT ![d] = Enter(@, "reset", 0)]
  /\ UNCHANGED <<dev, probes, given, failed, on>>

Access(d, op, reg) ==
  /\ Busy(driver[d])
  /\ Current(driver[d]).op = op
  /\ reg \in {"any", Current(driver[d]).reg}

DriverWrite(d) ==
  /\ Access(d, "write", "any")
  /\ LET a == Current(driver[d])
         i == dev[d].queue_index
     IN  /\ dev' = [dev EXCEPT ![d] = write(@, a)]
         /\ given' = IF a.reg = "QUEUE_READY" /\ a.value = 1
                     THEN [given EXCEPT ![d][i] = driver[d].alloc[i]] ELSE given
  /\ driver' = [driver EXCEPT ![d] = Proceed(d, @)]
  /\ UNCHANGED <<probes, failed, on>>

(* After both halves the driver accepts what it supports. *)
DriverReadFeatures(d) ==
  /\ Access(d, "read", "DEVICE_FEATURES")
  /\ LET r == driver[d]
         high == r.at = 4
         seen == r.seen \union {b + shift(high) : b \in read_features(d, dev[d])}
     IN  driver' = [driver EXCEPT ![d] = Proceed(d,
           [r EXCEPT !.seen = seen, !.accepted = IF high THEN @ ELSE seen \intersect r.supported])]
  /\ UNCHANGED <<dev, probes, given, failed, on>>

(* A queue that is ready already is somebody else's: the driver gives up,  *)
(* as it does when it cannot allocate the ring; then it writes 0 to        *)
(* QUEUE_READY of the half-made queue as well.                             *)
DriverReadReady(d) ==
  /\ Access(d, "read", "QUEUE_READY")
  /\ driver' = [driver EXCEPT ![d] =
       IF dev[d].queues[q(dev[d], Selected)].ready THEN DropFrom(d, @, 0) ELSE Proceed(d, @)]
  /\ UNCHANGED <<dev, probes, given, failed, on>>

DriverCannotAllocate(d) ==
  /\ Access(d, "write", "QUEUE_NUM")
  /\ driver' = [driver EXCEPT ![d] = Enter(@, "abort", 0)]
  /\ failed' = [failed EXCEPT ![d] = TRUE]
  /\ UNCHANGED <<dev, probes, given, on>>

-----------------------------------------------------------------------------
(* A thread of a device: next() finds a chain in a ready queue, whose size *)
(* and addresses it goes on reading until the chain is returned; then it   *)
(* starts over.  Whether there is a chain is up to the guest.              *)

Take(d, t) ==
  /\ on[d][t] = None
  /\ dev[d].queues[q(dev[d], t)].ready
  /\ on' = [on EXCEPT ![d][t] = q(dev[d], t)]
  /\ UNCHANGED <<dev, driver, probes, given, failed>>

Return(d, t) ==
  /\ on[d][t] # None
  /\ on' = [on EXCEPT ![d][t] = None]
  /\ UNCHANGED <<dev, driver, probes, given, failed>>

(* next() returned nullptr. *)
Idle(d, t) == on[d][t] = None /\ UNCHANGED mmioVars

-----------------------------------------------------------------------------

Driver(d) ==
  \/ Probe(d) \/ Unbind(d) \/ DriverWrite(d) \/ DriverReadFeatures(d)
  \/ DriverReadReady(d) \/ DriverCannotAllocate(d)

Thread(d, t) == Take(d, t) \/ Return(d, t) \/ Idle(d, t)

MmioNext == \E d \in Devices : Driver(d) \/ \E t \in Threads[d] : Thread(d, t)

MmioSpec == MmioInit /\ [][MmioNext]_mmioVars

-----------------------------------------------------------------------------
(* Properties                                                              *)

(* A queue the threads may use has the size and the three addresses that   *)
(* one driver gave it, never half of them and never the bits of two        *)
(* drivers together, although addresses are or'ed (mmio.h:162-179) and a   *)
(* reset clears nothing (device.h:44): the driver that comes second finds  *)
(* the queue ready and leaves it alone.  Its size is not 0, by which       *)
(* queue.h:66 would divide, unless a driver has failed to allocate a ring  *)
(* and, meaning to clear QUEUE_READY, set it (mmio.h:155).                 *)
RingsAreWhole ==
  \A d \in Devices : \A i \in 0 .. queue_count[d] - 1 :
    LET queue == dev[d].queues[i]
    IN  queue.ready =>
          /\ queue.rings = given[d][i]
          /\ queue.rings.size = 0 => failed[d]

(* While it serves a chain a thread stays on one queue, though q() is      *)
(* evaluated again for every access to it (blk.h:83, 90, 141) and a vCPU   *)
(* may write QUEUE_SEL in between.                                         *)
OneQueuePerChain ==
  \A d \in Devices : \A t \in Threads[d] :
    on[d][t] # None => q(dev[d], t) = on[d][t]

(* A driver that is bound has all its queues in service with the rings it  *)
(* has allocated itself.                                                   *)
BoundIsServed ==
  \A d \in Devices : driver[d].phase = "bound" =>
    \A i \in 0 .. SetUp[d] - 1 :
      /\ dev[d].queues[i].ready
      /\ dev[d].queues[i].rings = driver[d].alloc[i]
      /\ \E t \in Threads[d] : q(dev[d], t) = i

(* What a driver can find among the features of a device: all of them but  *)
(* those the mask of mmio.h:65 hides in either word.                       *)
Offered(d) == {b \in features[d] \union {VERSION_1} : b % Word < 24}

(* A bound driver has accepted just those features it knows and the device *)
(* offers below bit 24 of each word, VERSION_1 among them, though it found *)
(* them out and announced them through two selectors that nobody resets;   *)
(* VIRTIO_RING_F_EVENT_IDX of blk.h:74, by which blk.h:143 goes, is never  *)
(* one of them.  The device has recorded each in the half it belongs to,   *)
(* and none it does not have.                                              *)
FeaturesRecorded ==
  \A d \in Devices : driver[d].phase = "bound" =>
    /\ driver[d].accepted = driver[d].supported \intersect Offered(d)
    /\ VERSION_1 \in driver[d].accepted
    /\ driver[d].accepted \subseteq dev[d].driver_features
    /\ dev[d].driver_features \subseteq features[d] \union {VERSION_1}

=============================================================================
