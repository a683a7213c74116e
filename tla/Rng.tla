--------------------------------- MODULE Rng ---------------------------------
(***************************************************************************)
(* The virtio entropy device of src/src/kvm/virtio/rng.h.  It has no       *)
(* thread: vm::run_cpu calls mmio.update, and through it rng::update, on   *)
(* the vCPU thread after every MMIO exit of that vCPU, whatever device the *)
(* guest touched (vm.h:188-196).  The vCPU threads share the queue, whose  *)
(* methods lock one by one, and the stream, which nothing locks.           *)
(*                                                                         *)
(* The guest's driver and interrupt handler run on the vCPUs; the handler  *)
(* is not tied to one of them, and any vCPU in guest mode may exit at any  *)
(* time, so every placement is covered.                                    *)
(***************************************************************************)
EXTENDS VirtioGuest, FiniteSets

CONSTANTS
  VCpus,          \* vCPU threads (CPU_COUNT = 2 in vmm.h)
  BufLen,         \* length of a request's buffer
  MaxOutstanding, \* requests the driver keeps with the device at once
  IoErrors        \* whether reads of /dev/random may fail

ASSUME RngConstants ==
  /\ queue_count = 1
  /\ IsFiniteSet(VCpus)
  /\ BufLen \in Nat
  /\ MaxOutstanding \in Nat \ {0}
  /\ IoErrors \in BOOLEAN

VARIABLES
  pc,     \* per vCPU, where its thread is
  cur,    \* per vCPU, head of the chain next() returned
  start,  \* per vCPU, local desc_start
  good,   \* file.good(): whether no read of the stream has failed yet
  buf     \* per head, what the read into its buffer did, if there was one

cpuVars == <<pc, cur, start>>
vars == <<guestVars, cpuVars, good, buf>>

q == vq[0]

Init ==
  /\ GuestInit
  /\ pc = [v \in VCpus |-> "guest"]
  /\ cur = [v \in VCpus |-> 0]
  /\ start = [v \in VCpus |-> 0]
  /\ good = TRUE
  /\ buf = [h \in Heads |-> "empty"]

-----------------------------------------------------------------------------
(* Guest mode                                                              *)

GuestSetup == SetupQueue(0) /\ UNCHANGED <<cpuVars, good, buf>>

(* The driver posts a request and writes QUEUE_NOTIFY, which is an exit.   *)
GuestPost(v) ==
  /\ pc[v] = "guest"
  /\ Cardinality(Heads \ free[0]) < MaxOutstanding
  /\ \E h \in free[0] : Post(0, h) /\ buf' = [buf EXCEPT ![h] = "empty"]
  /\ pc' = [pc EXCEPT ![v] = "next"]
  /\ UNCHANGED <<cur, start, good>>

(* KVM_EXIT_MMIO for any other register of any device. *)
Exit(v) ==
  /\ pc[v] = "guest"
  /\ pc' = [pc EXCEPT ![v] = "next"]
  /\ UNCHANGED <<guestVars, cur, start, good, buf>>

GuestHandler == Handler /\ UNCHANGED <<cpuVars, good, buf>>

-----------------------------------------------------------------------------
(* rng::update on vCPU v                                                   *)

(* next() returned nullptr: back to the guest. *)
Nothing(v) ==
  /\ pc[v] = "next"
  /\ ~has_next(q)
  /\ pc' = [pc EXCEPT ![v] = "guest"]
  /\ UNCHANGED <<guestVars, cur, start, good, buf>>

Take(v) ==
  /\ pc[v] = "next"
  /\ has_next(q)
  /\ vq' = [vq EXCEPT ![0] = next(@)]
  /\ cur' = [cur EXCEPT ![v] = avail_id(vq'[0])]
  /\ pc' = [pc EXCEPT ![v] = "id"]
  /\ UNCHANGED <<irq, gpc, scan, last_used, free, posted, start, good, buf>>

(* desc_start is computed from last_avail again, without next()'s lock.    *)
ReadId(v) ==
  /\ pc[v] = "id"
  /\ start' = [start EXCEPT ![v] = avail_id(q)]
  /\ pc' = [pc EXCEPT ![v] = "read"]
  /\ UNCHANGED <<guestVars, cur, good, buf>>

(* Nobody looks at the stream after file.read: a read that fails sets its  *)
(* failbit for good, and every later one then reads nothing.  The chain    *)
(* goes back with its full length all the same (rng.h:51-53).              *)
Fill(v) ==
  /\ pc[v] = "read"
  /\ good' \in IF IoErrors THEN {good, FALSE} ELSE {good}
  /\ buf' = [buf EXCEPT ![cur[v]] = IF good' THEN "filled" ELSE "failed"]
  /\ pc' = [pc EXCEPT ![v] = "elem"]
  /\ UNCHANGED <<guestVars, cur, start>>

UseElem(v) ==
  /\ pc[v] = "elem"
  /\ vq' = [vq EXCEPT ![0] = add_used_elem(@, start[v], BufLen)]
  /\ pc' = [pc EXCEPT ![v] = "idx"]
  /\ UNCHANGED <<irq, gpc, scan, last_used, free, posted, cur, start, good, buf>>

(* The queue's mutex, which add_used holds from the element to the index.  *)
LockFree(v) == \A w \in VCpus \ {v} : pc[w] # "idx"

UseIdx(v) ==
  /\ pc[v] = "idx"
  /\ vq' = [vq EXCEPT ![0] = add_used_idx(@)]
  /\ pc' = [pc EXCEPT ![v] = "irq"]
  /\ UNCHANGED <<irq, gpc, scan, last_used, free, posted, cur, start, good, buf>>

RaiseIrq(v) ==
  /\ pc[v] = "irq"
  /\ irq' = set_level(irq, TRUE)
  /\ pc' = [pc EXCEPT ![v] = "guest"]
  /\ UNCHANGED <<vq, gpc, scan, last_used, free, posted, cur, start, good, buf>>

Update(v) ==
  \/ LockFree(v) /\ (Nothing(v) \/ Take(v) \/ UseElem(v))
  \/ ReadId(v) \/ Fill(v)
  \/ UseIdx(v) \/ RaiseIrq(v)

-----------------------------------------------------------------------------

Next ==
  \/ GuestSetup
  \/ GuestHandler
  \/ \E v \in VCpus : GuestPost(v) \/ Exit(v) \/ Update(v)

(* Each vCPU thread is scheduled and the guest runs its handler to the end.*)
(* Neither posts nor further exits are assumed: the exit of the notify     *)
(* itself must do.                                                         *)
Fairness ==
  /\ WF_vars(GuestHandler)
  /\ \A v \in VCpus : WF_vars(Update(v))

Spec == Init /\ [][Next]_vars

FairSpec == Spec /\ Fairness

-----------------------------------------------------------------------------
(* Properties                                                              *)

(* rng.h:50 reads /dev/random through one std::ifstream that no mutex      *)
(* guards: two vCPUs must never be between next() and add_used at once.    *)
StreamExclusive ==
  \A v, w \in VCpus :
    v # w => ~(pc[v] \in {"id", "read", "elem"} /\ pc[w] \in {"id", "read", "elem"})

(* A read into the buffer of h found entropy, or the stream has failed.    *)
Returnable(h) == buf[h] = "filled" \/ (buf[h] = "failed" /\ ~good)

(* The id a vCPU returns, read from the ring after the lock of next() was  *)
(* released (rng.h:48), names the chain it fills, and that chain is not    *)
(* the driver's.  A buffer comes back only after a read into it, and with  *)
(* entropy in it unless the stream has failed; from then on the driver     *)
(* takes what its buffers held before for entropy.                         *)
ReturnsWhatItFilled ==
  /\ \A v \in VCpus :
       /\ pc[v] \in {"read", "elem", "idx"} => start[v] = cur[v]
       /\ pc[v] \in {"id", "read", "elem", "idx"} => cur[v] \notin free[0]
  /\ \A n \in last_used[0] .. q.used_idx - 1 : Returnable(used_elem(q, n).id)

(* An idle handler without a pending edge has reaped all that was returned *)
(* but what a vCPU is about to raise the line for (rng.h:53-54), although  *)
(* vCPUs may raise it in another order than they returned chains.          *)
NoLostInterrupt ==
  gpc = "idle" /\ irq.events = 0 /\ last_used[0] # q.used_idx
    => \E v \in VCpus : pc[v] = "irq"

(* Requests are served in order, once each, and all of them, although      *)
(* update serves one chain per exit and nothing polls the queue.           *)
Server == INSTANCE FifoServer
  WITH Chains <- Heads, pending <- PendingOf(0), done <- DoneOf(0)

ServesFifo == Server!Spec

=============================================================================
