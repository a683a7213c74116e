------------------------------ MODULE VirtQueue ------------------------------
(***************************************************************************)
(* The split virtqueue of src/src/kvm/virtio/queue.h, as operators on a    *)
(* record that holds both the device's private fields and the two rings    *)
(* that live in guest memory.                                              *)
(*                                                                         *)
(* The avail ring and the word behind it are one array, as in memory:      *)
(* words 0 .. size-1 are ring entries, the driver publishes its            *)
(* used_event in word `size' (the end of ITS ring), the device reads it    *)
(* from word QUEUE_SIZE_MAX (the fixed struct layout of avail_t).          *)
(*                                                                         *)
(* `notify' is left out: set_notify increments it and nothing reads it.    *)
(***************************************************************************)
EXTENDS Integers

CONSTANTS
  QUEUE_SIZE_MAX,  \* slots of the largest ring (0x200 in the code)
  IdxMod           \* number of values of the __u16 ring indices (2^16)

ASSUME QueueConstants ==
  /\ QUEUE_SIZE_MAX \in Nat \ {0}
  /\ IdxMod \in Nat \ {0}
  /\ QUEUE_SIZE_MAX <= IdxMod

Word == 0 .. IdxMod - 1

Queue ==
  [ size       : 0 .. QUEUE_SIZE_MAX,
    ready      : BOOLEAN,
    last_avail : Nat,
    avail_idx  : Word,
    avail_ring : [0 .. QUEUE_SIZE_MAX -> Word],
    used_idx   : Word,
    used_ring  : [0 .. QUEUE_SIZE_MAX - 1 -> [id : Word, len : Nat]] ]

(* A queue as its constructor leaves it, over zeroed guest memory. *)
FreshQueue ==
  [ size       |-> 0,
    ready      |-> FALSE,
    last_avail |-> 0,
    avail_idx  |-> 0,
    avail_ring |-> [s \in 0 .. QUEUE_SIZE_MAX |-> 0],
    used_idx   |-> 0,
    used_ring  |-> [s \in 0 .. QUEUE_SIZE_MAX - 1 |-> [id |-> 0, len |-> 0]] ]

-----------------------------------------------------------------------------
(* Device side.                                                            *)

(* Operators ending in a slip's name are plausible bugs in the definition  *)
(* that follows them; the properties are checked to notice each.           *)

avail_id_ahead(q) == q.avail_ring[q.last_avail % q.size]

avail_id(q) == q.avail_ring[(q.last_avail - 1) % q.size]

has_next_equal(q) == q.ready /\ q.avail_idx >= q.last_avail

(* next() returns nullptr unless this holds.  avail->idx is 16 bits wide,  *)
(* last_avail 32, and they are compared as integers.                       *)
has_next(q) == q.ready /\ q.avail_idx > q.last_avail

next(q) == [q EXCEPT !.last_avail = @ + 1]

pop_back_forgotten(q) == q

pop_back(q) == [q EXCEPT !.last_avail = @ - 1]

add_used_elem_swapped(q, start, len) ==
  [q EXCEPT !.used_ring[q.used_idx % q.size] = [id |-> len, len |-> start]]

(* add_used in the two stages a driver can observe: the element is stored, *)
(* then the index moves.                                                   *)
add_used_elem(q, start, len) ==
  [q EXCEPT !.used_ring[q.used_idx % q.size] = [id |-> start, len |-> len]]

add_used_idx(q) == [q EXCEPT !.used_idx = (@ + 1) % IdxMod]

(* avail()->used_event, at its fixed offset behind QUEUE_SIZE_MAX entries. *)
used_event(q) == q.avail_ring[QUEUE_SIZE_MAX]

set_ready(q) == [q EXCEPT !.ready = TRUE]

-----------------------------------------------------------------------------
(* Driver side (the guest; external).                                      *)

post_avail(q, head) ==
  [q EXCEPT !.avail_ring[q.avail_idx % q.size] = head,
            !.avail_idx = (@ + 1) % IdxMod]

publish_used_event(q, idx) == [q EXCEPT !.avail_ring[q.size] = idx]

used_elem(q, idx) == q.used_ring[idx % q.size]

=============================================================================
