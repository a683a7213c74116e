------------------------------ MODULE MemoryMap ------------------------------
(***************************************************************************)
(* The guest's memory: the one mmap'ed block of vm::create_memory, the     *)
(* slots of it that KVM maps, and the e820 table that setup_bootparams     *)
(* writes for the kernel (src/src/kvm/vm.h, layout.h).  Sizes and          *)
(* addresses are in KB, which all bounds are multiples of.                 *)
(***************************************************************************)
EXTENDS Naturals

HIMEM_START == 1024
EBDA_START == 639
MAX_32BIT == 4096 * 1024
GAP_SIZE == 768 * 1024
GAP_START == MAX_32BIT - GAP_SIZE

(* What mmap and KVM take: some whole pages, and not exactly GAP_START,    *)
(* which leaves the second slot empty.  Otherwise an exception ends the    *)
(* program.                                                                *)
SizeAccepted(mem) == mem \in Nat /\ mem > 0 /\ mem % 4 = 0 /\ mem # GAP_START

(* create_memory accepts less, but the size that vm.h:350 tells the kernel *)
(* is unsigned: nothing that follows is meant for a machine like that.     *)
ReachesHimem(mem) == mem > HIMEM_START

(* The size of the block: the gap for devices below 4 GB is part of it.    *)
memory_size(mem) == IF mem >= GAP_START THEN mem + GAP_SIZE ELSE mem

(* A plausible slip: the second slot follows the first one in the block.   *)
slots_packed(mem) ==
  {[guest |-> 0, size |-> GAP_START, host |-> 0],
   [guest |-> MAX_32BIT, size |-> memory_size(mem) - MAX_32BIT, host |-> GAP_START]}

(* guest physical address, size, offset into the block. *)
slots(mem) ==
  IF memory_size(mem) < GAP_START
  THEN {[guest |-> 0, size |-> memory_size(mem), host |-> 0]}
  ELSE {[guest |-> 0, size |-> GAP_START, host |-> 0],
        [guest |-> MAX_32BIT, size |-> memory_size(mem) - MAX_32BIT, host |-> MAX_32BIT]}

e820_table(mem) ==
  {[addr |-> 0, size |-> EBDA_START]} \union
  IF memory_size(mem) < GAP_START
  THEN {[addr |-> HIMEM_START, size |-> memory_size(mem) - HIMEM_START]}
  ELSE {[addr |-> HIMEM_START, size |-> GAP_START - HIMEM_START],
        [addr |-> MAX_32BIT, size |-> memory_size(mem) - MAX_32BIT]}

-----------------------------------------------------------------------------
(* What must hold of them.                                                 *)

(* Every range the kernel takes for RAM is backed by a slot. *)
RamIsMapped(mem) ==
  \A r \in e820_table(mem) : \E s \in slots(mem) :
    r.size > 0 /\ s.guest <= r.addr /\ r.addr + r.size <= s.guest + s.size

(* Slots lie in the block, where guest physical addresses say: devices     *)
(* translate an address by adding it to the block's start (queue.h:49).    *)
SlotsAreIdentity(mem) ==
  \A s \in slots(mem) : s.host = s.guest /\ s.host + s.size <= memory_size(mem)

(* No slot reaches into the gap, where the virtio-mmio devices, the APICs  *)
(* and the TSS are (vmm.h:81-83, vm.h:280).                                *)
GapIsFree(mem) ==
  \A s \in slots(mem) : s.guest + s.size <= GAP_START \/ s.guest >= MAX_32BIT

(* No memory is lost: what follows HIMEM_START in a slot is reported.      *)
MemoryIsReported(mem) ==
  \A s \in slots(mem) : \E r \in e820_table(mem) :
    r.addr + r.size = s.guest + s.size /\ r.addr \in {s.guest, HIMEM_START}

Backed(mem) ==
  RamIsMapped(mem) /\ SlotsAreIdentity(mem) /\ GapIsFree(mem) /\ MemoryIsReported(mem)

=============================================================================
