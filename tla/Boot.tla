-------------------------------- MODULE Boot ---------------------------------
(***************************************************************************)
(* What vmm::start writes into the guest's memory before any vCPU runs:    *)
(* elf::load (elf.h), setup_long_mode and setup_regs (regs.h),             *)
(* setup_bootparams (vm.h) and setup_mptable (mptable.h), one after the    *)
(* other, none of them looking at what the others have written.            *)
(*                                                                         *)
(* Addresses and sizes are in bytes; mem is in KB as in MemoryMap.         *)
(***************************************************************************)
EXTENDS MemoryMap, Sequences

Area(what, at, size) == [what |-> what, at |-> at, size |-> size]

ZERO_PAGE_START == 28672
BOOT_STACK_START == 32768
BOOT_STACK_POINTER == 36848
BOOT_GDT_OFFSET == 1280
BOOT_IDT_OFFSET == 1312
PML4_START == 36864
PDPTE_START == 40960
PDE_START == 45056
CMDLINE_START == 131072
CMDLINE_MAX_SIZE == 65536
MPTABLE_START == 654336

PAGE == 4096

-----------------------------------------------------------------------------
(* elf::load: a kernel is a file of size bytes with its program headers    *)
(* at phoff.  The stream is never looked at: a read that runs into the end *)
(* of the file keeps what it got and fails, and after it every read gets   *)
(* nothing; what was not read of the headers is zero.  A file ends between *)
(* two of the header's fields, its magic number is always there.           *)

EHDR_SIZE == 64
PHDR_SIZE == 56

Phdrs ==
  [p_type : STRING, p_offset : Nat, p_paddr : Nat, p_filesz : Nat, p_memsz : Nat]

ElfImage ==
  {x \in [size : Nat, phoff : Nat, phdr : Seq(Phdrs), entry : STRING] :
     x.size > 0 /\ x.size % 8 = 0 /\ x.phoff % 8 = 0}

EINVAL == "EINVAL"

Loadable(p) == p.p_type = "PT_LOAD"
Malformed(p) == Loadable(p) /\ (p.p_filesz > p.p_memsz \/ p.p_filesz = 0)

e_phnum(image) == IF image.size < EHDR_SIZE THEN 0 ELSE Len(image.phdr)

phdr_end(image, i) == image.phoff + PHDR_SIZE * i

(* A header as it was read: cut before p_type it is PT_NULL, cut before    *)
(* the end of p_memsz (8 bytes from the end) it has no size in memory.     *)
header(image, i) ==
  IF phdr_end(image, i) <= image.size + 8 THEN image.phdr[i]
  ELSE IF phdr_end(image, i) <= image.size + 48 THEN [image.phdr[i] EXCEPT !.p_memsz = 0]
  ELSE [image.phdr[i] EXCEPT !.p_type = "PT_NULL"]

(* Plausible slip: a malformed header is passed over. *)
load_entry_anyway(image) == image.entry

malformed(image) == {i \in 1 .. e_phnum(image) : Malformed(header(image, i))}

(* The segments it gets to before a malformed header makes it give up. *)
reached(image) ==
  {i \in 1 .. e_phnum(image) :
     Loadable(header(image, i)) /\ \A j \in malformed(image) : i < j}

in_file(image, i) == image.phdr[i].p_offset + image.phdr[i].p_filesz <= image.size

(* The stream when a segment's turn comes. *)
good_at(image, i) ==
  /\ phdr_end(image, e_phnum(image)) <= image.size
  /\ \A j \in reached(image) : j < i => in_file(image, j)

(* The segments that are in memory whole, and what there is of the others. *)
loaded(image) == {i \in reached(image) : good_at(image, i) /\ in_file(image, i)}

copied(image, i) ==
  LET p == image.phdr[i]
  IN  IF i \in loaded(image) THEN p.p_filesz
      ELSE IF good_at(image, i) /\ p.p_offset < image.size THEN image.size - p.p_offset
      ELSE 0

(* e_entry is the eight bytes from 24 on. *)
load_entry(image) ==
  IF malformed(image) # {} THEN EINVAL ELSE IF image.size < 32 THEN "0" ELSE image.entry

-----------------------------------------------------------------------------
(* setup_mptable                                                           *)

(* One processor entry per vCPU, then a bus, the IO-APIC and two local     *)
(* interrupts behind the header; the floating pointer is on the next       *)
(* multiple of 16.                                                         *)
gen_cpu_flag(cpu) == IF cpu = 0 THEN "CPU_BOOTPROCESSOR" ELSE "CPU_ENABLED"

mpc_cpus(ncpus) == {[apicid |-> i, cpuflag |-> gen_cpu_flag(i)] : i \in 0 .. ncpus - 1}
ioapicid(ncpus) == ncpus + 1
mpc_length(ncpus) == 44 + 20 * ncpus + 8 + 8 + 2 * 8
real_mpf_intel(ncpus) == 16 * ((mpc_length(ncpus) + 15) \div 16)
mptable_size(ncpus) == real_mpf_intel(ncpus) + 16

-----------------------------------------------------------------------------
(* What is written, and what the vCPU and the kernel rely on               *)

Segment(image, i, size) == Area("segment", image.phdr[i].p_paddr, size)

(* The copy of the GDT stops after as many bytes as it has entries         *)
(* (regs.h:38); boot_params is a page.                                     *)
writes(image, ncpus) ==
  {Segment(image, i, copied(image, i)) : i \in reached(image)} \union
  {Area("pml4", PML4_START, 8), Area("pdpte", PDPTE_START, 8), Area("pde", PDE_START, PAGE),
   Area("gdt", BOOT_GDT_OFFSET, 4), Area("idt", BOOT_IDT_OFFSET, 8),
   Area("boot_params", ZERO_PAGE_START, PAGE),
   Area("cmdline", CMDLINE_START, CMDLINE_MAX_SIZE),
   Area("mptable", MPTABLE_START, mptable_size(ncpus))}

(* A segment with its bss, the page tables to the end of their pages, the  *)
(* descriptor tables to their limits, the stack below rsp, boot_params,    *)
(* the command line, and the last KB below 640 KB, in which the kernel     *)
(* looks for the floating pointer.                                         *)
relied_on(image) ==
  {Segment(image, i, image.phdr[i].p_memsz) : i \in reached(image)} \union
  {Area("pml4", PML4_START, PAGE), Area("pdpte", PDPTE_START, PAGE), Area("pde", PDE_START, PAGE),
   Area("gdt", BOOT_GDT_OFFSET, 4 * 8), Area("idt", BOOT_IDT_OFFSET, 8),
   Area("stack", BOOT_STACK_START, BOOT_STACK_POINTER - BOOT_STACK_START),
   Area("boot_params", ZERO_PAGE_START, PAGE),
   Area("cmdline", CMDLINE_START, CMDLINE_MAX_SIZE),
   Area("mptable", MPTABLE_START, 1024)}

(* 512 large pages, each at the address of its number (regs.h:24): what    *)
(* lies below is where the vCPU sees it.                                   *)
IdentityMapped == 512 * 2097152

EndKB(a) == (a.at + a.size + 1023) \div 1024

(* Images the program is made for: their segments are above HIMEM_START,   *)
(* apart from each other, within the memory and the identity mapping.      *)
Fits(image, mem) ==
  \A i \in DOMAIN image.phdr : Loadable(image.phdr[i]) =>
    LET p == image.phdr[i]
        a == Segment(image, i, p.p_memsz)
    IN  /\ p.p_paddr >= 1024 * HIMEM_START
        /\ a.at + a.size <= IdentityMapped
        /\ EndKB(a) <= mem /\ EndKB(a) <= GAP_START
        /\ \A j \in DOMAIN image.phdr : j # i /\ Loadable(image.phdr[j]) =>
             LET r == image.phdr[j]
             IN  p.p_paddr + p.p_memsz <= r.p_paddr \/ r.p_paddr + r.p_memsz <= p.p_paddr

-----------------------------------------------------------------------------
(* What must hold of them.                                                 *)

Inside(a, b) == b.at <= a.at /\ a.at + a.size <= b.at + b.size
Apart(a, b) == a.at + a.size <= b.at \/ b.at + b.size <= a.at

(* Nothing is written over what another step has written or left zero for  *)
(* the vCPU to find.                                                       *)
NothingOverwritten(image, ncpus) ==
  \A w \in writes(image, ncpus) : \A a \in relied_on(image) :
    IF w.what = a.what /\ w.at = a.at THEN Inside(w, a) ELSE Apart(w, a)

(* All of it is memory, and where the vCPU sees it. *)
AllInMemory(image, mem) ==
  \A a \in relied_on(image) :
    /\ \E s \in slots(mem) : s.guest = 0 /\ EndKB(a) <= s.size
    /\ a.at + a.size <= IdentityMapped

(* The MP table is not in what e820 offers the kernel as RAM, its boot     *)
(* processor is the vCPU that gets the registers, and no processor has the *)
(* IO-APIC's id.                                                           *)
MpTableUsable(ncpus, mem) ==
  /\ \A r \in e820_table(mem) :
       (MPTABLE_START + mptable_size(ncpus) - 1) \div 1024 < r.addr
         \/ r.addr + r.size <= MPTABLE_START \div 1024
  /\ ioapicid(ncpus) \notin {c.apicid : c \in mpc_cpus(ncpus)}
  /\ {c.apicid : c \in {d \in mpc_cpus(ncpus) : d.cpuflag = "CPU_BOOTPROCESSOR"}} = {0}

(* All that the headers name is in the file. *)
Complete(image) ==
  /\ image.size >= EHDR_SIZE /\ phdr_end(image, Len(image.phdr)) <= image.size
  /\ \A i \in DOMAIN image.phdr : Loadable(image.phdr[i]) => in_file(image, i)

(* A vCPU that is started at the entry of a complete image finds all its   *)
(* segments.  A file that has been cut short is started as well; what is   *)
(* there of it is its first segments, the last of them perhaps in part.    *)
KernelWhole(image) ==
  /\ Complete(image) /\ load_entry(image) # EINVAL =>
       \A i \in DOMAIN image.phdr : Loadable(image.phdr[i]) => i \in loaded(image)
  /\ \A i, j \in reached(image) : i < j /\ copied(image, j) > 0 => i \in loaded(image)

ImageWhole(image, ncpus, mem) ==
  /\ NothingOverwritten(image, ncpus)
  /\ AllInMemory(image, mem)
  /\ MpTableUsable(ncpus, mem)
  /\ KernelWhole(image)

=============================================================================
