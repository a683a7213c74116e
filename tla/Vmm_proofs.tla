----------------------------- MODULE Vmm_proofs ------------------------------
(* Theorems about MemoryMap, Boot and Vmm, for every size of memory, every *)
(* kernel image that fits and every number of vCPUs the MP table can hold. *)
EXTENDS Vmm, SequenceTheorems, TLAPS

(* The slots and the e820 table of every size above HIMEM_START that is    *)
(* accepted fit together: below the gap there is one slot, above it two.   *)
LEMMA AcceptedIsBacked ==
  ASSUME NEW m, SizeAccepted(m), ReachesHimem(m)
  PROVE  Backed(m)
<1> USE DEF SizeAccepted, ReachesHimem, HIMEM_START, EBDA_START, MAX_32BIT, GAP_SIZE, GAP_START
<1>1. CASE m < GAP_START
  <2> DEFINE s == [guest |-> 0, size |-> m, host |-> 0]
             low == [addr |-> 0, size |-> EBDA_START]
             high == [addr |-> HIMEM_START, size |-> m - HIMEM_START]
  <2>1. memory_size(m) = m /\ slots(m) = {s} /\ e820_table(m) = {low, high}
    BY <1>1 DEF memory_size, slots, e820_table
  <2>2. RamIsMapped(m)
    BY <1>1, <2>1 DEF RamIsMapped
  <2>3. SlotsAreIdentity(m) /\ GapIsFree(m)
    BY <1>1, <2>1 DEF SlotsAreIdentity, GapIsFree
  <2>4. MemoryIsReported(m)
    BY <1>1, <2>1 DEF MemoryIsReported
  <2> QED
    BY <2>2, <2>3, <2>4 DEF Backed
<1>2. CASE m > GAP_START
  <2> DEFINE first == [guest |-> 0, size |-> GAP_START, host |-> 0]
             second == [guest |-> MAX_32BIT, size |-> m + GAP_SIZE - MAX_32BIT,
                        host |-> MAX_32BIT]
             low == [addr |-> 0, size |-> EBDA_START]
             middle == [addr |-> HIMEM_START, size |-> GAP_START - HIMEM_START]
             high == [addr |-> MAX_32BIT, size |-> m + GAP_SIZE - MAX_32BIT]
  <2>1. /\ memory_size(m) = m + GAP_SIZE
        /\ slots(m) = {first, second}
        /\ e820_table(m) = {low, middle, high}
    BY <1>2 DEF memory_size, slots, e820_table
  <2>2. RamIsMapped(m)
    BY <1>2, <2>1 DEF RamIsMapped
  <2>3. SlotsAreIdentity(m) /\ GapIsFree(m)
    BY <1>2, <2>1 DEF SlotsAreIdentity, GapIsFree
  <2>4. MemoryIsReported(m)
    BY <1>2, <2>1 DEF MemoryIsReported
  <2> QED
    BY <2>2, <2>3, <2>4 DEF Backed
<1> QED
  BY <1>1, <1>2

(* create_memory and setup_bootparams agree as long as the memory is       *)
(* mapped, whatever size above HIMEM_START the vm was given (vm.h:346).    *)
THEOREM RamIsBacked == Spec => []GuestRamIsBacked
<1> DEFINE Inv == mem \in Sizes
<1>1. Init => Inv
  BY DEF Init
<1>2. Inv /\ [Next]_vars => Inv'
  BY DEF Next, vars, Main, Test, LeaveGuest, Interrupted, Handle, Typed, Iterate, Goto
<1>3. Inv => GuestRamIsBacked
  BY VmmConstants, AcceptedIsBacked DEF VmmConstants, GuestRamIsBacked
<1> QED
  BY <1>1, <1>2, <1>3, PTL DEF Spec

-----------------------------------------------------------------------------
(* The image in memory                                                     *)

(* The MP table and its floating pointer end below 640 KB. *)
LEMMA MpTableFits ==
  ASSUME NEW n \in 1 .. MAX_CPUS
  PROVE  mptable_size(n) \in Nat /\ 1 <= mptable_size(n) /\ mptable_size(n) <= 1024
  BY DEF mptable_size, real_mpf_intel, mpc_length, MAX_CPUS

(* What the kernel finds below 1 MB, each piece with its own place. *)
Fixed ==
  {Area("pml4", PML4_START, PAGE), Area("pdpte", PDPTE_START, PAGE), Area("pde", PDE_START, PAGE),
   Area("gdt", BOOT_GDT_OFFSET, 4 * 8), Area("idt", BOOT_IDT_OFFSET, 8),
   Area("stack", BOOT_STACK_START, BOOT_STACK_POINTER - BOOT_STACK_START),
   Area("boot_params", ZERO_PAGE_START, PAGE),
   Area("cmdline", CMDLINE_START, CMDLINE_MAX_SIZE),
   Area("mptable", MPTABLE_START, 1024)}

FixedWrites(n) ==
  {Area("pml4", PML4_START, 8), Area("pdpte", PDPTE_START, 8), Area("pde", PDE_START, PAGE),
   Area("gdt", BOOT_GDT_OFFSET, 4), Area("idt", BOOT_IDT_OFFSET, 8),
   Area("boot_params", ZERO_PAGE_START, PAGE),
   Area("cmdline", CMDLINE_START, CMDLINE_MAX_SIZE),
   Area("mptable", MPTABLE_START, mptable_size(n))}

(* The same, field by field. *)
LEMMA FixedShape ==
  ASSUME NEW a \in Fixed
  PROVE  \/ a.what = "pml4" /\ a.at = PML4_START /\ a.size = PAGE
         \/ a.what = "pdpte" /\ a.at = PDPTE_START /\ a.size = PAGE
         \/ a.what = "pde" /\ a.at = PDE_START /\ a.size = PAGE
         \/ a.what = "gdt" /\ a.at = BOOT_GDT_OFFSET /\ a.size = 4 * 8
         \/ a.what = "idt" /\ a.at = BOOT_IDT_OFFSET /\ a.size = 8
         \/ /\ a.what = "stack" /\ a.at = BOOT_STACK_START
            /\ a.size = BOOT_STACK_POINTER - BOOT_STACK_START
         \/ a.what = "boot_params" /\ a.at = ZERO_PAGE_START /\ a.size = PAGE
         \/ a.what = "cmdline" /\ a.at = CMDLINE_START /\ a.size = CMDLINE_MAX_SIZE
         \/ a.what = "mptable" /\ a.at = MPTABLE_START /\ a.size = 1024
  BY DEF Fixed, Area

LEMMA FixedWritesShape ==
  ASSUME NEW n, NEW w \in FixedWrites(n)
  PROVE  \/ w.what = "pml4" /\ w.at = PML4_START /\ w.size = 8
         \/ w.what = "pdpte" /\ w.at = PDPTE_START /\ w.size = 8
         \/ w.what = "pde" /\ w.at = PDE_START /\ w.size = PAGE
         \/ w.what = "gdt" /\ w.at = BOOT_GDT_OFFSET /\ w.size = 4
         \/ w.what = "idt" /\ w.at = BOOT_IDT_OFFSET /\ w.size = 8
         \/ w.what = "boot_params" /\ w.at = ZERO_PAGE_START /\ w.size = PAGE
         \/ w.what = "cmdline" /\ w.at = CMDLINE_START /\ w.size = CMDLINE_MAX_SIZE
         \/ w.what = "mptable" /\ w.at = MPTABLE_START /\ w.size = mptable_size(n)
  BY DEF FixedWrites, Area

(* The addresses of layout.h keep them apart. *)
LEMMA FixedApart ==
  ASSUME NEW n \in 1 .. MAX_CPUS, NEW w \in FixedWrites(n), NEW a \in Fixed
  PROVE  IF w.what = a.what /\ w.at = a.at THEN Inside(w, a) ELSE Apart(w, a)
<1>1. mptable_size(n) \in Nat /\ mptable_size(n) <= 1024
  BY MpTableFits
<1> DEFINE what == w.what
           at == w.at
           size == w.size
           m == mptable_size(n)
<1>2. \/ what = "pml4" /\ at = PML4_START /\ size = 8
      \/ what = "pdpte" /\ at = PDPTE_START /\ size = 8
      \/ what = "pde" /\ at = PDE_START /\ size = PAGE
      \/ what = "gdt" /\ at = BOOT_GDT_OFFSET /\ size = 4
      \/ what = "idt" /\ at = BOOT_IDT_OFFSET /\ size = 8
      \/ what = "boot_params" /\ at = ZERO_PAGE_START /\ size = PAGE
      \/ what = "cmdline" /\ at = CMDLINE_START /\ size = CMDLINE_MAX_SIZE
      \/ what = "mptable" /\ at = MPTABLE_START /\ size = m
  BY FixedWritesShape
<1> SUFFICES IF what = a.what /\ at = a.at
             THEN a.at <= at /\ at + size <= a.at + a.size
             ELSE at + size <= a.at \/ a.at + a.size <= at
  BY DEF Inside, Apart
<1>3. m \in Nat /\ m <= 1024
  BY <1>1
<1> HIDE DEF what, at, size, m
<1> USE DEF PML4_START, PDPTE_START, PDE_START, PAGE, BOOT_GDT_OFFSET, BOOT_IDT_OFFSET,
      BOOT_STACK_START, BOOT_STACK_POINTER, ZERO_PAGE_START, CMDLINE_START, CMDLINE_MAX_SIZE,
      MPTABLE_START
<1>a. CASE a.what = "pml4" /\ a.at = PML4_START /\ a.size = PAGE
  BY ONLY <1>2, <1>3, <1>a
<1>b. CASE a.what = "pdpte" /\ a.at = PDPTE_START /\ a.size = PAGE
  BY ONLY <1>2, <1>3, <1>b
<1>c. CASE a.what = "pde" /\ a.at = PDE_START /\ a.size = PAGE
  BY ONLY <1>2, <1>3, <1>c
<1>d. CASE a.what = "gdt" /\ a.at = BOOT_GDT_OFFSET /\ a.size = 4 * 8
  BY ONLY <1>2, <1>3, <1>d
<1>e. CASE a.what = "idt" /\ a.at = BOOT_IDT_OFFSET /\ a.size = 8
  BY ONLY <1>2, <1>3, <1>e
<1>f. CASE /\ a.what = "stack" /\ a.at = BOOT_STACK_START
           /\ a.size = BOOT_STACK_POINTER - BOOT_STACK_START
  BY ONLY <1>2, <1>3, <1>f
<1>g. CASE a.what = "boot_params" /\ a.at = ZERO_PAGE_START /\ a.size = PAGE
  BY ONLY <1>2, <1>3, <1>g
<1>h. CASE a.what = "cmdline" /\ a.at = CMDLINE_START /\ a.size = CMDLINE_MAX_SIZE
  BY ONLY <1>2, <1>3, <1>h
<1>i. CASE a.what = "mptable" /\ a.at = MPTABLE_START /\ a.size = 1024
  BY ONLY <1>2, <1>3, <1>i
<1> QED
  BY ONLY FixedShape, a \in Fixed, <1>a, <1>b, <1>c, <1>d, <1>e, <1>f, <1>g, <1>h, <1>i

(* All of the fixed areas are below 1 MB, the segments above. *)
LEMMA FixedIsLow ==
  ASSUME NEW n \in 1 .. MAX_CPUS, NEW a \in Fixed \union FixedWrites(n)
  PROVE  /\ a.at \in Nat /\ a.size \in Nat
         /\ a.at + a.size <= 1024 * HIMEM_START
         /\ a.what # "segment"
<1> USE DEF PML4_START, PDPTE_START, PDE_START, PAGE, BOOT_GDT_OFFSET, BOOT_IDT_OFFSET,
      BOOT_STACK_START, BOOT_STACK_POINTER, ZERO_PAGE_START, CMDLINE_START, CMDLINE_MAX_SIZE,
      MPTABLE_START, HIMEM_START
<1>1. CASE a \in Fixed
  BY <1>1, FixedShape
<1>2. CASE a \in FixedWrites(n)
  <2>1. mptable_size(n) \in Nat /\ mptable_size(n) <= 1024
    BY MpTableFits
  <2> QED
    BY <1>2, <2>1, FixedWritesShape
<1> QED
  BY <1>1, <1>2

(* A segment elf::load got to: its header was read as far as it is used,   *)
(* its data is not more than its memory, what was copied is not more than  *)
(* its data, and it is where Fits says.                                    *)
LEMMA ReachedFits ==
  ASSUME NEW x \in ElfImage, NEW m \in Nat, Fits(x, m), NEW i \in reached(x)
  PROVE  LET p == x.phdr[i]
         IN  /\ i \in DOMAIN x.phdr /\ Loadable(p)
             /\ p.p_paddr \in Nat /\ p.p_filesz \in Nat /\ p.p_memsz \in Nat
             /\ 1 <= p.p_filesz /\ p.p_filesz <= p.p_memsz
             /\ copied(x, i) \in Nat /\ copied(x, i) <= p.p_memsz
             /\ 1024 * HIMEM_START <= p.p_paddr
             /\ p.p_paddr + p.p_memsz <= IdentityMapped
             /\ EndKB(Segment(x, i, p.p_memsz)) <= m
             /\ EndKB(Segment(x, i, p.p_memsz)) <= GAP_START
<1> DEFINE p == x.phdr[i]
           h == header(x, i)
<1>1. /\ x.size \in Nat /\ x.phoff \in Nat /\ x.phdr \in Seq(Phdrs)
      /\ i \in 1 .. Len(x.phdr) /\ DOMAIN x.phdr = 1 .. Len(x.phdr)
  BY DEF ElfImage, reached, e_phnum
<1>2. p \in Phdrs
  <2> HIDE DEF p
  <2>1. x.phdr[i] \in Phdrs
    BY <1>1
  <2> QED
    BY <2>1 DEF p
<1>3. Loadable(h) /\ ~Malformed(h)
  <2>1. Loadable(h) /\ i \in 1 .. e_phnum(x) /\ \A j \in malformed(x) : i < j
    BY DEF reached
  <2>2. i \notin malformed(x)
    BY <2>1
  <2> QED
    BY <2>1, <2>2 DEF malformed
<1>4. h = p
  <2>1. h \in {p, [p EXCEPT !.p_memsz = 0], [p EXCEPT !.p_type = "PT_NULL"]}
    BY DEF header
  <2>2. h # [p EXCEPT !.p_memsz = 0]
    BY <1>2, <1>3 DEF Malformed, Phdrs
  <2>3. h # [p EXCEPT !.p_type = "PT_NULL"]
    BY <1>2, <1>3 DEF Loadable, Phdrs
  <2> QED
    BY <2>1, <2>2, <2>3
<1>5. /\ Loadable(p) /\ 1 <= p.p_filesz /\ p.p_filesz <= p.p_memsz
      /\ p.p_paddr \in Nat /\ p.p_filesz \in Nat /\ p.p_memsz \in Nat /\ p.p_offset \in Nat
  BY <1>2, <1>3, <1>4 DEF Malformed, Phdrs
<1>6. copied(x, i) \in Nat /\ copied(x, i) <= p.p_filesz
  <2>1. CASE i \in loaded(x)
    BY <1>5, <2>1 DEF copied
  <2>2. CASE i \notin loaded(x) /\ good_at(x, i) /\ p.p_offset < x.size
    <3>1. p.p_offset + p.p_filesz > x.size
      BY <1>1, <1>5, <2>2 DEF loaded, in_file
    <3>2. copied(x, i) = x.size - p.p_offset
      BY <2>2 DEF copied
    <3> HIDE DEF p
    <3> QED
      BY <1>1, <1>5, <2>2, <3>1, <3>2
  <2>3. CASE i \notin loaded(x) /\ ~(good_at(x, i) /\ p.p_offset < x.size)
    BY <1>5, <2>3 DEF copied
  <2> QED
    BY <2>1, <2>2, <2>3
<1>7. /\ 1024 * HIMEM_START <= p.p_paddr
      /\ p.p_paddr + p.p_memsz <= IdentityMapped
      /\ EndKB(Segment(x, i, p.p_memsz)) <= m
      /\ EndKB(Segment(x, i, p.p_memsz)) <= GAP_START
  <2>1. i \in DOMAIN x.phdr /\ Loadable(x.phdr[i])
    BY <1>1, <1>5
  <2>2. Segment(x, i, p.p_memsz) = Area("segment", p.p_paddr, p.p_memsz)
    BY DEF Segment
  <2> QED
    BY <2>1, <2>2 DEF Fits, Area
<1>8. copied(x, i) <= p.p_memsz
  <2> HIDE DEF p
  <2> QED
    BY <1>5, <1>6
<1> QED
  BY <1>1, <1>5, <1>6, <1>7, <1>8

(* Two segments that were reached do not touch. *)
LEMMA SegmentsApart ==
  ASSUME NEW x \in ElfImage, NEW m \in Nat, Fits(x, m),
         NEW i \in reached(x), NEW j \in reached(x)
  PROVE  LET w == Segment(x, i, copied(x, i))
             a == Segment(x, j, x.phdr[j].p_memsz)
         IN  IF w.what = a.what /\ w.at = a.at THEN Inside(w, a) ELSE Apart(w, a)
<1> DEFINE p == x.phdr[i]
           r == x.phdr[j]
           c == copied(x, i)
<1>1. /\ i \in DOMAIN x.phdr /\ Loadable(p)
      /\ p.p_paddr \in Nat /\ p.p_memsz \in Nat /\ 1 <= p.p_memsz
      /\ c \in Nat /\ c <= p.p_memsz
  <2>1. 1 <= p.p_filesz /\ p.p_filesz <= p.p_memsz /\ p.p_filesz \in Nat /\ p.p_memsz \in Nat
    BY ReachedFits
  <2> QED
    BY <2>1, ReachedFits
<1>2. /\ j \in DOMAIN x.phdr /\ Loadable(r)
      /\ r.p_paddr \in Nat /\ r.p_memsz \in Nat /\ 1 <= r.p_memsz
  <2>1. 1 <= r.p_filesz /\ r.p_filesz <= r.p_memsz /\ r.p_filesz \in Nat /\ r.p_memsz \in Nat
    BY ReachedFits
  <2> QED
    BY <2>1, ReachedFits
<1>3. i # j => p.p_paddr + p.p_memsz <= r.p_paddr \/ r.p_paddr + r.p_memsz <= p.p_paddr
  BY <1>1, <1>2 DEF Fits
<1> HIDE DEF p, r, c
<1>4. LET w == Area("segment", p.p_paddr, c)
          a == Area("segment", r.p_paddr, r.p_memsz)
      IN  IF w.what = a.what /\ w.at = a.at THEN Inside(w, a) ELSE Apart(w, a)
  <2>1. CASE i = j
    BY <1>1, <2>1 DEF Area, Inside, p, r, c
  <2>2. CASE i # j
    BY <1>1, <1>2, <1>3, <2>2 DEF Area, Inside, Apart
  <2> QED
    BY <2>1, <2>2
<1> QED
  BY <1>4 DEF p, r, c, Segment

(* The writes of elf::load, regs.h, setup_bootparams and setup_mptable     *)
(* leave each other alone.                                                 *)
LEMMA NoOverwrites ==
  ASSUME NEW x \in ElfImage, NEW m \in Nat, Fits(x, m), NEW n \in 1 .. MAX_CPUS
  PROVE  NothingOverwritten(x, n)
<1> DEFINE Data == {Segment(x, i, copied(x, i)) : i \in reached(x)}
           Memory == {Segment(x, i, x.phdr[i].p_memsz) : i \in reached(x)}
           Good(w, a) == IF w.what = a.what /\ w.at = a.at THEN Inside(w, a) ELSE Apart(w, a)
<1>1. writes(x, n) = Data \union FixedWrites(n) /\ relied_on(x) = Memory \union Fixed
  BY DEF writes, relied_on, FixedWrites, Fixed
<1>2. ASSUME NEW w \in FixedWrites(n), NEW a \in Fixed PROVE Good(w, a)
  BY FixedApart
<1>3. ASSUME NEW w \in Data, NEW a \in Memory PROVE Good(w, a)
  <2>1. PICK i \in reached(x) : w = Segment(x, i, copied(x, i))
    OBVIOUS
  <2>2. PICK j \in reached(x) : a = Segment(x, j, x.phdr[j].p_memsz)
    OBVIOUS
  <2> QED
    BY <2>1, <2>2, SegmentsApart
<1>4. ASSUME NEW s \in Data \union Memory
      PROVE  /\ s.what = "segment" /\ s.at \in Nat /\ s.size \in Nat
             /\ 1024 * HIMEM_START <= s.at
  <2>1. PICK i \in reached(x) : s \in {Segment(x, i, copied(x, i)), Segment(x, i, x.phdr[i].p_memsz)}
    OBVIOUS
  <2>2. /\ x.phdr[i].p_paddr \in Nat /\ copied(x, i) \in Nat /\ x.phdr[i].p_memsz \in Nat
        /\ 1024 * HIMEM_START <= x.phdr[i].p_paddr
    BY ReachedFits
  <2> QED
    BY <2>1, <2>2 DEF Segment, Area
<1>5. ASSUME NEW w \in Data, NEW a \in Fixed PROVE Good(w, a)
  <2>1. w.what = "segment" /\ w.at \in Nat /\ w.size \in Nat /\ 1024 * HIMEM_START <= w.at
    BY <1>4
  <2>2. /\ a.at \in Nat /\ a.size \in Nat /\ a.at + a.size <= 1024 * HIMEM_START
        /\ a.what # "segment"
    BY FixedIsLow
  <2> QED
    BY <2>1, <2>2 DEF Apart, HIMEM_START
<1>6. ASSUME NEW w \in FixedWrites(n), NEW a \in Memory PROVE Good(w, a)
  <2>1. a.what = "segment" /\ a.at \in Nat /\ a.size \in Nat /\ 1024 * HIMEM_START <= a.at
    BY <1>4
  <2>2. /\ w.at \in Nat /\ w.size \in Nat /\ w.at + w.size <= 1024 * HIMEM_START
        /\ w.what # "segment"
    BY FixedIsLow
  <2> QED
    BY <2>1, <2>2 DEF Apart, HIMEM_START
<1> QED
  BY <1>1, <1>2, <1>3, <1>5, <1>6 DEF NothingOverwritten

(* The first slot begins at 0 and holds what Fits and layout.h ask for. *)
LEMMA InMemory ==
  ASSUME NEW m, SizeAccepted(m), ReachesHimem(m), NEW x \in ElfImage, Fits(x, m), NEW n \in 1 .. MAX_CPUS
  PROVE  AllInMemory(x, m)
<1> DEFINE Memory == {Segment(x, i, x.phdr[i].p_memsz) : i \in reached(x)}
<1>1. m \in Nat /\ HIMEM_START < m
  BY DEF SizeAccepted, ReachesHimem, HIMEM_START
<1>2. PICK s \in slots(m) : s.guest = 0 /\ s.size \in {m, GAP_START} /\ HIMEM_START < s.size
  <2>1. CASE memory_size(m) < GAP_START
    <3> DEFINE one == [guest |-> 0, size |-> m, host |-> 0]
    <3>1. memory_size(m) = m
      BY <1>1, <2>1 DEF memory_size, GAP_START, MAX_32BIT, GAP_SIZE
    <3>2. one \in slots(m)
      BY <2>1, <3>1 DEF slots
    <3> QED
      BY <1>1, <3>2
  <2>2. CASE ~(memory_size(m) < GAP_START)
    <3> DEFINE one == [guest |-> 0, size |-> GAP_START, host |-> 0]
    <3>1. one \in slots(m)
      BY <2>2 DEF slots
    <3>2. HIMEM_START < GAP_START
      BY DEF GAP_START, MAX_32BIT, GAP_SIZE, HIMEM_START
    <3> QED
      BY <3>1, <3>2
  <2> QED
    BY <2>1, <2>2
<1>3. ASSUME NEW a \in Fixed
      PROVE  EndKB(a) <= s.size /\ a.at + a.size <= IdentityMapped
  <2>1. a.at \in Nat /\ a.size \in Nat /\ a.at + a.size <= 1024 * HIMEM_START
    BY FixedIsLow
  <2>2. EndKB(a) <= HIMEM_START
    BY <2>1 DEF EndKB, HIMEM_START
  <2>3. EndKB(a) \in Nat /\ s.size \in Nat
    BY <1>1, <1>2, <2>1 DEF EndKB, GAP_START, MAX_32BIT, GAP_SIZE
  <2> QED
    BY <1>2, <2>1, <2>2, <2>3 DEF IdentityMapped, HIMEM_START
<1>4. ASSUME NEW i \in reached(x)
      PROVE  LET a == Segment(x, i, x.phdr[i].p_memsz)
             IN  EndKB(a) <= s.size /\ a.at + a.size <= IdentityMapped
  BY <1>1, <1>2, ReachedFits DEF Segment, Area
<1> QED
  BY <1>2, <1>3, <1>4 DEF AllInMemory, relied_on, Fixed

(* The table starts where the first range of e820 ends. *)
LEMMA MpTableIsUsable ==
  ASSUME NEW m, SizeAccepted(m), ReachesHimem(m), NEW n \in 1 .. MAX_CPUS
  PROVE  MpTableUsable(n, m)
<1>1. mptable_size(n) \in Nat /\ 1 <= mptable_size(n) /\ mptable_size(n) <= 1024
  BY MpTableFits
<1> DEFINE k == mptable_size(n)
<1>2. (MPTABLE_START + k - 1) \div 1024 = 639 /\ MPTABLE_START \div 1024 = 639
  <2>1. k \in Nat /\ 1 <= k /\ k <= 1024
    BY <1>1
  <2> HIDE DEF k
  <2> QED
    BY ONLY <2>1 DEF MPTABLE_START
<1>3. ASSUME NEW r \in e820_table(m)
      PROVE  \/ 639 < r.addr
             \/ r.addr + r.size <= 639
  BY DEF e820_table, EBDA_START, HIMEM_START, MAX_32BIT
<1>4. ioapicid(n) \notin {c.apicid : c \in mpc_cpus(n)}
  BY DEF ioapicid, mpc_cpus, MAX_CPUS
<1>5. {c.apicid : c \in {d \in mpc_cpus(n) : d.cpuflag = "CPU_BOOTPROCESSOR"}} = {0}
  <2>1. [apicid |-> 0, cpuflag |-> "CPU_BOOTPROCESSOR"] \in mpc_cpus(n)
    BY DEF mpc_cpus, gen_cpu_flag, MAX_CPUS
  <2>2. ASSUME NEW d \in mpc_cpus(n), d.cpuflag = "CPU_BOOTPROCESSOR" PROVE d.apicid = 0
    BY <2>2 DEF mpc_cpus, gen_cpu_flag
  <2> QED
    BY <2>1, <2>2
<1>6. ASSUME NEW r \in e820_table(m)
      PROVE  \/ (MPTABLE_START + mptable_size(n) - 1) \div 1024 < r.addr
             \/ r.addr + r.size <= MPTABLE_START \div 1024
  BY <1>2, <1>3
<1> QED
  BY <1>4, <1>5, <1>6 DEF MpTableUsable

(* elf::load returns the entry only when no header it read was malformed;  *)
(* of a complete file it has read them all, and the stream never failed.   *)
LEMMA CompleteIsLoaded ==
  ASSUME NEW x \in ElfImage, Complete(x), load_entry(x) # EINVAL,
         NEW i \in DOMAIN x.phdr, Loadable(x.phdr[i])
  PROVE  i \in loaded(x)
<1>1. /\ x.size \in Nat /\ x.phoff \in Nat
      /\ DOMAIN x.phdr = 1 .. Len(x.phdr) /\ Len(x.phdr) \in Nat
  BY DEF ElfImage
<1>2. e_phnum(x) = Len(x.phdr)
  BY <1>1 DEF Complete, e_phnum, EHDR_SIZE
<1>3. malformed(x) = {}
  BY DEF load_entry
<1>4. phdr_end(x, Len(x.phdr)) <= x.size
  BY DEF Complete
<1>5. phdr_end(x, i) <= x.size
  BY <1>1, <1>4 DEF phdr_end, PHDR_SIZE
<1>6. header(x, i) = x.phdr[i]
  <2>1. phdr_end(x, i) \in Nat
    BY <1>1 DEF phdr_end, PHDR_SIZE
  <2>2. phdr_end(x, i) <= x.size + 8
    BY <1>1, <1>5, <2>1
  <2> QED
    BY <2>2 DEF header
<1>7. i \in reached(x)
  BY <1>1, <1>2, <1>3, <1>6 DEF reached
<1>8. ASSUME NEW j \in reached(x) PROVE in_file(x, j)
  <2>1. j \in DOMAIN x.phdr /\ Loadable(header(x, j))
    BY <1>1, <1>2 DEF reached
  <2>2. Loadable(x.phdr[j])
    <3>1. phdr_end(x, j) \in Nat /\ phdr_end(x, j) <= x.size
      BY <1>1, <1>4, <2>1 DEF phdr_end, PHDR_SIZE
    <3>2. phdr_end(x, j) <= x.size + 8
      BY <1>1, <3>1
    <3> QED
      BY <2>1, <3>2 DEF header
  <2> QED
    BY <2>1, <2>2 DEF Complete
<1>9. good_at(x, i)
  BY <1>2, <1>4, <1>8 DEF good_at
<1> QED
  BY <1>7, <1>8, <1>9 DEF loaded

LEMMA KernelIsWhole ==
  ASSUME NEW x \in ElfImage
  PROVE  KernelWhole(x)
<1>1. ASSUME Complete(x), load_entry(x) # EINVAL,
             NEW i \in DOMAIN x.phdr, Loadable(x.phdr[i])
      PROVE  i \in loaded(x)
  BY <1>1, CompleteIsLoaded
<1>2. ASSUME NEW i \in reached(x), NEW j \in reached(x), i < j, copied(x, j) > 0
      PROVE  i \in loaded(x)
  <2>1. good_at(x, j)
    <3>1. j \in loaded(x) => good_at(x, j)
      BY DEF loaded
    <3>2. ~good_at(x, j) => copied(x, j) = 0
      BY <3>1 DEF copied
    <3> QED
      BY <1>2, <3>2
  <2>2. i \in 1 .. e_phnum(x) /\ j \in 1 .. e_phnum(x) /\ e_phnum(x) \in Nat
    BY DEF reached, e_phnum, ElfImage
  <2>3. \A k \in reached(x) : k < i => k < j
    BY <1>2, <2>2 DEF reached
  <2>4. good_at(x, i)
    BY <2>1, <2>3 DEF good_at
  <2>5. in_file(x, i)
    BY <1>2, <2>1 DEF good_at
  <2> QED
    BY <2>4, <2>5 DEF loaded
<1> QED
  BY <1>1, <1>2 DEF KernelWhole

(* start() hands the boot vCPU a memory in which nothing has been          *)
(* overwritten, whatever image that Fits, whatever size of memory, and     *)
(* which holds all of a kernel whose file is complete (elf.h:29, 44).      *)
THEOREM ImageStaysWhole == Spec => []ImageIsWhole
<1> DEFINE Inv == mem \in Sizes /\ image \in Images /\ Fits(image, mem)
<1>1. Init => Inv
  BY DEF Init
<1>2. Inv /\ [Next]_vars => Inv'
  <2> SUFFICES ASSUME Inv, [Next]_vars PROVE mem' = mem /\ image' = image
    OBVIOUS
  <2> QED
    BY DEF Next, vars, Main, Test, LeaveGuest, Interrupted, Handle, Typed, Iterate, Goto
<1>3. Inv => ImageIsWhole
  <2> SUFFICES ASSUME Inv PROVE ImageWhole(image, CPU_COUNT, mem)
    BY DEF ImageIsWhole
  <2>1. SizeAccepted(mem) /\ ReachesHimem(mem) /\ image \in ElfImage /\ CPU_COUNT \in 1 .. MAX_CPUS /\ mem \in Nat
    BY VmmConstants DEF VmmConstants, SizeAccepted
  <2>2. NothingOverwritten(image, CPU_COUNT)
    BY <2>1, NoOverwrites
  <2>3. AllInMemory(image, mem)
    BY <2>1, InMemory
  <2>4. MpTableUsable(CPU_COUNT, mem) /\ KernelWhole(image)
    BY <2>1, MpTableIsUsable, KernelIsWhole
  <2> QED
    BY <2>2, <2>3, <2>4 DEF ImageWhole
<1> QED
  BY <1>1, <1>2, <1>3, PTL DEF Spec

-----------------------------------------------------------------------------
(* The devices                                                             *)

(* The windows begin where the first slot may end at the latest.  *)
LEMMA AllWindowsTrap ==
  ASSUME NEW m, SizeAccepted(m), ReachesHimem(m)
  PROVE  WindowsTrap(m)
<1> USE DEF MAX_32BIT, GAP_SIZE, GAP_START, Device
<1>1. GapIsFree(m)
  BY AcceptedIsBacked DEF Backed
<1>2. ASSUME NEW s \in slots(m) PROVE s.guest \in Nat /\ s.size \in Nat
  BY DEF slots, memory_size, SizeAccepted
<1>3. ASSUME NEW i \in DOMAIN mmio_devices
      PROVE  LET dev == mmio_devices[i]
             IN  /\ dev.addr \in Nat /\ dev.width \in Nat
                 /\ GAP_START <= dev.addr /\ dev.addr + dev.width <= GAP_START + 12
  BY DEF mmio_devices
<1>4. ASSUME NEW w \in kvm_windows PROVE w.addr \in Nat /\ w.width \in Nat /\ GAP_START + 12 <= w.addr
  BY DEF kvm_windows
<1> QED
  BY <1>1, <1>2, <1>3, <1>4 DEF WindowsTrap, GapIsFree

(* No two windows of a bus overlap, so that the first one in range is the  *)
(* only one.                                                               *)
LEMMA EveryAccessArrives == AccessesArrive
<1> USE DEF Device
<1>1. ASSUME NEW dev \in PC_devices, NEW p \in Ports(dev)
      PROVE  answers(io_devices, p) = {[name |-> dev.name, at |-> p - dev.addr]}
  <2>1. p \in Nat /\ dev.addr <= p /\ p < dev.addr + dev.width
    BY DEF PC_devices, Ports
  <2>2. DOMAIN io_devices = 1 .. 5
    BY DEF io_devices
  <2>3. PICK i \in 1 .. 5 : io_devices[i] = dev
    BY DEF io_devices, PC_devices
  <2>4. \A j \in 1 .. 5 : in_range(io_devices[j], p) <=> j = i
    BY <2>1, <2>3 DEF in_range, io_devices
  <2> QED
    BY <2>2, <2>3, <2>4 DEF answers, offset
<1>2. ASSUME NEW dev \in cmdline_devices, NEW p \in Ports(dev)
      PROVE  answers(mmio_devices, p) = {[name |-> dev.name, at |-> p - dev.addr]}
  <2>1. p \in Nat /\ dev.addr <= p /\ p < dev.addr + dev.width
    BY DEF cmdline_devices, Ports
  <2>2. DOMAIN mmio_devices = 1 .. 3
    BY DEF mmio_devices
  <2>3. PICK i \in 1 .. 3 : mmio_devices[i] = dev
    BY DEF mmio_devices, cmdline_devices
  <2>4. \A j \in 1 .. 3 : in_range(mmio_devices[j], p) <=> j = i
    BY <2>1, <2>3 DEF in_range, mmio_devices
  <2> QED
    BY <2>2, <2>3, <2>4 DEF answers, offset
<1> QED
  BY <1>1, <1>2 DEF AccessesArrive

(* The GSIs of the devices have pins of their own. *)
LEMMA EveryInterruptArrives == InterruptsArrive
<1> USE DEF Device, Route
<1>1. ASSUME NEW dev \in PC_devices \union cmdline_devices
      PROVE  \E pic \in {"master", "slave"} : \A chip \in {pic, "ioapic"} :
               \E r \in routing :
                 /\ r.gsi = dev.irq /\ r.irqchip = chip
                 /\ \A x \in routing : x.irqchip = chip /\ x.pin = r.pin => x = r
  <2>1. dev.irq \in {1, 3, 4, 12, 13, 14}
    BY DEF PC_devices, cmdline_devices
  <2> DEFINE io == Route(dev.irq, "ioapic", dev.irq)
  <2>2. io \in routing /\ \A x \in routing : x.irqchip = "ioapic" /\ x.pin = io.pin => x = io
    BY <2>1 DEF routing
  <2>3. CASE dev.irq < 8
    <3> DEFINE r == Route(dev.irq, "master", dev.irq)
    <3>1. r \in routing /\ \A x \in routing : x.irqchip = "master" /\ x.pin = r.pin => x = r
      BY <2>1, <2>3 DEF routing
    <3> QED
      BY <2>2, <3>1
  <2>4. CASE dev.irq >= 8
    <3> DEFINE r == Route(dev.irq, "slave", dev.irq - 8)
    <3>1. r \in routing /\ \A x \in routing : x.irqchip = "slave" /\ x.pin = r.pin => x = r
      BY <2>1, <2>4 DEF routing
    <3> QED
      BY <2>2, <3>1
  <2> QED
    BY <2>1, <2>3, <2>4
<1>2. \A d, e \in PC_devices \union cmdline_devices :
        d \in cmdline_devices /\ register_irq(d) = register_irq(e) => d = e
  BY DEF PC_devices, cmdline_devices, register_irq
<1> QED
  BY <1>1, <1>2 DEF InterruptsArrive

(* The kernel's accesses arrive at the devices and the devices' interrupts *)
(* at the kernel, whatever the size of the memory beside the windows.      *)
THEOREM DevicesStayWired == Spec => []DevicesAreWired
<1> DEFINE Inv == mem \in Sizes
<1>1. Init => Inv
  BY DEF Init
<1>2. Inv /\ [Next]_vars => Inv'
  BY DEF Next, vars, Main, Test, LeaveGuest, Interrupted, Handle, Typed, Iterate, Goto
<1>3. Inv => DevicesAreWired
  BY VmmConstants, AllWindowsTrap, EveryAccessArrives, EveryInterruptArrives
  DEF VmmConstants, DevicesAreWired, DevicesWired
<1> QED
  BY <1>1, <1>2, <1>3, PTL DEF Spec

-----------------------------------------------------------------------------
(* The life of the program.  First what the main thread does, step by step *)
(* and in which order, then what that makes of the threads.                *)

Item ==
  [op : {"create", "start", "stop", "join", "destroy"},
   of : SUBSET (Parts \union VCpus \union {"vm", "terminal", "net", "blk", "tx", "rx"})]

LEMMA ItemKinds ==
  /\ \A p \in Parts : Create(p) \in Item /\ Destroy(p) \in Item
  /\ \A t \in {"terminal", "blk", "tx", "rx"} : Start({t}) \in Item /\ Join({t}) \in Item
  /\ \A f \in {"vm", "terminal", "net", "blk"} : Stop(f) \in Item
  /\ Start({boot}) \in Item /\ Start(VCpus \ {boot}) \in Item
  /\ Join({boot}) \in Item /\ Join(VCpus \ {boot}) \in Item
  BY VmmConstants DEF VmmConstants, Item, Create, Start, Stop, Join, Destroy, Parts

(* The length and the items of s; s and then t; and where their items are in it. *)
Size(s) == Len(s)
At(s, i) == s[i]
Then(s, t) == s \o t

LEMMA Placed ==
  ASSUME NEW s, NEW t, s \in Seq(Item), t \in Seq(Item)
  PROVE  /\ Then(s, t) \in Seq(Item) /\ Size(Then(s, t)) = Size(s) + Size(t)
         /\ \A i \in 1 .. Size(s) : At(Then(s, t), i) = At(s, i)
         /\ \A i \in 1 .. Size(t) : At(Then(s, t), Size(s) + i) = At(t, i)
<1>1. /\ s \o t \in Seq(Item) /\ Len(s \o t) = Len(s) + Len(t)
      /\ \A i \in 1 .. Len(s) + Len(t) : (s \o t)[i] = IF i <= Len(s) THEN s[i] ELSE t[i - Len(s)]
  BY ConcatProperties
<1> DEFINE u == s \o t
<1> HIDE DEF u
<1>2. /\ u \in Seq(Item) /\ Len(u) = Len(s) + Len(t)
      /\ \A i \in 1 .. Len(s) + Len(t) : u[i] = IF i <= Len(s) THEN s[i] ELSE t[i - Len(s)]
  BY <1>1 DEF u
<1>3. Len(s) \in Nat /\ Len(t) \in Nat
  BY LenProperties
<1>4. ASSUME NEW i \in 1 .. Len(t) PROVE u[Len(s) + i] = t[i]
  BY <1>2, <1>3
<1>5. ASSUME NEW i \in 1 .. Len(s) PROVE u[i] = s[i]
  BY <1>2, <1>3
<1>6. Then(s, t) = u
  BY DEF Then, u
<1> QED
  BY <1>2, <1>4, <1>5, <1>6 DEF Size, At

(* The parts of Script. *)
LEMMA RawItems ==
  /\ Raw \in Seq(Item) /\ Size(Raw) = 1 /\ At(Raw, 1) = Create("term")
  BY ItemKinds DEF Raw, Parts, Size, At

LEMMA BuildingItems ==
  /\ Building \in Seq(Item) /\ Size(Building) = 4 /\ At(Building, 1) = Create("interrupts")
  /\ At(Building, 2) = Create("memory") /\ At(Building, 3) = Create("cpus")
  /\ At(Building, 4) = Create("io_devices")
  BY ItemKinds DEF Building, Parts, Size, At

LEMMA StartingItems ==
  /\ Starting \in Seq(Item) /\ Size(Starting) = 9 /\ At(Starting, 1) = Create("blk")
  /\ At(Starting, 2) = Start({"blk"}) /\ At(Starting, 3) = Create("rng")
  /\ At(Starting, 4) = Create("net") /\ At(Starting, 5) = Start({"tx"})
  /\ At(Starting, 6) = Start({"rx"}) /\ At(Starting, 7) = Start({boot})
  /\ At(Starting, 8) = Start(VCpus \ {boot}) /\ At(Starting, 9) = Start({"terminal"})
  BY ItemKinds DEF Starting, Parts, Size, At

LEMMA StoppingItems ==
  /\ Stopping \in Seq(Item) /\ Size(Stopping) = 5 /\ At(Stopping, 1) = Join({boot})
  /\ At(Stopping, 2) = Stop("vm") /\ At(Stopping, 3) = Join(VCpus \ {boot})
  /\ At(Stopping, 4) = Stop("terminal") /\ At(Stopping, 5) = Join({"terminal"})
  BY ItemKinds DEF Stopping, Parts, Size, At

LEMMA DeleteBlkItems ==
  /\ DeleteBlk \in Seq(Item) /\ Size(DeleteBlk) = 3 /\ At(DeleteBlk, 1) = Stop("blk")
  /\ At(DeleteBlk, 2) = Join({"blk"}) /\ At(DeleteBlk, 3) = Destroy("blk")
  BY ItemKinds DEF DeleteBlk, Parts, Size, At

LEMMA DeleteNetItems ==
  /\ DeleteNet \in Seq(Item) /\ Size(DeleteNet) = 4 /\ At(DeleteNet, 1) = Stop("net")
  /\ At(DeleteNet, 2) = Join({"tx"}) /\ At(DeleteNet, 3) = Join({"rx"})
  /\ At(DeleteNet, 4) = Destroy("net")
  BY ItemKinds DEF DeleteNet, Parts, Size, At

LEMMA RestoredItems ==
  /\ Restored \in Seq(Item) /\ Size(Restored) = 1 /\ At(Restored, 1) = Destroy("term")
  BY ItemKinds DEF Restored, Parts, Size, At

LEMMA DestructorItems ==
  /\ Destructor \in Seq(Item) /\ Size(Destructor) = 13 /\ At(Destructor, 1) = Stop("vm")
  /\ At(Destructor, 2) = Stop("blk") /\ At(Destructor, 3) = Join({"blk"})
  /\ At(Destructor, 4) = Destroy("blk") /\ At(Destructor, 5) = Destroy("rng")
  /\ At(Destructor, 6) = Stop("net") /\ At(Destructor, 7) = Join({"tx"})
  /\ At(Destructor, 8) = Join({"rx"}) /\ At(Destructor, 9) = Destroy("net")
  /\ At(Destructor, 10) = Destroy("memory") /\ At(Destructor, 11) = Destroy("io_devices")
  /\ At(Destructor, 12) = Destroy("cpus") /\ At(Destructor, 13) = Destroy("interrupts")
<1> DEFINE first == <<Stop("vm")>>
           rng == <<Destroy("rng")>>
           members == <<Destroy("memory"), Destroy("io_devices"), Destroy("cpus"), Destroy("interrupts")>>
           a == Then(first, DeleteBlk)
           b == Then(a, rng)
           c == Then(b, DeleteNet)
           d == Then(c, members)
<1>1. /\ first \in Seq(Item) /\ Size(first) = 1 /\ At(first, 1) = Stop("vm")
  BY ItemKinds DEF Size, At
<1>2. /\ rng \in Seq(Item) /\ Size(rng) = 1 /\ At(rng, 1) = Destroy("rng")
  BY ItemKinds DEF Parts, Size, At
<1>3. /\ members \in Seq(Item) /\ Size(members) = 4 /\ At(members, 1) = Destroy("memory")
      /\ At(members, 2) = Destroy("io_devices") /\ At(members, 3) = Destroy("cpus")
      /\ At(members, 4) = Destroy("interrupts")
  BY ItemKinds DEF Parts, Size, At
<1>4. Destructor = d
  BY DEF Destructor, Then
<1> HIDE DEF first, rng, members
<1>5. /\ a \in Seq(Item) /\ Size(a) = 4 /\ At(a, 1) = Stop("vm") /\ At(a, 2) = Stop("blk")
      /\ At(a, 3) = Join({"blk"}) /\ At(a, 4) = Destroy("blk")
  <2>1. /\ a \in Seq(Item) /\ Size(a) = 4
        /\ \A i \in 1 .. 1 : At(a, i) = At(first, i)
        /\ \A i \in 1 .. 3 : At(a, 1 + i) = At(DeleteBlk, i)
    <3>0. first \in Seq(Item) /\ DeleteBlk \in Seq(Item)
      BY <1>1, DeleteBlkItems
    <3>1. Size(first) = 1 /\ Size(DeleteBlk) = 3
      BY <1>1, DeleteBlkItems
    <3>2. /\ a \in Seq(Item) /\ Size(a) = Size(first) + Size(DeleteBlk)
          /\ \A i \in 1 .. Size(first) : At(a, i) = At(first, i)
          /\ \A i \in 1 .. Size(DeleteBlk) : At(a, Size(first) + i) = At(DeleteBlk, i)
      BY ONLY <3>0, Placed
    <3>3. a \in Seq(Item) /\ Size(a) = 4
      BY ONLY <3>1, <3>2
    <3>4. \A i \in 1 .. 1 : At(a, i) = At(first, i)
      BY ONLY <3>1, <3>2
    <3>5. \A i \in 1 .. 3 : At(a, 1 + i) = At(DeleteBlk, i)
      BY ONLY <3>1, <3>2
    <3> QED
      BY ONLY <3>3, <3>4, <3>5
  <2> HIDE DEF a
  <2> QED
    BY <1>1, DeleteBlkItems, <2>1
<1> HIDE DEF a
<1>6. /\ b \in Seq(Item) /\ Size(b) = 5 /\ At(b, 1) = Stop("vm") /\ At(b, 2) = Stop("blk")
      /\ At(b, 3) = Join({"blk"}) /\ At(b, 4) = Destroy("blk") /\ At(b, 5) = Destroy("rng")
  <2>1. /\ b \in Seq(Item) /\ Size(b) = 5
        /\ \A i \in 1 .. 4 : At(b, i) = At(a, i)
        /\ \A i \in 1 .. 1 : At(b, 4 + i) = At(rng, i)
    <3>0. a \in Seq(Item) /\ rng \in Seq(Item)
      BY <1>2, <1>5
    <3>1. Size(a) = 4 /\ Size(rng) = 1
      BY <1>2, <1>5
    <3>2. /\ b \in Seq(Item) /\ Size(b) = Size(a) + Size(rng)
          /\ \A i \in 1 .. Size(a) : At(b, i) = At(a, i)
          /\ \A i \in 1 .. Size(rng) : At(b, Size(a) + i) = At(rng, i)
      BY ONLY <3>0, Placed
    <3>3. b \in Seq(Item) /\ Size(b) = 5
      BY ONLY <3>1, <3>2
    <3>4. \A i \in 1 .. 4 : At(b, i) = At(a, i)
      BY ONLY <3>1, <3>2
    <3>5. \A i \in 1 .. 1 : At(b, 4 + i) = At(rng, i)
      BY ONLY <3>1, <3>2
    <3> QED
      BY ONLY <3>3, <3>4, <3>5
  <2> HIDE DEF b
  <2> QED
    BY <1>2, <1>5, <2>1
<1> HIDE DEF b
<1>7. /\ c \in Seq(Item) /\ Size(c) = 9 /\ At(c, 1) = Stop("vm") /\ At(c, 2) = Stop("blk")
      /\ At(c, 3) = Join({"blk"}) /\ At(c, 4) = Destroy("blk") /\ At(c, 5) = Destroy("rng")
      /\ At(c, 6) = Stop("net") /\ At(c, 7) = Join({"tx"}) /\ At(c, 8) = Join({"rx"})
      /\ At(c, 9) = Destroy("net")
  <2>1. /\ c \in Seq(Item) /\ Size(c) = 9
        /\ \A i \in 1 .. 5 : At(c, i) = At(b, i)
        /\ \A i \in 1 .. 4 : At(c, 5 + i) = At(DeleteNet, i)
    <3>0. b \in Seq(Item) /\ DeleteNet \in Seq(Item)
      BY <1>6, DeleteNetItems
    <3>1. Size(b) = 5 /\ Size(DeleteNet) = 4
      BY <1>6, DeleteNetItems
    <3>2. /\ c \in Seq(Item) /\ Size(c) = Size(b) + Size(DeleteNet)
          /\ \A i \in 1 .. Size(b) : At(c, i) = At(b, i)
          /\ \A i \in 1 .. Size(DeleteNet) : At(c, Size(b) + i) = At(DeleteNet, i)
      BY ONLY <3>0, Placed
    <3>3. c \in Seq(Item) /\ Size(c) = 9
      BY ONLY <3>1, <3>2
    <3>4. \A i \in 1 .. 5 : At(c, i) = At(b, i)
      BY ONLY <3>1, <3>2
    <3>5. \A i \in 1 .. 4 : At(c, 5 + i) = At(DeleteNet, i)
      BY ONLY <3>1, <3>2
    <3> QED
      BY ONLY <3>3, <3>4, <3>5
  <2> HIDE DEF c
  <2> QED
    BY <1>6, DeleteNetItems, <2>1
<1> HIDE DEF c
<1>8. /\ d \in Seq(Item) /\ Size(d) = 13 /\ At(d, 1) = Stop("vm") /\ At(d, 2) = Stop("blk")
      /\ At(d, 3) = Join({"blk"}) /\ At(d, 4) = Destroy("blk") /\ At(d, 5) = Destroy("rng")
      /\ At(d, 6) = Stop("net") /\ At(d, 7) = Join({"tx"}) /\ At(d, 8) = Join({"rx"})
      /\ At(d, 9) = Destroy("net") /\ At(d, 10) = Destroy("memory")
      /\ At(d, 11) = Destroy("io_devices") /\ At(d, 12) = Destroy("cpus")
      /\ At(d, 13) = Destroy("interrupts")
  <2>1. /\ d \in Seq(Item) /\ Size(d) = 13
        /\ \A i \in 1 .. 9 : At(d, i) = At(c, i)
        /\ \A i \in 1 .. 4 : At(d, 9 + i) = At(members, i)
    <3>0. c \in Seq(Item) /\ members \in Seq(Item)
      BY <1>3, <1>7
    <3>1. Size(c) = 9 /\ Size(members) = 4
      BY <1>3, <1>7
    <3>2. /\ d \in Seq(Item) /\ Size(d) = Size(c) + Size(members)
          /\ \A i \in 1 .. Size(c) : At(d, i) = At(c, i)
          /\ \A i \in 1 .. Size(members) : At(d, Size(c) + i) = At(members, i)
      BY ONLY <3>0, Placed
    <3>3. d \in Seq(Item) /\ Size(d) = 13
      BY ONLY <3>1, <3>2
    <3>4. \A i \in 1 .. 9 : At(d, i) = At(c, i)
      BY ONLY <3>1, <3>2
    <3>5. \A i \in 1 .. 4 : At(d, 9 + i) = At(members, i)
      BY ONLY <3>1, <3>2
    <3> QED
      BY ONLY <3>3, <3>4, <3>5
  <2> HIDE DEF d
  <2> QED
    BY <1>3, <1>7, <2>1
<1> QED
  BY <1>4, <1>8

LEMMA Steps ==
  /\ Len(Script) = 33
  /\ Script[1] = Create("term") /\ Script[2] = Create("interrupts")
  /\ Script[3] = Create("memory") /\ Script[4] = Create("cpus")
  /\ Script[5] = Create("io_devices") /\ Script[6] = Create("blk")
  /\ Script[7] = Start({"blk"}) /\ Script[8] = Create("rng") /\ Script[9] = Create("net")
  /\ Script[10] = Start({"tx"}) /\ Script[11] = Start({"rx"}) /\ Script[12] = Start({boot})
  /\ Script[13] = Start(VCpus \ {boot}) /\ Script[14] = Start({"terminal"})
  /\ Script[15] = Join({boot}) /\ Script[16] = Stop("vm") /\ Script[17] = Join(VCpus \ {boot})
  /\ Script[18] = Stop("terminal") /\ Script[19] = Join({"terminal"})
  /\ Script[20] = Stop("vm") /\ Script[21] = Stop("blk") /\ Script[22] = Join({"blk"})
  /\ Script[23] = Destroy("blk") /\ Script[24] = Destroy("rng") /\ Script[25] = Stop("net")
  /\ Script[26] = Join({"tx"}) /\ Script[27] = Join({"rx"}) /\ Script[28] = Destroy("net")
  /\ Script[29] = Destroy("memory") /\ Script[30] = Destroy("io_devices")
  /\ Script[31] = Destroy("cpus") /\ Script[32] = Destroy("interrupts")
  /\ Script[33] = Destroy("term")
<1> DEFINE a == Then(Raw, Building)
           b == Then(a, Starting)
           c == Then(b, Stopping)
           d == Then(c, Destructor)
           e == Then(d, Restored)
<1>1. Script = e
  BY DEF Script, Then
<1>2. /\ a \in Seq(Item) /\ Size(a) = 5 /\ At(a, 1) = Create("term")
      /\ At(a, 2) = Create("interrupts") /\ At(a, 3) = Create("memory")
      /\ At(a, 4) = Create("cpus") /\ At(a, 5) = Create("io_devices")
  <2>1. /\ a \in Seq(Item) /\ Size(a) = 5
        /\ \A i \in 1 .. 1 : At(a, i) = At(Raw, i)
        /\ \A i \in 1 .. 4 : At(a, 1 + i) = At(Building, i)
    <3>0. Raw \in Seq(Item) /\ Building \in Seq(Item)
      BY RawItems, BuildingItems
    <3>1. Size(Raw) = 1 /\ Size(Building) = 4
      BY RawItems, BuildingItems
    <3>2. /\ a \in Seq(Item) /\ Size(a) = Size(Raw) + Size(Building)
          /\ \A i \in 1 .. Size(Raw) : At(a, i) = At(Raw, i)
          /\ \A i \in 1 .. Size(Building) : At(a, Size(Raw) + i) = At(Building, i)
      BY ONLY <3>0, Placed
    <3>3. a \in Seq(Item) /\ Size(a) = 5
      BY ONLY <3>1, <3>2
    <3>4. \A i \in 1 .. 1 : At(a, i) = At(Raw, i)
      BY ONLY <3>1, <3>2
    <3>5. \A i \in 1 .. 4 : At(a, 1 + i) = At(Building, i)
      BY ONLY <3>1, <3>2
    <3> QED
      BY ONLY <3>3, <3>4, <3>5
  <2> HIDE DEF a
  <2> QED
    BY RawItems, BuildingItems, <2>1
<1> HIDE DEF a
<1>3. /\ b \in Seq(Item) /\ Size(b) = 14 /\ At(b, 1) = Create("term")
      /\ At(b, 2) = Create("interrupts") /\ At(b, 3) = Create("memory")
      /\ At(b, 4) = Create("cpus") /\ At(b, 5) = Create("io_devices")
      /\ At(b, 6) = Create("blk") /\ At(b, 7) = Start({"blk"}) /\ At(b, 8) = Create("rng")
      /\ At(b, 9) = Create("net") /\ At(b, 10) = Start({"tx"}) /\ At(b, 11) = Start({"rx"})
      /\ At(b, 12) = Start({boot}) /\ At(b, 13) = Start(VCpus \ {boot})
      /\ At(b, 14) = Start({"terminal"})
  <2>1. /\ b \in Seq(Item) /\ Size(b) = 14
        /\ \A i \in 1 .. 5 : At(b, i) = At(a, i)
        /\ \A i \in 1 .. 9 : At(b, 5 + i) = At(Starting, i)
    <3>0. a \in Seq(Item) /\ Starting \in Seq(Item)
      BY <1>2, StartingItems
    <3>1. Size(a) = 5 /\ Size(Starting) = 9
      BY <1>2, StartingItems
    <3>2. /\ b \in Seq(Item) /\ Size(b) = Size(a) + Size(Starting)
          /\ \A i \in 1 .. Size(a) : At(b, i) = At(a, i)
          /\ \A i \in 1 .. Size(Starting) : At(b, Size(a) + i) = At(Starting, i)
      BY ONLY <3>0, Placed
    <3>3. b \in Seq(Item) /\ Size(b) = 14
      BY ONLY <3>1, <3>2
    <3>4. \A i \in 1 .. 5 : At(b, i) = At(a, i)
      BY ONLY <3>1, <3>2
    <3>5. \A i \in 1 .. 9 : At(b, 5 + i) = At(Starting, i)
      BY ONLY <3>1, <3>2
    <3> QED
      BY ONLY <3>3, <3>4, <3>5
  <2> HIDE DEF b
  <2> QED
    BY <1>2, StartingItems, <2>1
<1> HIDE DEF b
<1>4. /\ c \in Seq(Item) /\ Size(c) = 19 /\ At(c, 1) = Create("term")
      /\ At(c, 2) = Create("interrupts") /\ At(c, 3) = Create("memory")
      /\ At(c, 4) = Create("cpus") /\ At(c, 5) = Create("io_devices")
      /\ At(c, 6) = Create("blk") /\ At(c, 7) = Start({"blk"}) /\ At(c, 8) = Create("rng")
      /\ At(c, 9) = Create("net") /\ At(c, 10) = Start({"tx"}) /\ At(c, 11) = Start({"rx"})
      /\ At(c, 12) = Start({boot}) /\ At(c, 13) = Start(VCpus \ {boot})
      /\ At(c, 14) = Start({"terminal"}) /\ At(c, 15) = Join({boot}) /\ At(c, 16) = Stop("vm")
      /\ At(c, 17) = Join(VCpus \ {boot}) /\ At(c, 18) = Stop("terminal")
      /\ At(c, 19) = Join({"terminal"})
  <2>1. /\ c \in Seq(Item) /\ Size(c) = 19
        /\ \A i \in 1 .. 14 : At(c, i) = At(b, i)
        /\ \A i \in 1 .. 5 : At(c, 14 + i) = At(Stopping, i)
    <3>0. b \in Seq(Item) /\ Stopping \in Seq(Item)
      BY <1>3, StoppingItems
    <3>1. Size(b) = 14 /\ Size(Stopping) = 5
      BY <1>3, StoppingItems
    <3>2. /\ c \in Seq(Item) /\ Size(c) = Size(b) + Size(Stopping)
          /\ \A i \in 1 .. Size(b) : At(c, i) = At(b, i)
          /\ \A i \in 1 .. Size(Stopping) : At(c, Size(b) + i) = At(Stopping, i)
      BY ONLY <3>0, Placed
    <3>3. c \in Seq(Item) /\ Size(c) = 19
      BY ONLY <3>1, <3>2
    <3>4. \A i \in 1 .. 14 : At(c, i) = At(b, i)
      BY ONLY <3>1, <3>2
    <3>5. \A i \in 1 .. 5 : At(c, 14 + i) = At(Stopping, i)
      BY ONLY <3>1, <3>2
    <3> QED
      BY ONLY <3>3, <3>4, <3>5
  <2> HIDE DEF c
  <2> QED
    BY <1>3, StoppingItems, <2>1
<1> HIDE DEF c
<1>5. /\ d \in Seq(Item) /\ Size(d) = 32 /\ At(d, 1) = Create("term")
      /\ At(d, 2) = Create("interrupts") /\ At(d, 3) = Create("memory")
      /\ At(d, 4) = Create("cpus") /\ At(d, 5) = Create("io_devices")
      /\ At(d, 6) = Create("blk") /\ At(d, 7) = Start({"blk"}) /\ At(d, 8) = Create("rng")
      /\ At(d, 9) = Create("net") /\ At(d, 10) = Start({"tx"}) /\ At(d, 11) = Start({"rx"})
      /\ At(d, 12) = Start({boot}) /\ At(d, 13) = Start(VCpus \ {boot})
      /\ At(d, 14) = Start({"terminal"}) /\ At(d, 15) = Join({boot}) /\ At(d, 16) = Stop("vm")
      /\ At(d, 17) = Join(VCpus \ {boot}) /\ At(d, 18) = Stop("terminal")
      /\ At(d, 19) = Join({"terminal"}) /\ At(d, 20) = Stop("vm") /\ At(d, 21) = Stop("blk")
      /\ At(d, 22) = Join({"blk"}) /\ At(d, 23) = Destroy("blk") /\ At(d, 24) = Destroy("rng")
      /\ At(d, 25) = Stop("net") /\ At(d, 26) = Join({"tx"}) /\ At(d, 27) = Join({"rx"})
      /\ At(d, 28) = Destroy("net") /\ At(d, 29) = Destroy("memory")
      /\ At(d, 30) = Destroy("io_devices") /\ At(d, 31) = Destroy("cpus")
      /\ At(d, 32) = Destroy("interrupts")
  <2>1. /\ d \in Seq(Item) /\ Size(d) = 32
        /\ \A i \in 1 .. 19 : At(d, i) = At(c, i)
        /\ \A i \in 1 .. 13 : At(d, 19 + i) = At(Destructor, i)
    <3>0. c \in Seq(Item) /\ Destructor \in Seq(Item)
      BY <1>4, DestructorItems
    <3>1. Size(c) = 19 /\ Size(Destructor) = 13
      BY <1>4, DestructorItems
    <3>2. /\ d \in Seq(Item) /\ Size(d) = Size(c) + Size(Destructor)
          /\ \A i \in 1 .. Size(c) : At(d, i) = At(c, i)
          /\ \A i \in 1 .. Size(Destructor) : At(d, Size(c) + i) = At(Destructor, i)
      BY ONLY <3>0, Placed
    <3>3. d \in Seq(Item) /\ Size(d) = 32
      BY ONLY <3>1, <3>2
    <3>4. \A i \in 1 .. 19 : At(d, i) = At(c, i)
      BY ONLY <3>1, <3>2
    <3>5. \A i \in 1 .. 13 : At(d, 19 + i) = At(Destructor, i)
      BY ONLY <3>1, <3>2
    <3> QED
      BY ONLY <3>3, <3>4, <3>5
  <2> HIDE DEF d
  <2> QED
    BY <1>4, DestructorItems, <2>1
<1> HIDE DEF d
<1>6. /\ e \in Seq(Item) /\ Size(e) = 33 /\ At(e, 1) = Create("term")
      /\ At(e, 2) = Create("interrupts") /\ At(e, 3) = Create("memory")
      /\ At(e, 4) = Create("cpus") /\ At(e, 5) = Create("io_devices")
      /\ At(e, 6) = Create("blk") /\ At(e, 7) = Start({"blk"}) /\ At(e, 8) = Create("rng")
      /\ At(e, 9) = Create("net") /\ At(e, 10) = Start({"tx"}) /\ At(e, 11) = Start({"rx"})
      /\ At(e, 12) = Start({boot}) /\ At(e, 13) = Start(VCpus \ {boot})
      /\ At(e, 14) = Start({"terminal"}) /\ At(e, 15) = Join({boot}) /\ At(e, 16) = Stop("vm")
      /\ At(e, 17) = Join(VCpus \ {boot}) /\ At(e, 18) = Stop("terminal")
      /\ At(e, 19) = Join({"terminal"}) /\ At(e, 20) = Stop("vm") /\ At(e, 21) = Stop("blk")
      /\ At(e, 22) = Join({"blk"}) /\ At(e, 23) = Destroy("blk") /\ At(e, 24) = Destroy("rng")
      /\ At(e, 25) = Stop("net") /\ At(e, 26) = Join({"tx"}) /\ At(e, 27) = Join({"rx"})
      /\ At(e, 28) = Destroy("net") /\ At(e, 29) = Destroy("memory")
      /\ At(e, 30) = Destroy("io_devices") /\ At(e, 31) = Destroy("cpus")
      /\ At(e, 32) = Destroy("interrupts") /\ At(e, 33) = Destroy("term")
  <2>1. /\ e \in Seq(Item) /\ Size(e) = 33
        /\ \A i \in 1 .. 32 : At(e, i) = At(d, i)
        /\ \A i \in 1 .. 1 : At(e, 32 + i) = At(Restored, i)
    <3>0. d \in Seq(Item) /\ Restored \in Seq(Item)
      BY <1>5, RestoredItems
    <3>1. Size(d) = 32 /\ Size(Restored) = 1
      BY <1>5, RestoredItems
    <3>2. /\ e \in Seq(Item) /\ Size(e) = Size(d) + Size(Restored)
          /\ \A i \in 1 .. Size(d) : At(e, i) = At(d, i)
          /\ \A i \in 1 .. Size(Restored) : At(e, Size(d) + i) = At(Restored, i)
      BY ONLY <3>0, Placed
    <3>3. e \in Seq(Item) /\ Size(e) = 33
      BY ONLY <3>1, <3>2
    <3>4. \A i \in 1 .. 32 : At(e, i) = At(d, i)
      BY ONLY <3>1, <3>2
    <3>5. \A i \in 1 .. 1 : At(e, 32 + i) = At(Restored, i)
      BY ONLY <3>1, <3>2
    <3> QED
      BY ONLY <3>3, <3>4, <3>5
  <2> HIDE DEF e
  <2> QED
    BY <1>5, RestoredItems, <2>1
<1> QED
  BY <1>1, <1>6 DEF Size, At

(* One of the first n - 1 steps is an op on x. *)
Before(n, op, x) == \E j \in 1 .. n - 1 : Script[j].op = op /\ x \in Script[j].of

(* What a thread may ever touch. *)
MayUse(t) ==
  IF t \in VCpus THEN Parts
  ELSE IF t = "terminal" THEN {"term", "io_devices", "interrupts"}
  ELSE IF t = "blk" THEN {"blk", "memory", "interrupts"}
  ELSE {"net", "memory", "interrupts"}

LEMMA StepKinds ==
  ASSUME NEW i \in 1 .. 33
  PROVE  /\ Script[i].op = "start" => i \in {7, 10, 11, 12, 13, 14}
         /\ Script[i].op = "join" => i \in {15, 17, 19, 22, 26, 27}
         /\ Script[i].op = "stop" => i > 15
         /\ Script[i].op = "destroy" => i \in {23, 24} \union 28 .. 33
  BY Steps DEF Create, Start, Stop, Join, Destroy

(* All is built before the first thread that needs it is started. *)
LEMMA AllBuilt ==
  /\ \A p \in Parts : Before(10, "create", p)
  /\ \A p \in {"blk", "memory", "interrupts"} : Before(7, "create", p)
<1> USE Steps DEF Create, Before
<1>1. Before(10, "create", "term") /\ Before(10, "create", "cpus") /\ Before(10, "create", "io_devices")
  OBVIOUS
<1>2. Before(10, "create", "rng") /\ Before(10, "create", "net")
  OBVIOUS
<1>3. Before(7, "create", "blk") /\ Before(7, "create", "memory") /\ Before(7, "create", "interrupts")
  OBVIOUS
<1>4. Before(10, "create", "blk") /\ Before(10, "create", "memory") /\ Before(10, "create", "interrupts")
  OBVIOUS
<1> QED
  BY <1>1, <1>2, <1>3, <1>4 DEF Parts

LEMMA BuiltBeforeStarted ==
  ASSUME NEW i \in 1 .. 33, Script[i].op = "start", NEW t \in Script[i].of, NEW p \in MayUse(t)
  PROVE  Before(i, "create", p)
<1>1. CASE i = 7
  BY <1>1, AllBuilt, Steps, VmmConstants DEF VmmConstants, Start, MayUse
<1>2. CASE i \in 10 .. 14
  BY <1>2, AllBuilt DEF Before, MayUse, Parts
<1> QED
  BY <1>1, <1>2, StepKinds

(* All are joined before what they use is destroyed. *)
LEMMA AllJoined ==
  /\ \A t \in VCpus \union {"terminal", "blk"} : Before(23, "join", t)
  /\ \A t \in Threads : Before(28, "join", t)
<1> USE Steps DEF Join, Before
<1>1. \A t \in VCpus \union {"terminal", "blk"} : Before(23, "join", t)
  OBVIOUS
<1>2. \A t \in VCpus \union {"terminal", "blk"} : Before(28, "join", t)
  OBVIOUS
<1>3. Before(28, "join", "tx") /\ Before(28, "join", "rx")
  OBVIOUS
<1> QED
  BY <1>1, <1>2, <1>3 DEF Threads, Devices

LEMMA JoinedBeforeDestroyed ==
  ASSUME NEW i \in 1 .. 33, Script[i].op = "destroy", NEW p \in Script[i].of,
         NEW t \in Threads, p \in MayUse(t)
  PROVE  Before(i, "join", t)
<1>1. CASE i \in {23, 24}
  <2>1. p \in {"blk", "rng"}
    BY <1>1, Steps DEF Destroy
  <2>2. t \in VCpus \union {"terminal", "blk"}
    BY <2>1 DEF MayUse, Threads, Devices
  <2> QED
    BY <1>1, <2>2, AllJoined DEF Before
<1>2. CASE i \in 28 .. 33
  BY <1>2, AllJoined DEF Before
<1> QED
  BY <1>1, <1>2, StepKinds

(* A thread is not started again after it was joined. *)
LEMMA StartedBeforeJoined ==
  ASSUME NEW i \in 1 .. 33, NEW t, Before(i, "join", t)
  PROVE  Script[i].op # "start"
  BY StepKinds DEF Before

(* Nothing is stopped or destroyed before the boot vCPU was waited for. *)
LEMMA BootJoinedFirst ==
  ASSUME NEW i \in 1 .. 33, Script[i].op \in {"stop", "destroy"}
  PROVE  Before(i, "join", boot)
  BY StepKinds, Steps DEF Before, Join

(* Every part, thread and flag is as the steps made so far have left it. *)
LifeInv ==
  /\ main \in 1 .. 34
  /\ th \in [Threads -> {"off", "top", "in", "host", "ended"}]
  /\ DOMAIN run \subseteq {"vm", "terminal", "blk", "net"}
  /\ alive \subseteq Parts
  /\ \A p \in Parts :
       Before(main, "create", p) /\ ~Before(main, "destroy", p) => p \in alive
  /\ \A t \in Threads : th[t] # "off" => Before(main, "start", t)
  /\ \A t \in Threads : Before(main, "join", t) => th[t] = "ended"
  /\ \A f \in DOMAIN run : run[f] \/ Before(main, "stop", f)

LEMMA LifeInvInit == Init => LifeInv
  BY DEF Init, LifeInv, Before

(* What is before the next step is what was before this one, and this one. *)
LEMMA BeforeNext ==
  ASSUME NEW n \in 1 .. 33, NEW op, NEW x
  PROVE  Before(n + 1, op, x) <=> Before(n, op, x) \/ (Script[n].op = op /\ x \in Script[n].of)
  BY DEF Before

LEMMA LifeInvMain ==
  ASSUME LifeInv, Main
  PROVE  LifeInv'
<1> DEFINE s == Script[main]
<1>1. main \in 1 .. 33 /\ main' = main + 1
  BY Steps DEF LifeInv, Main, Finished
<1>2. \A op, x : Before(main', op, x) <=> Before(main, op, x) \/ (s.op = op /\ x \in s.of)
  BY <1>1, BeforeNext
<1>3. /\ s.op = "join" => \A t \in s.of : th[t] = "ended"
      /\ th' = [t \in Threads |-> IF s.op = "start" /\ t \in s.of THEN "top" ELSE th[t]]
      /\ run' = [f \in DOMAIN run |-> run[f] /\ ~(s.op = "stop" /\ f \in s.of)]
      /\ alive' = CASE s.op = "create" -> alive \union s.of
                    [] s.op = "destroy" -> alive \ s.of
                    [] s.op \notin {"create", "destroy"} -> alive
  BY DEF Main
<1>4. s.op = "create" => s.of \subseteq Parts
  BY <1>1, Steps DEF Create, Start, Stop, Join, Destroy, Parts
<1>5. main' \in 1 .. 34
  BY <1>1
<1>6. th' \in [Threads -> {"off", "top", "in", "host", "ended"}]
  BY <1>3 DEF LifeInv
<1>7. DOMAIN run' \subseteq {"vm", "terminal", "blk", "net"}
  BY <1>3 DEF LifeInv
<1>8. alive' \subseteq Parts
  BY <1>3, <1>4 DEF LifeInv
<1>9. \A p \in Parts :
        Before(main', "create", p) /\ ~Before(main', "destroy", p) => p \in alive'
  BY <1>2, <1>3 DEF LifeInv
<1>10. \A t \in Threads : th'[t] # "off" => Before(main', "start", t)
  BY <1>2, <1>3 DEF LifeInv
<1>11. \A t \in Threads : Before(main', "join", t) => th'[t] = "ended"
  <2> SUFFICES ASSUME NEW t \in Threads, Before(main', "join", t) PROVE th'[t] = "ended"
    OBVIOUS
  <2>1. CASE Before(main, "join", t)
    BY <1>1, <1>3, <2>1, StartedBeforeJoined DEF LifeInv
  <2>2. CASE s.op = "join" /\ t \in s.of
    BY <1>3, <2>2 DEF LifeInv
  <2> QED
    BY <1>2, <2>1, <2>2
<1>12. \A f \in DOMAIN run' : run'[f] \/ Before(main', "stop", f)
  BY <1>2, <1>3 DEF LifeInv
<1>13. \A op, x : Before(main, op, x)' <=> Before(main', op, x)
  BY DEF Before
<1> QED
  BY <1>5, <1>6, <1>7, <1>8, <1>9, <1>10, <1>11, <1>12, <1>13 DEF LifeInv

(* A thread moves on, but not out of its end.                              *)
LEMMA LifeInvGoto ==
  ASSUME LifeInv, NEW t \in Threads, NEW from \in {"top", "in", "host"},
         NEW to \in {"top", "in", "host", "ended"}, Goto(t, from, to)
  PROVE  LifeInv'
  BY DEF LifeInv, Goto, Before

LEMMA LifeInvNext == LifeInv /\ [Next]_vars => LifeInv'
<1> SUFFICES ASSUME LifeInv, [Next]_vars PROVE LifeInv'
  OBVIOUS
<1>1. CASE Main
  BY <1>1, LifeInvMain
<1>2. ASSUME NEW t \in Threads, Test(t) PROVE LifeInv'
  BY <1>2, LifeInvGoto DEF Test
<1>3. ASSUME NEW v \in VCpus, LeaveGuest(v) \/ Interrupted(v) \/ Handle(v) PROVE LifeInv'
  BY <1>3, LifeInvGoto DEF LeaveGuest, Interrupted, Handle, Threads
<1>4. CASE Typed \/ Handle("terminal")
  BY <1>4, LifeInvGoto DEF Typed, Handle, Threads
<1>5. ASSUME NEW d \in Devices, Iterate(d) PROVE LifeInv'
  BY <1>5, LifeInvGoto DEF Iterate, Threads
<1>6. CASE UNCHANGED vars
  BY <1>6 DEF vars, LifeInv, Before
<1> QED
  BY <1>1, <1>2, <1>3, <1>4, <1>5, <1>6 DEF Next

(* What a running thread may use has been built and not been destroyed. *)
LEMMA RunningHasParts ==
  ASSUME LifeInv, NEW t \in Threads, th[t] \notin {"off", "ended"}
  PROVE  MayUse(t) \subseteq alive
<1> SUFFICES ASSUME NEW p \in MayUse(t) PROVE p \in alive
  OBVIOUS
<1>1. p \in Parts
  BY DEF MayUse, Parts
<1>2. Before(main, "create", p)
  <2>1. PICK i \in 1 .. main - 1 : Script[i].op = "start" /\ t \in Script[i].of
    BY DEF LifeInv, Before
  <2>2. Before(i, "create", p)
    BY <2>1, BuiltBeforeStarted DEF LifeInv
  <2> QED
    BY <2>2 DEF Before, LifeInv
<1>3. ~Before(main, "destroy", p)
  <2> SUFFICES ASSUME NEW i \in 1 .. main - 1, Script[i].op = "destroy", p \in Script[i].of
               PROVE  FALSE
    BY DEF Before
  <2>1. i \in 1 .. 33
    BY DEF LifeInv
  <2>2. Before(i, "join", t)
    BY <2>1, JoinedBeforeDestroyed
  <2> QED
    BY <2>2 DEF Before, LifeInv
<1> QED
  BY <1>1, <1>2, <1>3 DEF LifeInv

LEMMA LifeInvariance == Spec => []LifeInv
<1>1. LifeInv /\ [Next]_vars => LifeInv'
  BY LifeInvNext
<1> QED
  BY <1>1, LifeInvInit, PTL DEF Spec

(* No thread runs on what is not there, in whatever order the threads end, *)
(* with any number of vCPUs (vm.h:52-58, vmm.h:92-100).                    *)
THEOREM NothingDangles == Spec => []NothingUsedAfterDestroyed
<1>1. LifeInv => NothingUsedAfterDestroyed
  <2> SUFFICES ASSUME LifeInv, NEW t \in Threads PROVE Uses(t) \subseteq alive
    BY DEF NothingUsedAfterDestroyed
  <2>1. CASE th[t] \in {"off", "ended"}
    BY <2>1 DEF Uses
  <2>2. CASE th[t] \notin {"off", "ended"}
    <3>1. Uses(t) \subseteq MayUse(t)
      BY <2>2, VmmConstants DEF VmmConstants, Uses, MayUse, Threads, Devices, Parts
    <3> QED
      BY <2>2, <3>1, RunningHasParts
  <2> QED
    BY <2>1, <2>2
<1> QED
  BY <1>1, LifeInvariance, PTL

(* While the boot vCPU runs, nothing is stopped and nothing destroyed.     *)
THEOREM MachineStaysWhole == Spec => []ServedWhileBootRuns
<1>1. LifeInv => ServedWhileBootRuns
  <2> SUFFICES ASSUME LifeInv, th[boot] \notin {"off", "ended"}
               PROVE  alive = Parts /\ \A f \in DOMAIN run : run[f]
    BY DEF ServedWhileBootRuns
  <2>1. boot \in VCpus /\ boot \in Threads
    BY VmmConstants DEF VmmConstants, Threads
  <2>2. alive = Parts
    BY <2>1, RunningHasParts DEF MayUse, LifeInv
  <2>3. ASSUME NEW f \in DOMAIN run PROVE run[f]
    <3> SUFFICES ASSUME NEW i \in 1 .. main - 1, Script[i].op = "stop" PROVE FALSE
      BY DEF LifeInv, Before
    <3>1. Before(i, "join", boot)
      BY BootJoinedFirst DEF LifeInv
    <3> QED
      BY <2>1, <3>1 DEF LifeInv, Before
  <2> QED
    BY <2>2, <2>3
<1> QED
  BY <1>1, LifeInvariance, PTL

=============================================================================
