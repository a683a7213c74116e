-------------------------------- MODULE MCVmm --------------------------------
(* Instances of Vmm for TLC. *)
EXTENDS Vmm

TwoCpus == {"cpu0", "cpu1"}

(* Both sides of every bound of MemoryMap, and what vmm.h asks for. *)
MemorySizes ==
  {HIMEM_START + 4, GAP_START - 4, GAP_START + 4, MAX_32BIT - 4, MAX_32BIT}

Phdr(type, from, paddr, filesz, memsz) ==
  [p_type |-> type, p_offset |-> from, p_paddr |-> paddr, p_filesz |-> filesz, p_memsz |-> memsz]

Note == Phdr("PT_NOTE", 232, 0, 0, 0)
First == Phdr("PT_LOAD", 4096, 1024 * HIMEM_START, 2048, 2048)
WithBss == Phdr("PT_LOAD", 6144, 1024 * HIMEM_START + 2048, 1, 2048)
High == Phdr("PT_LOAD", 6152, IdentityMapped - PAGE, PAGE, PAGE)
Behind(filesz) == Phdr("PT_LOAD", 6144, 1024 * HIMEM_START + 2048, filesz, 16)

File(phdr, size) == [size |-> size, phoff |-> EHDR_SIZE, phdr |-> phdr, entry |-> "startup_64"]

(* Images that load, at either end of what fits, and images that do not:   *)
(* a segment without data, and one with more data than memory.             *)
WholeImages ==
  {File(p, 6152 + PAGE) :
    p \in {<<First, Note, WithBss>>, <<First, High>>,
           <<First, Behind(0), Note>>, <<First, Behind(32), High>>}}

(* The headers end at 232.  Cut in the ELF header before and behind the    *)
(* entry, in the last program header before its type, its sizes and its    *)
(* end, and in a segment: the one whose turn comes first, although those   *)
(* after it are in the file, or the last one.                              *)
CutImages ==
  {File(<<WithBss, Note, High>>, size) : size \in {24, 56, 176, 192, 224}} \union
  {File(<<High, WithBss, First>>, 6152), File(<<First, WithBss, High>>, 6160)}

SomeImages == WholeImages \union CutImages

=============================================================================
