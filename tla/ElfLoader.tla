----------------------------- MODULE ElfLoader -----------------------------
(***************************************************************************)
(* load_elf of the EFI loader (src/efi/main.c): the kernel file is read    *)
(* into a pool buffer, its segments are placed in pages and, for a         *)
(* position independent kernel, relocated.                                 *)
(*                                                                         *)
(* Memory is a function from addresses (cells) to contents; addresses are  *)
(* taken modulo TOP, as UINT64 arithmetic is modulo 2^64.  The boot        *)
(* services are external: each call may fail, pages come from the memory   *)
(* that is free.                                                           *)
(***************************************************************************)
EXTENDS Integers, Sequences, FiniteSetsExt

CONSTANTS
  TOP,    \* number of addresses (2^64)
  PAGE,   \* cells of a page (4096)
  Taken,  \* the cells that are not free memory
  Files   \* the kernel files that are tried

\* The headers of a file: segments with their contents, the dynamic section
\* and the relocation table as the loaded image holds them.
Phdr(t, a, d, n) == [p_type |-> t, p_vaddr |-> a, data |-> d, p_memsz |-> n]

Loads(f) == {p \in {f.phdrs[k] : k \in 1 .. Len(f.phdrs)} : p.p_type = "LOAD"}

\* The link addresses of a segment.
Extent(p) == p.p_vaddr .. p.p_vaddr + p.p_memsz - 1

\* The value of a tag of the dynamic section: the last one counts, 0 if none.
Tag(f, t) ==
  LET at == {k \in 1 .. Len(f.dyn) : f.dyn[k][1] = t}
  IN  IF at = {} THEN 0 ELSE f.dyn[Max(at)][2]

HasDynamic(f) == \E k \in 1 .. Len(f.phdrs) : f.phdrs[k].p_type = "DYNAMIC"

\* The entries of the relocation table that are applied.
Applied(f) ==
  IF HasDynamic(f) /\ Tag(f, "RELA") # 0 /\ Tag(f, "RELASZ") # 0 /\ Tag(f, "RELAENT") # 0
  THEN {k \in 1 .. Tag(f, "RELASZ") \div Tag(f, "RELAENT") : f.rela[k].type = "RELATIVE"}
  ELSE {}

\* What load_elf takes on trust in a file: segments that hold their data, below
\* the top of memory, and in a position independent file apart from each other
\* and relocated inside of themselves.
WellFormed(f) ==
  /\ Len(f.phdrs) \in Nat
  /\ \A k \in 1 .. Len(f.phdrs) :
       LET p == f.phdrs[k]
       IN  /\ p.p_vaddr \in Nat /\ p.p_memsz \in Nat /\ Len(p.data) \in 0 .. p.p_memsz
           /\ p.p_vaddr + p.p_memsz < TOP
  /\ f.e_type = "DYN" =>
       /\ \A p, q \in Loads(f) : p # q => Extent(p) \cap Extent(q) = {}
       /\ \A k \in Applied(f) : \E p \in Loads(f) : f.rela[k].r_offset \in Extent(p)

ASSUME ElfAssumption ==
  /\ TOP \in Nat \ {0} /\ PAGE \in Nat \ {0} /\ TOP % PAGE = 0 /\ Taken \subseteq 0 .. TOP - 1
  /\ \A f \in Files : WellFormed(f)

VARIABLES
  file,       \* the file being loaded
  pc,         \* next step of load_elf
  i,          \* loop counter of the second pass
  pools,      \* pool buffers that are allocated
  owned,      \* cells of the pages that are allocated
  mem,        \* contents of memory
  base_addr,  \* difference of load and link addresses
  status      \* what load_elf returned

vars == <<file, pc, i, pools, owned, mem, base_addr, status>>

Cells == 0 .. TOP - 1
JUNK == -1          \* what memory held before

\* The first pass.
min_vaddr(f) == Min({TOP - 1} \cup {p.p_vaddr : p \in Loads(f)})
max_vaddr(f) == Max({0} \cup {(p.p_vaddr + p.p_memsz) % TOP : p \in Loads(f)})
total_size(f) == (max_vaddr(f) - min_vaddr(f)) % TOP

is_pie == file.e_type = "DYN"

EFI_SIZE_TO_PAGES(n) == (n + PAGE - 1) \div PAGE

Span(a, n) == {c \in Cells : (c - a) % TOP < n}

SetMem(m, a, n, v) == [c \in Cells |-> IF c \in Span(a, n) THEN v ELSE m[c]]

CopyMem(m, a, d) ==
  [c \in Cells |-> IF c \in Span(a, Len(d)) THEN d[((c - a) % TOP) + 1] ELSE m[c]]

\* Pages from address a can be allocated.
Free(a, pages) ==
  /\ a % PAGE = 0 /\ a + pages * PAGE <= TOP
  /\ Span(a, pages * PAGE) \cap (Taken \cup owned) = {}

-----------------------------------------------------------------------------

Goto(l) == pc' = l /\ UNCHANGED <<file, status>>

Return(st) == pc' = "returned" /\ status' = st /\ UNCHANGED file

\* Mutant: the buffer is not freed.
FailFreeing_Not(buffer) ==
  /\ Return("error") /\ UNCHANGED pools
  /\ UNCHANGED <<i, owned, mem, base_addr>>

\* An error return that frees a buffer first.
FailFreeing(buffer) ==
  /\ Return("error") /\ pools' = pools \ {buffer}
  /\ UNCHANGED <<i, owned, mem, base_addr>>

\* AllocatePool for the file information.
AllocInfo ==
  /\ pc = "start"
  /\ \/ Goto("info") /\ pools' = pools \cup {"file_info"}
     \/ Return("error") /\ UNCHANGED pools
  /\ UNCHANGED <<i, owned, mem, base_addr>>

GetInfo ==
  /\ pc = "info"
  /\ \/ Goto("size") /\ UNCHANGED <<i, pools, owned, mem, base_addr>>
     \/ FailFreeing("file_info")

\* FreePool of the information, AllocatePool for the file.
AllocElf ==
  /\ pc = "size"
  /\ \/ Goto("read") /\ pools' = (pools \ {"file_info"}) \cup {"elf_data"}
     \/ Return("error") /\ pools' = pools \ {"file_info"}
  /\ UNCHANGED <<i, owned, mem, base_addr>>

Read ==
  /\ pc = "read"
  /\ \/ Goto("check") /\ UNCHANGED <<i, pools, owned, mem, base_addr>>
     \/ FailFreeing("elf_data")

\* Magic, class and type.
Check ==
  /\ pc = "check"
  /\ IF file.magic /\ file.class64 /\ file.e_type \in {"EXEC", "DYN"}
     THEN Goto("place") /\ UNCHANGED <<i, pools, owned, mem, base_addr>>
     ELSE FailFreeing("elf_data")

\* Mutant: the link address of the first segment is not subtracted.
PlacePie_NoMin ==
  LET pages == EFI_SIZE_TO_PAGES(total_size(file))
  IN  /\ pc = "place" /\ is_pie
      /\ \/ \E addr \in Cells :
              /\ Free(addr, pages)
              /\ owned' = owned \cup Span(addr, pages * PAGE)
              /\ mem' = SetMem(mem, addr, total_size(file), 0)
              /\ base_addr' = addr
              /\ Goto("load") /\ i' = 1 /\ UNCHANGED pools
         \/ FailFreeing("elf_data")

PlacePie ==
  LET pages == EFI_SIZE_TO_PAGES(total_size(file))
  IN  /\ pc = "place" /\ is_pie
      /\ \/ \E addr \in Cells :
              /\ Free(addr, pages)
              /\ owned' = owned \cup Span(addr, pages * PAGE)
              /\ mem' = SetMem(mem, addr, total_size(file), 0)
              /\ base_addr' = (addr - min_vaddr(file)) % TOP
              /\ Goto("load") /\ i' = 1 /\ UNCHANGED pools
         \/ FailFreeing("elf_data")

PlaceExec ==
  /\ pc = "place" /\ ~is_pie
  /\ base_addr' = 0 /\ i' = 1 /\ Goto("load")
  /\ UNCHANGED <<pools, owned, mem>>

\* The file's part of a segment, and zeroes up to its size in memory.
Fill(m, p, dest) ==
  SetMem(CopyMem(m, dest, p.data), dest + Len(p.data), p.p_memsz - Len(p.data), 0)

\* One turn of the second pass.
LoadSegment ==
  /\ pc = "load" /\ i <= Len(file.phdrs)
  /\ LET p == file.phdrs[i]
         dest == (base_addr + p.p_vaddr) % TOP
         pages == EFI_SIZE_TO_PAGES(p.p_memsz)
     IN  \/ /\ p.p_type # "LOAD"
            /\ i' = i + 1 /\ UNCHANGED <<file, pc, pools, owned, mem, base_addr, status>>
         \/ /\ p.p_type = "LOAD" /\ is_pie
            /\ mem' = Fill(mem, p, dest)
            /\ i' = i + 1 /\ UNCHANGED <<file, pc, pools, owned, base_addr, status>>
         \/ /\ p.p_type = "LOAD" /\ ~is_pie /\ Free(p.p_vaddr, pages)
            /\ owned' = owned \cup Span(p.p_vaddr, pages * PAGE)
            /\ mem' = Fill(SetMem(mem, dest, p.p_memsz, 0), p, dest)
            /\ i' = i + 1 /\ UNCHANGED <<file, pc, pools, base_addr, status>>
         \/ /\ p.p_type = "LOAD" /\ ~is_pie
            /\ FailFreeing("elf_data")

\* Mutant: the addend is stored as it is.
Relocate_NoBase(m) ==
  [c \in Cells |->
     LET hits == {k \in Applied(file) : (base_addr + file.rela[k].r_offset) % TOP = c}
     IN  IF hits = {} THEN m[c] ELSE file.rela[Max(hits)].r_addend]

\* A relocated cell holds the load address of its addend.
Relocate(m) ==
  [c \in Cells |->
     LET hits == {k \in Applied(file) : (base_addr + file.rela[k].r_offset) % TOP = c}
     IN  IF hits = {} THEN m[c] ELSE (base_addr + file.rela[Max(hits)].r_addend) % TOP]

\* Relocations, the entry point and the final FreePool.
Finish ==
  /\ pc = "load" /\ i > Len(file.phdrs)
  /\ mem' = IF is_pie THEN Relocate(mem) ELSE mem
  /\ pools' = pools \ {"elf_data"}
  /\ Return("success") /\ UNCHANGED <<i, owned, base_addr>>

Init ==
  /\ file \in Files /\ pc = "start" /\ i = 0 /\ pools = {} /\ owned = {}
  /\ mem = [c \in Cells |-> JUNK] /\ base_addr = 0 /\ status = "none"

Next ==
  \/ AllocInfo \/ GetInfo \/ AllocElf \/ Read \/ Check
  \/ PlacePie \/ PlaceExec \/ LoadSegment \/ Finish

Spec == Init /\ [][Next]_vars

-----------------------------------------------------------------------------

(* Whatever fails, and wherever, load_elf returns with both pool buffers   *)
(* freed (main.c:141-351).                                                 *)
PoolsFreed == pc = "returned" => pools = {}

(* Clearing, copying and relocating write only to pages that load_elf has  *)
(* allocated, wherever the firmware placed them (main.c:243-332).          *)
WritesOwned == \A c \in Cells : mem[c] # JUNK => c \in owned

\* What the file says the cell at link address a holds once relocated.
Linked(a, p) ==
  LET hits == {k \in Applied(file) : file.rela[k].r_offset = a}
      off  == a - p.p_vaddr
  IN  IF is_pie /\ hits # {} THEN (base_addr + file.rela[Max(hits)].r_addend) % TOP
      ELSE IF off < Len(p.data) THEN p.data[off + 1] ELSE 0

(* A successful load leaves every segment in memory as it was linked,      *)
(* moved by base_addr, with its bss zero and its relocated words pointing  *)
(* to load addresses: no later segment, clearing or relocation spoils an   *)
(* earlier one (main.c:253-339).                                           *)
ImageLoaded ==
  status = "success" =>
    \A p \in Loads(file) : \A a \in Extent(p) :
       mem[(base_addr + a) % TOP] = Linked(a, p)
=============================================================================
