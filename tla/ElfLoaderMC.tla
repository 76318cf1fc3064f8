---------------------------- MODULE ElfLoaderMC ----------------------------
(***************************************************************************)
(* Kernel files for model checking the loader: every pair of segments that *)
(* do not overlap, aligned or not, with and without bss, sharing a page or *)
(* not; for position independent files with relocations in either segment  *)
(* and incomplete dynamic sections; a file without segments; and files     *)
(* that are refused.                                                       *)
(***************************************************************************)
EXTENDS ElfLoader

Elf(t, ph, dyn, rela) ==
  [magic |-> TRUE, class64 |-> TRUE, e_type |-> t, phdrs |-> ph, dyn |-> dyn, rela |-> rela]

Rela(t, o, a) == [type |-> t, r_offset |-> o, r_addend |-> a]

\* The dynamic section of a table of n entries.
Tags(n) == << <<"RELA", 3>>, <<"RELASZ", 3 * n>>, <<"RELAENT", 3>> >>

Contents(n) == [k \in 1 .. n |-> k]

Segments ==
  {<< Phdr("LOAD", a, Contents(n - z), n), Phdr("LOAD", b, Contents(1), 2) >> :
     a \in 0 .. 3, b \in 4 .. 7, n \in 2 .. 4, z \in 0 .. 1}

Disjoint == {s \in Segments : s[1].p_vaddr + s[1].p_memsz <= s[2].p_vaddr}

Fixed == {Elf("EXEC", s, <<>>, <<>>) : s \in Disjoint}

\* Relocations in the first segment, in the bss of the second and of a type
\* that is skipped; only two of them are in the table.
Pie ==
  {Elf("DYN", s \o << Phdr("DYNAMIC", s[2].p_vaddr, <<1>>, 1) >>, dyn,
       << Rela("RELATIVE", s[1].p_vaddr, s[2].p_vaddr), Rela("OTHER", s[1].p_vaddr + 1, 0),
          Rela("RELATIVE", s[2].p_vaddr + 1, s[1].p_vaddr) >>) :
     s \in Disjoint, dyn \in {Tags(2), Tags(3), SubSeq(Tags(3), 1, 2)}}

NoDynamic == {[f EXCEPT !.phdrs = SubSeq(f.phdrs, 1, 2)] : f \in Pie}

One == CHOOSE s \in Disjoint : TRUE

MCFiles ==
  Fixed \cup Pie \cup NoDynamic \cup
  { Elf("DYN", <<>>, <<>>, <<>>), Elf("REL", One, <<>>, <<>>),
    [Elf("DYN", One, <<>>, <<>>) EXCEPT !.magic = FALSE],
    [Elf("EXEC", One, <<>>, <<>>) EXCEPT !.class64 = FALSE] }
=============================================================================
