-------------------------------- MODULE Acpi --------------------------------
(***************************************************************************)
(* The search for an ACPI table (src/efi/acpi.c) and what find_uart makes  *)
(* of the SPCR table (src/efi/main.c).                                     *)
(*                                                                         *)
(* The firmware's configuration table is a sequence of entries [guid,      *)
(* rsdp]; an RSDP is [sig, rev, xsdt, rsdt]; a root table (XSDT or RSDT)   *)
(* is [addr, sig, entry], its entries NULL or tables.  sig tells whether   *)
(* the signature is the expected one; the loops are searches for the first *)
(* entry that satisfies a test.                                            *)
(***************************************************************************)
EXTENDS Integers, Sequences, SequencesExt

NULL == [sig |-> "NULL"]

\* The first of the entries that satisfies Test, or none.
FirstWith(s, Test(_), none) ==
  LET k == SelectInSeq(s, Test) IN IF k = 0 THEN none ELSE s[k]

\* Mutant: one pass takes the first ACPI entry, of either version.
FindAcpiTable_OnePass(config) ==
  FirstWith(config, LAMBDA e : e.guid \in {"ACPI 2.0", "ACPI 1.0"}, [guid |-> "", rsdp |-> NULL]).rsdp

\* Two passes: an ACPI 2.0 entry anywhere is preferred to an ACPI 1.0 one.
FindAcpiTable(config) ==
  FirstWith(config, LAMBDA e : e.guid = "ACPI 2.0",
    FirstWith(config, LAMBDA e : e.guid = "ACPI 1.0", [guid |-> "", rsdp |-> NULL])).rsdp

\* A root table's address counts as valid from 0x1000 on.
Usable(root) == root.addr >= 4096 /\ root.sig

Search(root, signature) ==
  FirstWith(root.entry, LAMBDA t : t # NULL /\ t.sig = signature, NULL)

\* An unusable XSDT falls back to the RSDT; a usable one without the table
\* does not.
FindInRsdp(rsdp, signature) ==
  IF rsdp = NULL \/ ~rsdp.sig THEN NULL
  ELSE IF rsdp.rev >= 2 /\ Usable(rsdp.xsdt) THEN Search(rsdp.xsdt, signature)
  ELSE IF Usable(rsdp.rsdt) THEN Search(rsdp.rsdt, signature) ELSE NULL

FindAcpiTableBySignature(config, signature) == FindInRsdp(FindAcpiTable(config), signature)

BaudRate(code) ==
  CASE code = 3 -> 9600 [] code = 4 -> 19200 [] code = 6 -> 57600 [] OTHER -> 115200

\* On machines without COM1 (the loader is built for AArch64) a missing SPCR
\* leaves base 0, and model is never assigned: it is whatever the stack held.
Serial(spcr, stack) ==
  IF spcr = NULL THEN [base |-> 0, baud |-> 0, type |-> 0, model |-> stack]
  ELSE [base |-> spcr.base, baud |-> BaudRate(spcr.baud), model |-> spcr.model,
        type |-> IF spcr.space \in {0, 1} THEN spcr.space + 1 ELSE 0]

find_uart(config, stack) == Serial(FindAcpiTableBySignature(config, "SPCR"), stack)
=============================================================================
