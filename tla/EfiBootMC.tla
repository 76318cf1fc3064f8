----------------------------- MODULE EfiBootMC -----------------------------
(***************************************************************************)
(* Configuration tables for model checking the loader's main path: one or  *)
(* two entries in either order, leading to sound and damaged descriptions. *)
(***************************************************************************)
EXTENDS EfiBoot

Spcr(b) == [sig |-> "SPCR", base |-> b, baud |-> 3, space |-> b - 1, model |-> 3]
Other == [sig |-> "FACP", base |-> 0, baud |-> 0, space |-> 0, model |-> 0]

Root(a, s, e) == [addr |-> a, sig |-> s, entry |-> e]

Roots(b) == {Root(8192, TRUE, <<NULL, Other, Spcr(b)>>), Root(8192, TRUE, <<Other>>),
             Root(8192, FALSE, <<Spcr(b)>>), Root(0, TRUE, <<>>)}

Rsdps == {[sig |-> s, rev |-> v, xsdt |-> x, rsdt |-> r] :
            s \in BOOLEAN, v \in {0, 2}, x \in Roots(1), r \in Roots(3)}

Old == [sig |-> TRUE, rev |-> 0, xsdt |-> Root(0, FALSE, <<>>),
        rsdt |-> Root(8192, TRUE, <<Spcr(2)>>)]

MCConfigs ==
  {<<>>} \cup {<<[guid |-> "SMBIOS", rsdp |-> NULL], [guid |-> g, rsdp |-> r]>> :
                 g \in {"ACPI 1.0", "ACPI 2.0"}, r \in Rsdps}
         \cup {<<[guid |-> "ACPI 1.0", rsdp |-> Old], [guid |-> "ACPI 2.0", rsdp |-> r]>> :
                 r \in Rsdps}
=============================================================================
