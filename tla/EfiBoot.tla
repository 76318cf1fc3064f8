------------------------------ MODULE EfiBoot ------------------------------
(***************************************************************************)
(* efi_main of the EFI loader (src/efi/main.c): it loads the kernel (see   *)
(* ElfLoader), gathers what the kernel is told (boot_info), takes the      *)
(* memory map, leaves the boot services and jumps.                         *)
(*                                                                         *)
(* The firmware is external.  Its memory map has a version, which every    *)
(* allocation changes and which is the map key, and a number of            *)
(* descriptors; sizes are counted in descriptors.  Calls may fail.  Where  *)
(* efi_main ignores a failure and goes on with a pointer that was never    *)
(* set, the model stops in "wild".                                         *)
(***************************************************************************)
EXTENDS Acpi

CONSTANTS
  SLACK,    \* descriptors added to the size of the map (8)
  Growth,   \* descriptors one allocation may add to the map
  MaxDesc,  \* bound on the descriptors at the start
  Configs,  \* the firmware's configuration tables
  Models    \* what an unset model may hold

\* What efi_main takes on trust in a configuration table: it has an end, an
\* ACPI 2.0 entry leads to an RSDP and an XSDT, and there is one at most (the
\* firmware replaces an entry when its GUID is installed again).
WellFormed(c) ==
  /\ c \in Seq(Range(c))
  /\ \A k \in DOMAIN c : c[k].guid = "ACPI 2.0" =>
       LET r == c[k].rsdp
       IN  r # NULL /\ r.xsdt.entry \in Seq(Range(r.xsdt.entry))
  /\ \A j, k \in DOMAIN c : c[j].guid = "ACPI 2.0" /\ c[k].guid = "ACPI 2.0" => j = k

ASSUME EfiAssumption ==
  /\ SLACK \in Nat /\ Growth \subseteq Nat /\ MaxDesc \in Nat
  /\ \A c \in Configs : WellFormed(c)

VARIABLES
  pc,      \* next step of efi_main
  fw,      \* firmware: alive, version and ndesc of its memory map
  config,  \* its configuration table
  info,    \* boot_info: framebuffer, serial, size of the memory map
  buf,     \* the map's buffer: the size asked for, the size cap, the version held
  key,     \* map_key
  cause    \* why efi_main may return

vars == <<pc, fw, config, info, buf, key, cause>>

Unset == -1

Boots(l)    == pc' = l /\ UNCHANGED <<config, cause>>
Returns(why) == pc' = "returned" /\ cause' = cause \cup {why} /\ UNCHANGED config

\* An allocation of the firmware.
Allocates(g) == fw' = [fw EXCEPT !.version = @ + 1, !.ndesc = @ + g]

LocateFs ==
  /\ pc = "start" /\ (Boots("open") \/ Returns("filesystem"))
  /\ UNCHANGED <<fw, info, buf, key>>

\* The status of OpenVolume is not looked at.
OpenKernel ==
  /\ pc = "open" /\ (Boots("elf") \/ Boots("wild") \/ Returns("kernel file"))
  /\ UNCHANGED <<fw, info, buf, key>>

\* After a failure efi_main returns elf_entry, which is not set.
LoadElf ==
  /\ pc = "elf" /\ (Boots("info") \/ Returns("load"))
  /\ \E g \in Growth : Allocates(g)
  /\ UNCHANGED <<info, buf, key>>

\* AllocatePool, unchecked, and SetMem.
AllocInfo ==
  /\ pc = "info"
  /\ \/ Boots("graphics") /\ \E g \in Growth : Allocates(g)
     \/ Boots("wild") /\ UNCHANGED fw
  /\ info' = [fb |-> 0, serial |-> Serial(NULL, 0), size |-> 0]
  /\ UNCHANGED <<buf, key>>

Graphics ==
  /\ pc = "graphics" /\ Boots("serial")
  /\ \E fb \in {0, 1} : info' = [info EXCEPT !.fb = fb]
  /\ UNCHANGED <<fw, buf, key>>

FindSerial ==
  /\ pc = "serial" /\ Boots("size")
  /\ \E m \in Models : info' = [info EXCEPT !.serial = find_uart(config, m)]
  /\ UNCHANGED <<fw, buf, key>>

\* Mutant: the map gets no room to grow.
SizeMap_NoSlack ==
  /\ pc = "size" /\ Boots("alloc")
  /\ buf' = [buf EXCEPT !.need = fw.ndesc, !.cap = fw.ndesc]
  /\ UNCHANGED <<fw, info, key>>

\* GetMemoryMap without a buffer answers with the size; room is added.
SizeMap ==
  /\ pc = "size" /\ Boots("alloc")
  /\ buf' = [buf EXCEPT !.need = fw.ndesc, !.cap = fw.ndesc + SLACK]
  /\ UNCHANGED <<fw, info, key>>

\* AllocatePool, unchecked, changes the map it is to hold.
AllocMap ==
  /\ pc = "alloc"
  /\ \/ Boots("map") /\ \E g \in Growth : Allocates(g)
     \/ Boots("wild") /\ UNCHANGED fw
  /\ UNCHANGED <<info, buf, key>>

\* Mutant: the key is kept from the call that asked for the size.
GetMap_OldKey ==
  /\ pc = "map" /\ Boots("print")
  /\ buf' = [buf EXCEPT !.version = IF fw.ndesc <= buf.cap THEN fw.version ELSE @]
  /\ key' = fw.version - 1
  /\ info' = [info EXCEPT !.size = fw.ndesc]
  /\ UNCHANGED fw

\* The status is not looked at: when the buffer is too small it stays as it is,
\* and whether the key is set is up to the firmware.
GetMap ==
  /\ pc = "map" /\ Boots("print")
  /\ buf' = [buf EXCEPT !.version = IF fw.ndesc <= buf.cap THEN fw.version ELSE @]
  /\ key' = fw.version \/ (fw.ndesc > buf.cap /\ key' = key)
  /\ info' = [info EXCEPT !.size = fw.ndesc]
  /\ UNCHANGED fw

\* Print goes through the firmware's console, which may allocate.
Prints(next) ==
  /\ pc' = next /\ UNCHANGED <<config, info, buf, key>>
  /\ \/ UNCHANGED <<fw, cause>>
     \/ cause' = cause \cup {"console"} /\ \E g \in Growth : Allocates(g)

PrintInfo == pc = "print" /\ Prints("el")

CheckEl ==
  /\ pc = "el" /\ (Boots("announce") \/ Returns("exception level"))
  /\ UNCHANGED <<fw, info, buf, key>>

Announce == pc = "announce" /\ Prints("exit")

\* ExitBootServices succeeds with the current key only; there is no retry.
Exit ==
  /\ pc = "exit"
  /\ \/ /\ key = fw.version /\ Boots("kernel")
        /\ fw' = [fw EXCEPT !.alive = FALSE]
     \/ /\ key # fw.version /\ Boots("returned")
        /\ UNCHANGED fw
  /\ UNCHANGED <<info, buf, key>>

Init ==
  /\ pc = "start" /\ config \in Configs /\ cause = {}
  /\ \E n \in 0 .. MaxDesc : fw = [alive |-> TRUE, version |-> 0, ndesc |-> n]
  /\ info = [fb |-> 0, serial |-> Serial(NULL, 0), size |-> 0]
  /\ buf = [need |-> 0, cap |-> 0, version |-> Unset] /\ key = Unset

Next ==
  \/ LocateFs \/ OpenKernel \/ LoadElf \/ AllocInfo \/ Graphics \/ FindSerial
  \/ SizeMap \/ AllocMap \/ GetMap \/ PrintInfo \/ CheckEl \/ Announce \/ Exit

Spec == Init /\ [][Next]_vars

-----------------------------------------------------------------------------

\* The map has grown since its size was asked for by no more than the slack.
WithinSlack == fw.ndesc <= buf.need + SLACK

(* The kernel is entered only after the boot services are gone, and with   *)
(* the memory map as it was when they went, although the map was           *)
(* allocated, taken and printed in between: the slack that efi_main adds   *)
(* is what makes the unchecked GetMemoryMap succeed (main.c:443-494).      *)
HandOver ==
  pc = "kernel" =>
    /\ ~fw.alive
    /\ WithinSlack => buf.version = fw.version /\ info.size = fw.ndesc /\ info.size <= buf.cap

(* efi_main gives up only for a cause: a service failed, the level is      *)
(* wrong, or the console changed the map after it was taken.  Its own      *)
(* allocations, as long as the slack holds them, never make                *)
(* ExitBootServices refuse the key, and it returns only while the boot     *)
(* services are there to return to (main.c:372-492).                       *)
ReturnsForCause ==
  pc = "returned" => fw.alive /\ (cause # {} \/ ~WithinSlack)

\* The SPCR tables that the ACPI 2.0 entries lead to, through a usable XSDT.
NewSpcrs ==
  {t \in UNION {Range(config[k].rsdp.xsdt.entry) :
                  k \in {j \in 1 .. Len(config) : config[j].guid = "ACPI 2.0"}} :
     t.sig = "SPCR"}

\* They are sound: nothing is looked for in the RSDT instead.
Sound20 ==
  \A k \in 1 .. Len(config) : config[k].guid = "ACPI 2.0" =>
     /\ config[k].rsdp.sig = TRUE /\ config[k].rsdp.rev >= 2
     /\ Usable(config[k].rsdp.xsdt)

(* The kernel gets the serial port of the newest ACPI description, also    *)
(* behind older entries, other tables and empty slots (acpi.c:6-122,       *)
(* main.c:23-82).                                                          *)
NewestUartUsed ==
  pc = "kernel" /\ Sound20 /\ NewSpcrs # {} =>
    \E t \in NewSpcrs : info.serial.base = t.base /\ info.serial.model = t.model
=============================================================================
