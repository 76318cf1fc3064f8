----------------------------- MODULE EfiProofs -----------------------------
(***************************************************************************)
(* The memory map and the serial port that efi_main hands to the kernel,   *)
(* for every slack, whatever allocations add to the map and for every      *)
(* configuration table.                                                    *)
(***************************************************************************)
EXTENDS EfiBoot, WellFoundedInduction, TLAPS

TypeInv ==
  /\ fw \in [alive : BOOLEAN, version : Nat, ndesc : Nat]
  /\ buf \in [need : Nat, cap : Nat, version : Int]
  /\ key \in Int /\ key <= fw.version
  /\ DOMAIN info = {"fb", "serial", "size"}

\* The steps that have the size of the map, and those that have the map.
Sized == {"alloc", "map", "print", "el", "announce", "exit", "kernel"}
Taken == {"print", "el", "announce", "exit"}

\* A map that the firmware still has is in the buffer, if it fits.
MapHeld ==
  key = fw.version =>
    info.size = fw.ndesc /\ (fw.ndesc <= buf.cap => buf.version = fw.version)

\* Unless there is a cause to return, the key is the firmware's.
KeyCurrent == cause = {} /\ WithinSlack => key = fw.version

IInv ==
  /\ TypeInv /\ HandOver /\ ReturnsForCause
  /\ pc # "kernel" => fw.alive
  /\ pc \in Sized => buf.cap = buf.need + SLACK
  /\ pc \in Taken => MapHeld /\ KeyCurrent

LEMMA InitIInv == Init => IInv
BY EfiAssumption
   DEF Init, IInv, TypeInv, HandOver, ReturnsForCause, Sized, Taken, Unset

\* Steps before the size of the map is asked for.
LEMMA Early ==
  ASSUME IInv, TypeInv', fw'.alive = fw.alive, pc # "kernel",
         pc' \notin Sized \cup {"returned"}
  PROVE  IInv'
BY DEF IInv, HandOver, ReturnsForCause, Sized, Taken

LEMMA GivesUp ==
  ASSUME IInv, TypeInv', fw'.alive = fw.alive, pc # "kernel", NEW why, Returns(why)
  PROVE  IInv'
BY DEF IInv, HandOver, ReturnsForCause, Sized, Taken, Returns

LEMMA AllocatesType ==
  ASSUME TypeInv, NEW g \in Growth, Allocates(g)
  PROVE  /\ fw' \in [alive : BOOLEAN, version : Nat, ndesc : Nat]
         /\ fw'.alive = fw.alive /\ fw'.version = fw.version + 1
<1>1. g \in Nat
  BY EfiAssumption
<1>2. fw.version + 1 \in Nat /\ fw.ndesc + g \in Nat
  BY <1>1 DEF TypeInv
<1>. QED BY <1>2 DEF TypeInv, Allocates

LEMMA PrintsIInv ==
  ASSUME IInv, NEW next, Prints(next), pc \in Taken, next \in {"el", "exit"}
  PROVE  IInv'
<1>1. CASE UNCHANGED <<fw, cause>>
  BY <1>1 DEF IInv, TypeInv, HandOver, ReturnsForCause, Sized, Taken, Prints, MapHeld,
    KeyCurrent, WithinSlack
<1>2. ASSUME NEW g \in Growth, Allocates(g), cause' = cause \cup {"console"} PROVE IInv'
  <2>1. /\ fw' \in [alive : BOOLEAN, version : Nat, ndesc : Nat]
        /\ fw'.alive = fw.alive /\ fw'.version = fw.version + 1
    BY <1>2, AllocatesType DEF IInv
  <2>2. TypeInv' /\ key' # fw'.version
    BY <2>1 DEF IInv, TypeInv, Prints
  <2>3. cause' # {}
    BY <1>2
  <2>. QED BY <2>1, <2>2, <2>3 DEF IInv, HandOver, ReturnsForCause, Sized, Taken,
    Prints, MapHeld, KeyCurrent
<1>. QED BY <1>1, <1>2 DEF Prints

LEMMA NextIInv == IInv /\ [Next]_vars => IInv'
<1>. SUFFICES ASSUME IInv, [Next]_vars PROVE IInv'
  OBVIOUS
<1>1. CASE LocateFs
  <2>1. TypeInv' BY <1>1 DEF LocateFs, IInv, TypeInv
  <2>. QED BY <1>1, <2>1, Early, GivesUp DEF LocateFs, Boots, Sized
<1>2. CASE OpenKernel
  <2>1. TypeInv' BY <1>2 DEF OpenKernel, IInv, TypeInv
  <2>. QED BY <1>2, <2>1, Early, GivesUp DEF OpenKernel, Boots, Sized
<1>3. CASE LoadElf
  <2>1. TypeInv' /\ fw'.alive = fw.alive
    BY <1>3, AllocatesType DEF LoadElf, IInv, TypeInv
  <2>. QED BY <1>3, <2>1, Early, GivesUp DEF LoadElf, Boots, Sized
<1>4. CASE AllocInfo
  <2>1. DOMAIN info' = {"fb", "serial", "size"}
    BY <1>4 DEF AllocInfo
  <2>2. TypeInv' /\ fw'.alive = fw.alive
    BY <1>4, <2>1, AllocatesType DEF AllocInfo, IInv, TypeInv
  <2>. QED BY <1>4, <2>2, Early DEF AllocInfo, Boots, Sized
<1>5. CASE Graphics
  <2>1. TypeInv' BY <1>5 DEF Graphics, IInv, TypeInv
  <2>. QED BY <1>5, <2>1, Early DEF Graphics, Boots, Sized
<1>6. CASE FindSerial
  <2>1. TypeInv' BY <1>6 DEF FindSerial, IInv, TypeInv
  <2>. QED BY <1>6, <2>1, Early DEF FindSerial, Boots, Sized
<1>7. CASE SizeMap
  <2>1. fw.ndesc \in Nat /\ fw.ndesc + SLACK \in Nat
    BY EfiAssumption DEF IInv, TypeInv
  <2>2. /\ buf' \in [need : Nat, cap : Nat, version : Int]
        /\ buf'.cap = buf'.need + SLACK
    BY <1>7, <2>1 DEF SizeMap, IInv, TypeInv
  <2>3. TypeInv'
    BY <1>7, <2>2 DEF SizeMap, IInv, TypeInv
  <2>. QED BY <1>7, <2>2, <2>3 DEF SizeMap, Boots, IInv, HandOver, ReturnsForCause, Sized,
    Taken
<1>8. CASE AllocMap
  <2>1. TypeInv' /\ fw'.alive = fw.alive
    BY <1>8, AllocatesType DEF AllocMap, IInv, TypeInv
  <2>. QED BY <1>8, <2>1 DEF AllocMap, Boots, IInv, HandOver, ReturnsForCause, Sized, Taken
<1>9. CASE GetMap
  <2>1. TypeInv'
    BY <1>9 DEF GetMap, IInv, TypeInv
  <2>2. MapHeld'
    BY <1>9 DEF GetMap, IInv, TypeInv, MapHeld
  <2>3. KeyCurrent'
    BY <1>9, EfiAssumption DEF GetMap, Boots, IInv, TypeInv, KeyCurrent, WithinSlack, Sized
  <2>. QED BY <1>9, <2>1, <2>2, <2>3 DEF GetMap, Boots, IInv, TypeInv, HandOver,
    ReturnsForCause, Sized, Taken
<1>10. CASE PrintInfo
  BY <1>10, PrintsIInv DEF PrintInfo, Taken
<1>11. CASE CheckEl
  <2>1. TypeInv' BY <1>11 DEF CheckEl, IInv, TypeInv
  <2>2. CASE Boots("announce")
    BY <1>11, <2>1, <2>2 DEF CheckEl, Boots, IInv, HandOver, ReturnsForCause, Sized, Taken,
      MapHeld, KeyCurrent, WithinSlack
  <2>. QED BY <1>11, <2>1, <2>2, GivesUp DEF CheckEl
<1>12. CASE Announce
  BY <1>12, PrintsIInv DEF Announce, Taken
<1>13. CASE Exit
  <2>1. CASE key = fw.version /\ Boots("kernel") /\ fw' = [fw EXCEPT !.alive = FALSE]
    <3>1. TypeInv' /\ ~fw'.alive /\ fw'.version = fw.version /\ fw'.ndesc = fw.ndesc
      BY <1>13, <2>1 DEF Exit, IInv, TypeInv
    <3>2. HandOver'
      BY <1>13, <2>1, <3>1, EfiAssumption DEF Exit, IInv, TypeInv, Sized, Taken, HandOver,
        MapHeld, WithinSlack
    <3>. QED BY <1>13, <2>1, <3>1, <3>2 DEF Exit, Boots, IInv, ReturnsForCause, Sized, Taken
  <2>2. CASE key # fw.version /\ Boots("returned") /\ UNCHANGED fw
    BY <1>13, <2>2 DEF Exit, Boots, IInv, TypeInv, HandOver, ReturnsForCause, Sized, Taken,
      KeyCurrent, WithinSlack
  <2>. QED BY <1>13, <2>1, <2>2 DEF Exit
<1>14. CASE UNCHANGED vars
  BY <1>14 DEF vars, IInv, TypeInv, HandOver, ReturnsForCause, MapHeld, KeyCurrent, WithinSlack
<1>. QED BY <1>1, <1>2, <1>3, <1>4, <1>5, <1>6, <1>7, <1>8, <1>9, <1>10, <1>11, <1>12,
  <1>13, <1>14 DEF Next

\* The kernel is entered after the boot services are gone, with the memory map
\* they went with (main.c:443-494).
THEOREM MapIsCurrent == Spec => []HandOver
<1>1. IInv => HandOver
  BY DEF IInv
<1>. QED BY InitIInv, NextIInv, <1>1, PTL DEF Spec

\* efi_main gives up for a cause only, while the boot services are there to
\* return to (main.c:372-492).
THEOREM GivesUpForCause == Spec => []ReturnsForCause
<1>1. IInv => ReturnsForCause
  BY DEF IInv
<1>. QED BY InitIInv, NextIInv, <1>1, PTL DEF Spec

-----------------------------------------------------------------------------
(***************************************************************************)
(* The serial port.  The searches stop at the first entry that fits, which *)
(* exists when any does.                                                   *)
(***************************************************************************)

LEMMA MinIsLeast ==
  ASSUME NEW S \in SUBSET Nat, S # {}
  PROVE  Min(S) \in S /\ \A y \in S : Min(S) <= y
<1> DEFINE R == {ss \in Nat \X Nat : ss[1] < ss[2]}
<1>1. R = OpToRel(<, Nat)
  BY DEF OpToRel
<1>2. IsWellFoundedOn(R, Nat)
  BY <1>1, NatLessThanWellFounded
<1>3. PICK x \in S : \A y \in S : <<y, x>> \notin R
  BY <1>2, WFMin
<1>4. ASSUME NEW y \in S PROVE ~(y < x)
  <2>1. y < x => <<y, x>> \in R
    OBVIOUS
  <2> QED BY <1>3, <2>1
<1>5. \A y \in S : x <= y
  <2> TAKE y \in S
  <2>1. x \in Nat /\ y \in Nat
    OBVIOUS
  <2> HIDE DEF R
  <2> QED BY <1>4, <2>1
<1> HIDE DEF R
<1> QED BY <1>5 DEF Min

LEMMA IsSequence ==
  ASSUME NEW S, NEW s \in Seq(S)
  PROVE  Len(s) \in Nat /\ DOMAIN s = 1 .. Len(s) /\ 1 .. Len(s) \subseteq Nat /\ 0 \notin 1 .. Len(s)
OBVIOUS

\* FindAcpiTable finds the ACPI 2.0 entry, wherever it stands.
LEMMA FindsNew ==
  ASSUME NEW c, WellFormed(c), NEW k \in DOMAIN c, c[k].guid = "ACPI 2.0"
  PROVE  FindAcpiTable(c) = c[k].rsdp
<1> DEFINE I == {j \in 1 .. Len(c) : c[j].guid = "ACPI 2.0"}
<1>0. c \in Seq(Range(c))
  BY DEF WellFormed
<1>1. Len(c) \in Nat /\ DOMAIN c = 1 .. Len(c)
  BY <1>0, IsSequence
<1>2. I \in SUBSET Nat /\ k \in I
  <2>1. I \subseteq 1 .. Len(c) /\ 1 .. Len(c) \subseteq Nat
    BY <1>0, IsSequence
  <2> QED BY <1>1, <2>1
<1>3. Min(I) \in I
  BY <1>2, MinIsLeast
<1>4. Min(I) = k /\ k # 0
  <2>1. \A j \in DOMAIN c : c[j].guid = "ACPI 2.0" => j = k
    BY DEF WellFormed
  <2>2. Min(I) \in DOMAIN c /\ c[Min(I)].guid = "ACPI 2.0"
    BY <1>1, <1>3
  <2> HIDE DEF I
  <2>3. 0 \notin DOMAIN c
    BY <1>0, IsSequence
  <2> QED BY <2>1, <2>2, <2>3, Zenon
<1>5. SelectInSeq(c, LAMBDA e : e.guid = "ACPI 2.0") = k
  BY <1>2, <1>4 DEF SelectInSeq
<1> QED BY <1>4, <1>5 DEF FindAcpiTable, FirstWith

\* Search finds a table with the signature when the root table has one.
LEMMA SearchFinds ==
  ASSUME NEW root, root.entry \in Seq(Range(root.entry)),
         NEW t \in Range(root.entry), t.sig = "SPCR"
  PROVE  /\ Search(root, "SPCR") \in Range(root.entry)
         /\ Search(root, "SPCR").sig = "SPCR" /\ Search(root, "SPCR") # NULL
<1> DEFINE s == root.entry
           I == {j \in 1 .. Len(s) : s[j] # NULL /\ s[j].sig = "SPCR"}
<1>1. Len(s) \in Nat /\ DOMAIN s = 1 .. Len(s)
  OBVIOUS
<1>2. PICK k \in DOMAIN s : t = s[k]
  BY DEF Range
<1>3. t # NULL
  BY DEF NULL
<1>4. I \in SUBSET Nat /\ k \in I
  BY <1>1, <1>2, <1>3
<1>5. Min(I) \in I
  BY <1>4, MinIsLeast
<1>6. SelectInSeq(s, LAMBDA e : e # NULL /\ e.sig = "SPCR") = Min(I)
  BY <1>4 DEF SelectInSeq
<1> DEFINE x == Min(I)
<1>7. Search(root, "SPCR") = s[x]
  <2>1. x # 0
    BY <1>5
  <2>2. Search(root, "SPCR") = FirstWith(s, LAMBDA e : e # NULL /\ e.sig = "SPCR", NULL)
    BY DEF Search
  <2> HIDE DEF x
  <2>3. SelectInSeq(s, LAMBDA e : e # NULL /\ e.sig = "SPCR") = x
    BY <1>6 DEF x
  <2> QED BY <2>1, <2>2, <2>3 DEF FirstWith
<1> QED BY <1>1, <1>5, <1>7 DEF Range

\* What NewestUartUsed says of a serial port that was found in config.
Newest(serial) ==
  Sound20 /\ NewSpcrs # {} => \E t \in NewSpcrs : serial.base = t.base /\ serial.model = t.model

LEMMA FindsNewest ==
  ASSUME config \in Configs, NEW m
  PROVE  Newest(find_uart(config, m))
<1> SUFFICES ASSUME Sound20, NewSpcrs # {}
             PROVE  \E t \in NewSpcrs : /\ find_uart(config, m).base = t.base
                                        /\ find_uart(config, m).model = t.model
  BY DEF Newest
<1>1. WellFormed(config)
  BY EfiAssumption
<1>2. Len(config) \in Nat /\ DOMAIN config = 1 .. Len(config)
  <2>1. config \in Seq(Range(config))
    BY <1>1 DEF WellFormed
  <2> QED BY <2>1
<1>3. PICK t : /\ t.sig = "SPCR"
               /\ \E k \in 1 .. Len(config) :
                    config[k].guid = "ACPI 2.0" /\ t \in Range(config[k].rsdp.xsdt.entry)
  BY DEF NewSpcrs
<1>4. PICK k \in 1 .. Len(config) :
        config[k].guid = "ACPI 2.0" /\ t \in Range(config[k].rsdp.xsdt.entry)
  BY <1>3
<1> DEFINE r == config[k].rsdp
           u == Search(r.xsdt, "SPCR")
<1>5. r # NULL /\ r.xsdt.entry \in Seq(Range(r.xsdt.entry))
  BY <1>1, <1>2, <1>4 DEF WellFormed
<1>6. r.sig = TRUE /\ r.rev >= 2 /\ Usable(r.xsdt)
  BY <1>4 DEF Sound20
<1>7. FindAcpiTable(config) = r
  BY <1>1, <1>2, <1>4, FindsNew
<1>8. u \in Range(r.xsdt.entry) /\ u.sig = "SPCR" /\ u # NULL
  BY <1>3, <1>4, <1>5, SearchFinds
<1>9. u \in NewSpcrs
  BY <1>4, <1>8 DEF NewSpcrs
<1> HIDE DEF r, u
<1>10. FindAcpiTableBySignature(config, "SPCR") = u
  BY <1>5, <1>6, <1>7 DEF FindAcpiTableBySignature, FindInRsdp, u
<1>11. find_uart(config, m).base = u.base /\ find_uart(config, m).model = u.model
  BY <1>8, <1>10 DEF find_uart, Serial
<1> QED BY <1>9, <1>11

SInv ==
  /\ config \in Configs
  /\ DOMAIN info = {"fb", "serial", "size"}
  /\ pc \in Sized \cup {"size"} => Newest(info.serial)

LEMMA InitSInv == Init => SInv
BY DEF Init, SInv, Sized

LEMMA NextSInv == SInv /\ [Next]_vars => SInv'
<1> SUFFICES ASSUME SInv, [Next]_vars PROVE SInv'
  OBVIOUS
<1>1. config' = config
  BY DEF Next, vars, LocateFs, OpenKernel, LoadElf, AllocInfo, Graphics, FindSerial, SizeMap,
    AllocMap, GetMap, PrintInfo, CheckEl, Announce, Exit, Boots, Returns, Prints
<1>2. ASSUME NEW x, Newest(x), info'.serial = x PROVE Newest(info.serial)'
  <2>1. Sound20' <=> Sound20
    BY <1>1 DEF Sound20
  <2>2. NewSpcrs' = NewSpcrs
    BY <1>1 DEF NewSpcrs
  <2> QED BY <1>2, <2>1, <2>2 DEF Newest
<1>3. CASE UNCHANGED info /\ (pc' \in Sized \cup {"size"} => pc \in Sized \cup {"size"})
  BY <1>1, <1>2, <1>3 DEF SInv
<1>4. CASE AllocInfo
  BY <1>1, <1>4 DEF AllocInfo, Boots, SInv, Sized
<1>5. CASE Graphics
  BY <1>1, <1>5 DEF Graphics, Boots, SInv, Sized
<1>6. CASE FindSerial
  <2>1. PICK m \in Models : info' = [info EXCEPT !.serial = find_uart(config, m)]
    BY <1>6 DEF FindSerial
  <2>2. info'.serial = find_uart(config, m) /\ DOMAIN info' = {"fb", "serial", "size"}
    BY <2>1 DEF SInv
  <2>3. Newest(find_uart(config, m))
    BY FindsNewest DEF SInv
  <2> QED BY <1>1, <1>2, <2>2, <2>3 DEF SInv
<1>7. CASE GetMap
  <2>1. info'.serial = info.serial /\ DOMAIN info' = {"fb", "serial", "size"}
    BY <1>7 DEF GetMap, SInv
  <2>2. Newest(info.serial)
    BY <1>7 DEF GetMap, SInv, Sized
  <2> QED BY <1>1, <1>2, <2>1, <2>2 DEF SInv
<1>8. CASE LocateFs \/ OpenKernel \/ LoadElf \/ SizeMap \/ AllocMap
  BY <1>3, <1>8 DEF LocateFs, OpenKernel, LoadElf, SizeMap, AllocMap, Boots, Returns, Sized
<1>9. CASE PrintInfo \/ CheckEl \/ Announce \/ Exit
  BY <1>3, <1>9 DEF PrintInfo, CheckEl, Announce, Exit, Prints, Boots, Returns, Sized
<1>10. CASE UNCHANGED vars
  BY <1>3, <1>10 DEF vars
<1> QED BY <1>4, <1>5, <1>6, <1>7, <1>8, <1>9, <1>10 DEF Next

\* The kernel gets the serial port of an SPCR table that the ACPI 2.0 entry
\* leads to, wherever in the firmware's tables it stands (acpi.c:6-122,
\* main.c:23-82).
THEOREM KernelGetsNewestUart == Spec => []NewestUartUsed
<1>1. SInv => NewestUartUsed
  BY DEF SInv, Sized, Newest, NewestUartUsed
<1>. QED BY InitSInv, NextSInv, <1>1, PTL DEF Spec
=============================================================================
