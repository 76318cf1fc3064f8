----------------------------- MODULE ElfProofs -----------------------------
(***************************************************************************)
(* load_elf, for every well-formed file and every layout of memory: it     *)
(* frees its buffers on every path, writes only to pages it allocated, and *)
(* leaves the image in memory as it was linked.                            *)
(***************************************************************************)
EXTENDS ElfLoader, WellFoundedInduction, TLAPS

\* The buffers that are allocated when load_elf is at l.
Alive(l) ==
  CASE l \in {"info", "size"} -> {"file_info"}
    [] l \in {"read", "check", "place", "load"} -> {"elf_data"}
    [] OTHER -> {}

IInv == pools = Alive(pc)

LEMMA InitIInv == Init => IInv
BY DEF Init, IInv, Alive

\* An error return frees the buffer that is alive.
LEMMA Fails ==
  ASSUME IInv, NEW buffer, FailFreeing(buffer), Alive(pc) = {buffer}
  PROVE  IInv'
BY DEF IInv, FailFreeing, Return, Alive

LEMMA NextIInv == IInv /\ [Next]_vars => IInv'
<1>. SUFFICES ASSUME IInv, [Next]_vars PROVE IInv'
  OBVIOUS
<1>1. CASE AllocInfo
  BY <1>1 DEF AllocInfo, IInv, Alive, Goto, Return
<1>2. CASE GetInfo
  <2>1. CASE FailFreeing("file_info")
    BY <1>2, <2>1, Fails DEF GetInfo, Alive
  <2>. QED BY <1>2, <2>1 DEF GetInfo, IInv, Alive, Goto
<1>3. CASE AllocElf
  BY <1>3 DEF AllocElf, IInv, Alive, Goto, Return
<1>4. ASSUME FailFreeing("elf_data"), pc \in {"read", "check", "place", "load"} PROVE IInv'
  BY <1>4, Fails DEF Alive
<1>5. CASE Read
  BY <1>4, <1>5 DEF Read, IInv, Alive, Goto
<1>6. CASE Check
  BY <1>4, <1>6 DEF Check, IInv, Alive, Goto
<1>7. CASE PlacePie
  <2>1. CASE Goto("load") /\ UNCHANGED pools
    BY <1>7, <2>1 DEF PlacePie, IInv, Alive, Goto
  <2>. QED BY <1>4, <1>7, <2>1 DEF PlacePie
<1>8. CASE PlaceExec
  BY <1>8 DEF PlaceExec, IInv, Alive, Goto
<1>9. CASE LoadSegment
  <2>1. CASE UNCHANGED <<pc, pools>>
    BY <2>1 DEF IInv
  <2>. QED BY <1>4, <1>9, <2>1 DEF LoadSegment
<1>10. CASE Finish
  BY <1>10 DEF Finish, IInv, Alive, Return
<1>11. CASE UNCHANGED vars
  BY <1>11 DEF IInv, vars
<1>. QED BY <1>1, <1>2, <1>3, <1>5, <1>6, <1>7, <1>8, <1>9, <1>10, <1>11 DEF Next

\* On each of its error returns, and on success, load_elf has freed the buffer
\* that was alive at that point (main.c:141-351).
THEOREM BuffersFreed == Spec => []PoolsFreed
<1>1. IInv => PoolsFreed
  BY DEF IInv, PoolsFreed, Alive
<1>. QED BY InitIInv, NextIInv, <1>1, PTL DEF Spec

-----------------------------------------------------------------------------
(***************************************************************************)
(* The image.  A cell of memory is looked at through its link address a,   *)
(* of which it is At(b, a) for a kernel moved by b: what clearing, copying *)
(* and relocating do to memory they do to link addresses, whatever b is    *)
(* and wherever the sums wrap.                                             *)
(***************************************************************************)

At(b, a) == (b + a) % TOP

Header(p) ==
  /\ p.p_vaddr \in Nat /\ p.p_memsz \in Nat /\ Len(p.data) \in 0 .. p.p_memsz
  /\ p.p_vaddr + p.p_memsz < TOP

\* What the file has for link address a, before relocation.
Raw(a, p) == IF a - p.p_vaddr < Len(p.data) THEN p.data[a - p.p_vaddr + 1] ELSE 0

\* Residues of the sums and differences that occur.
LEMMA Wrap ==
  ASSUME NEW x \in Int
  PROVE  /\ 0 <= x /\ x < TOP => x % TOP = x
         /\ TOP <= x /\ x < 2 * TOP => x % TOP = x - TOP
         /\ -TOP <= x /\ x < 0 => x % TOP = x + TOP
         /\ -(2 * TOP) <= x /\ x < -TOP => x % TOP = x + 2 * TOP
         /\ x % TOP \in 0 .. TOP - 1
<1>a. TOP \in Nat \ {0}
  BY ElfAssumption
<1>1. \A z \in Int : 0 <= z /\ z < TOP =>
        /\ z % TOP = z /\ (z + TOP) % TOP = z /\ (z - TOP) % TOP = z
        /\ (z - 2 * TOP) % TOP = z
  BY <1>a
<1>2. ASSUME TOP <= x, x < 2 * TOP PROVE x % TOP = x - TOP
  <2>1. 0 <= x - TOP /\ x - TOP < TOP /\ x - TOP \in Int /\ x = (x - TOP) + TOP
    BY <1>a, <1>2
  <2> QED BY <1>1, <2>1
<1>3. ASSUME -TOP <= x, x < 0 PROVE x % TOP = x + TOP
  <2>1. 0 <= x + TOP /\ x + TOP < TOP /\ x + TOP \in Int /\ x = (x + TOP) - TOP
    BY <1>a, <1>3
  <2> QED BY <1>1, <2>1
<1>4. ASSUME -(2 * TOP) <= x, x < -TOP PROVE x % TOP = x + 2 * TOP
  <2>1. 0 <= x + 2 * TOP /\ x + 2 * TOP < TOP /\ x + 2 * TOP \in Int
        /\ x = (x + 2 * TOP) - 2 * TOP
    BY <1>a, <1>4
  <2> QED BY <1>1, <2>1
<1>5. x % TOP \in 0 .. TOP - 1
  BY <1>a
<1> QED BY <1>1, <1>2, <1>3, <1>4, <1>5

\* At(b, a) as a case distinction.
LEMMA AtCases ==
  ASSUME NEW b \in Cells, NEW a \in Cells
  PROVE  /\ b \in Int /\ a \in Int /\ TOP \in Int /\ 0 <= a /\ a < TOP /\ 0 <= b /\ b < TOP
         /\ At(b, a) \in Cells
         /\ b + a < TOP => At(b, a) = b + a
         /\ b + a >= TOP => At(b, a) = b + a - TOP
<1>1. /\ b \in Int /\ a \in Int /\ TOP \in Int /\ 0 <= a /\ a < TOP /\ 0 <= b /\ b < TOP
  BY ElfAssumption DEF Cells
<1>2. b + a \in Int /\ 0 <= b + a /\ b + a < 2 * TOP
  BY <1>1
<1>3. /\ At(b, a) \in Cells
      /\ b + a < TOP => At(b, a) = b + a
      /\ b + a >= TOP => At(b, a) = b + a - TOP
  BY <1>1, <1>2, Wrap DEF At, Cells
<1> QED BY <1>1, <1>3

\* Different link addresses are different cells, and every cell has one.
LEMMA Injective ==
  ASSUME NEW b \in Cells, NEW a \in Cells, NEW d \in Cells, At(b, a) = At(b, d)
  PROVE  a = d
<1>1. /\ b \in Int /\ a \in Int /\ TOP \in Int /\ 0 <= a /\ a < TOP /\ 0 <= b /\ b < TOP
      /\ b + a < TOP => At(b, a) = b + a
      /\ b + a >= TOP => At(b, a) = b + a - TOP
  BY AtCases
<1>2. /\ d \in Int /\ 0 <= d /\ d < TOP
      /\ b + d < TOP => At(b, d) = b + d
      /\ b + d >= TOP => At(b, d) = b + d - TOP
  BY AtCases
<1> QED BY <1>1, <1>2

LEMMA Onto ==
  ASSUME NEW b \in Cells, NEW c \in Cells
  PROVE  \E a \in Cells : c = At(b, a)
<1>1. /\ b \in Int /\ c \in Int /\ TOP \in Int /\ 0 <= b /\ b < TOP /\ 0 <= c /\ c < TOP
  BY ElfAssumption DEF Cells
<1>2. CASE c >= b
  <2>1. c - b \in Cells /\ b + (c - b) = c /\ c < TOP
    BY <1>1, <1>2 DEF Cells
  <2>2. At(b, c - b) = c
    BY <2>1, AtCases
  <2> QED BY <2>1, <2>2
<1>3. CASE c < b
  <2>1. c - b + TOP \in Cells /\ b + (c - b + TOP) = c + TOP /\ c + TOP >= TOP
        /\ c + TOP - TOP = c
    BY <1>1, <1>3 DEF Cells
  <2>2. At(b, c - b + TOP) = c
    BY <2>1, AtCases
  <2> QED BY <2>1, <2>2
<1> QED BY <1>1, <1>2, <1>3

\* Where link address a lies from the load address of a segment.
LEMMA Offset ==
  ASSUME NEW b \in Cells, NEW v \in Cells, NEW a \in Cells, NEW l \in Nat, l + v < TOP
  PROVE  /\ v <= a => (At(b, a) - At(b, v)) % TOP = a - v
         /\ a < v => (At(b, a) - At(b, v)) % TOP = a - v + TOP
         /\ v + l <= a => (At(b, a) - (At(b, v) + l)) % TOP = a - v - l
         /\ a < v + l => (At(b, a) - (At(b, v) + l)) % TOP = a - v - l + TOP
<1> DEFINE x == At(b, a)
           y == At(b, v)
<1>1. /\ b \in Int /\ a \in Int /\ TOP \in Int /\ 0 <= a /\ a < TOP /\ 0 <= b /\ b < TOP
      /\ x \in Cells
      /\ b + a < TOP => x = b + a
      /\ b + a >= TOP => x = b + a - TOP
  BY AtCases
<1>2. /\ v \in Int /\ 0 <= v /\ v < TOP
      /\ y \in Cells
      /\ b + v < TOP => y = b + v
      /\ b + v >= TOP => y = b + v - TOP
  BY AtCases
<1> HIDE DEF x, y
<1>3. x - y \in Int /\ x - (y + l) \in Int /\ x \in Int /\ y \in Int
  BY <1>1, <1>2 DEF Cells
<1>4. \/ x - y = a - v \/ x - y = a - v - TOP \/ x - y = a - v + TOP
  BY <1>1, <1>2, <1>3
<1>5. -TOP < x - y /\ x - y < TOP /\ -(2 * TOP) < x - (y + l) /\ x - (y + l) < TOP
  BY <1>1, <1>2, <1>3 DEF Cells
<1>6. ASSUME NEW z \in Int, NEW w \in Int,
             z = w \/ z = w - TOP \/ z = w + TOP, -(2 * TOP) < z, z < TOP, -TOP <= w, w < TOP
      PROVE  (0 <= w => z % TOP = w) /\ (w < 0 => z % TOP = w + TOP)
  <2>1. /\ 0 <= z /\ z < TOP => z % TOP = z
        /\ -TOP <= z /\ z < 0 => z % TOP = z + TOP
        /\ -(2 * TOP) <= z /\ z < -TOP => z % TOP = z + 2 * TOP
    BY Wrap
  <2> DEFINE q == z % TOP
  <2> HIDE DEF q
  <2>2. /\ 0 <= z /\ z < TOP => q = z
        /\ -TOP <= z /\ z < 0 => q = z + TOP
        /\ -(2 * TOP) <= z /\ z < -TOP => q = z + 2 * TOP
    BY <2>1 DEF q
  <2>3. (0 <= w => q = w) /\ (w < 0 => q = w + TOP)
    BY <1>1, <1>6, <2>2
  <2> QED BY <2>3 DEF q
<1>7. a - v \in Int /\ -TOP <= a - v /\ a - v < TOP
  BY <1>1, <1>2
<1>8. a - v - l \in Int /\ -TOP <= a - v - l /\ a - v - l < TOP
  BY <1>1, <1>2
<1>9. \/ x - (y + l) = a - v - l \/ x - (y + l) = a - v - l - TOP \/ x - (y + l) = a - v - l + TOP
  BY <1>1, <1>2, <1>3, <1>4
<1>10. /\ 0 <= a - v => (x - y) % TOP = a - v
       /\ a - v < 0 => (x - y) % TOP = a - v + TOP
  <2>1. -(2 * TOP) < x - y
    BY <1>1, <1>3, <1>5
  <2> QED BY <1>3, <1>4, <1>5, <1>6, <1>7, <2>1
<1>11. /\ 0 <= a - v - l => (x - (y + l)) % TOP = a - v - l
       /\ a - v - l < 0 => (x - (y + l)) % TOP = a - v - l + TOP
  BY <1>3, <1>5, <1>6, <1>8, <1>9
<1>12. /\ v <= a <=> 0 <= a - v
       /\ a < v <=> a - v < 0
       /\ v + l <= a <=> 0 <= a - v - l
       /\ a < v + l <=> a - v - l < 0
  BY <1>1, <1>2
<1> QED BY <1>10, <1>11, <1>12, Zenon DEF x, y

\* What clearing and filling a segment do, by link address.
LEMMA SpanCells ==
  ASSUME NEW b \in Cells, NEW p, Header(p), NEW a \in Cells
  PROVE  /\ At(b, a) \in Cells
         /\ At(b, a) \in Span(At(b, p.p_vaddr), p.p_memsz) <=> a \in Extent(p)
         /\ At(b, a) \in Span(At(b, p.p_vaddr), Len(p.data))
              <=> a \in Extent(p) /\ a - p.p_vaddr < Len(p.data)
         /\ At(b, a) \in Span(At(b, p.p_vaddr) + Len(p.data), p.p_memsz - Len(p.data))
              <=> a \in Extent(p) /\ ~(a - p.p_vaddr < Len(p.data))
         /\ a \in Extent(p) => (At(b, a) - At(b, p.p_vaddr)) % TOP = a - p.p_vaddr
<1> DEFINE v == p.p_vaddr
           n == p.p_memsz
           l == Len(p.data)
           x == At(b, a)
           y == At(b, v)
           s == (x - y) % TOP
           t == (x - (y + l)) % TOP
<1>1. /\ v \in Nat /\ n \in Nat /\ l \in Nat /\ l <= n /\ v + n < TOP /\ l + v < TOP
      /\ TOP \in Nat /\ a \in Nat /\ a < TOP /\ v \in Cells
  BY ElfAssumption DEF Header, Cells
<1>2. x \in Cells
  BY AtCases
<1>3. Extent(p) = v .. v + n - 1
  BY DEF Extent
<1> HIDE DEF v, n, l
<1>4. /\ v <= a => s = a - v
      /\ a < v => s = a - v + TOP
      /\ v + l <= a => t = a - v - l
      /\ a < v + l => t = a - v - l + TOP
  BY <1>1, Offset
<1>5. /\ x \in Span(y, n) <=> s < n
      /\ x \in Span(y, l) <=> s < l
      /\ x \in Span(y + l, n - l) <=> t < n - l
  BY <1>2 DEF Span
<1> HIDE DEF s, t, x, y
<1>6. a \in v .. v + n - 1 <=> v <= a /\ a < v + n
  BY <1>1
<1>7. s < n <=> v <= a /\ a < v + n
  BY <1>1, <1>4
<1>8. s < l <=> v <= a /\ a < v + n /\ a - v < l
  BY <1>1, <1>4
<1>9. t < n - l <=> v <= a /\ a < v + n /\ ~(a - v < l)
  BY <1>1, <1>4
<1>10. v <= a => s = a - v
  BY <1>4
<1> QED BY <1>2, <1>3, <1>5, <1>6, <1>7, <1>8, <1>9, <1>10, Zenon DEF v, n, l, s, t, x, y

LEMMA FillCells ==
  ASSUME NEW b \in Cells, NEW p, Header(p), NEW a \in Cells, NEW m
  PROVE  /\ a \in Extent(p) => Fill(m, p, At(b, p.p_vaddr))[At(b, a)] = Raw(a, p)
         /\ a \notin Extent(p) => Fill(m, p, At(b, p.p_vaddr))[At(b, a)] = m[At(b, a)]
<1> DEFINE x == At(b, a)
           y == At(b, p.p_vaddr)
           l == Len(p.data)
           u == CopyMem(m, y, p.data)
           w == SetMem(u, y + l, p.p_memsz - l, 0)
<1>1. /\ x \in Cells
      /\ x \in Span(y, l) <=> a \in Extent(p) /\ a - p.p_vaddr < l
      /\ x \in Span(y + l, p.p_memsz - l) <=> a \in Extent(p) /\ ~(a - p.p_vaddr < l)
      /\ a \in Extent(p) => (x - y) % TOP = a - p.p_vaddr
  BY SpanCells
<1>2. u[x] = IF x \in Span(y, l) THEN p.data[((x - y) % TOP) + 1] ELSE m[x]
  BY <1>1 DEF CopyMem
<1>3. w[x] = IF x \in Span(y + l, p.p_memsz - l) THEN 0 ELSE u[x]
  BY <1>1 DEF SetMem
<1>4. Fill(m, p, y) = w
  BY DEF Fill
<1> HIDE DEF x, y, u, w, l
<1>5. CASE a \notin Extent(p)
  BY <1>1, <1>2, <1>3, <1>4, <1>5 DEF x, y
<1>6. CASE a \in Extent(p) /\ a - p.p_vaddr < l
  <2>1. w[x] = p.data[((x - y) % TOP) + 1]
    BY <1>1, <1>2, <1>3, <1>6
  <2>2. Raw(a, p) = p.data[a - p.p_vaddr + 1]
    BY <1>6 DEF Raw, l
  <2> QED BY <1>1, <1>4, <1>6, <2>1, <2>2 DEF x, y
<1>7. CASE a \in Extent(p) /\ ~(a - p.p_vaddr < l)
  <2>1. w[x] = 0
    BY <1>1, <1>3, <1>7
  <2>2. Raw(a, p) = 0
    BY <1>7 DEF Raw, l
  <2> QED BY <1>4, <1>7, <2>1, <2>2 DEF x, y
<1> QED BY <1>5, <1>6, <1>7

LEMMA ClearCells ==
  ASSUME NEW b \in Cells, NEW p, Header(p), NEW a \in Cells, NEW m
  PROVE  a \notin Extent(p) =>
           SetMem(m, At(b, p.p_vaddr), p.p_memsz, 0)[At(b, a)] = m[At(b, a)]
BY SpanCells DEF SetMem

\* Sets of naturals have a least element, and a greatest if they are bounded.
LEMMA MinIsLeast ==
  ASSUME NEW S \in SUBSET Nat, S # {}
  PROVE  Min(S) \in S /\ \A y \in S : Min(S) <= y
<1> DEFINE R == {ss \in Nat \X Nat : ss[1] < ss[2]}
<1>1. R = OpToRel(<, Nat)
  BY DEF OpToRel
<1>2. IsWellFoundedOn(R, Nat)
  BY <1>1, NatLessThanWellFounded
<1>3. PICK x \in S : \A y \in S : <<y, x>> \notin R
  BY <1>2, WFMin
<1>4. ASSUME NEW y \in S PROVE ~(y < x)
  <2>1. y < x => <<y, x>> \in R
    OBVIOUS
  <2> QED BY <1>3, <2>1
<1>5. \A y \in S : x <= y
  <2> TAKE y \in S
  <2>1. x \in Nat /\ y \in Nat
    OBVIOUS
  <2> HIDE DEF R
  <2> QED BY <1>4, <2>1
<1> HIDE DEF R
<1> QED BY <1>5 DEF Min

LEMMA MaxIsGreatest ==
  ASSUME NEW S \in SUBSET Nat, S # {}, NEW n \in Nat, \A y \in S : y <= n
  PROVE  Max(S) \in S /\ \A y \in S : Max(S) >= y
<1> DEFINE T == {n - y : y \in S}
<1>1. T \in SUBSET Nat /\ T # {}
  <2>1. \A y \in S : n - y \in Nat
    OBVIOUS
  <2> QED BY <2>1
<1>2. Min(T) \in T /\ \A t \in T : Min(T) <= t
  BY <1>1, MinIsLeast
<1>3. PICK x \in S : Min(T) = n - x
  BY <1>2
<1>4. \A y \in S : x >= y
  <2> TAKE y \in S
  <2>1. n - x <= n - y
    BY <1>2, <1>3
  <2>2. x \in Nat /\ y \in Nat
    OBVIOUS
  <2> HIDE DEF T
  <2> QED BY <2>1, <2>2
<1> HIDE DEF T
<1> QED BY <1>4 DEF Max

LEMMA Headers ==
  ASSUME NEW f \in Files
  PROVE  /\ Len(f.phdrs) \in Nat
         /\ \A k \in 1 .. Len(f.phdrs) : Header(f.phdrs[k])
         /\ \A p \in Loads(f) : Header(p) /\ p.p_type = "LOAD"
<1>1. WellFormed(f)
  BY ElfAssumption
<1>2. Len(f.phdrs) \in Nat /\ \A k \in 1 .. Len(f.phdrs) : Header(f.phdrs[k])
  BY <1>1 DEF WellFormed, Header
<1> QED BY <1>2 DEF Loads

\* The first pass bounds every segment.
LEMMA FirstPass ==
  ASSUME NEW f \in Files
  PROVE  /\ min_vaddr(f) \in Nat /\ total_size(f) \in Nat
         /\ \A p \in Loads(f) : /\ min_vaddr(f) <= p.p_vaddr
                                /\ p.p_vaddr + p.p_memsz - min_vaddr(f) <= total_size(f)
<1> DEFINE V == {TOP - 1} \cup {q.p_vaddr : q \in Loads(f)}
           E == {0} \cup {(q.p_vaddr + q.p_memsz) % TOP : q \in Loads(f)}
<1>a. TOP \in Nat /\ TOP > 0 /\ TOP - 1 \in Nat
  BY ElfAssumption
<1>1. \A q \in Loads(f) : Header(q)
  BY Headers
<1>2. \A q \in Loads(f) :
        /\ q.p_vaddr \in Nat /\ q.p_memsz \in Nat /\ q.p_vaddr + q.p_memsz \in Nat
        /\ (q.p_vaddr + q.p_memsz) % TOP = q.p_vaddr + q.p_memsz
        /\ q.p_vaddr + q.p_memsz <= TOP - 1
  <2> TAKE q \in Loads(f)
  <2>1. q.p_vaddr \in Nat /\ q.p_memsz \in Nat /\ q.p_vaddr + q.p_memsz < TOP
    BY <1>1 DEF Header
  <2> DEFINE e == q.p_vaddr + q.p_memsz
  <2>2. e \in Int /\ 0 <= e /\ e < TOP
    BY <2>1
  <2>3. e % TOP = e
    BY <2>2, Wrap
  <2> QED BY <1>a, <2>1, <2>3
<1>3. V \in SUBSET Nat /\ V # {} /\ \A p \in Loads(f) : p.p_vaddr \in V
  BY <1>a, <1>2
<1>4. /\ E \in SUBSET Nat /\ E # {} /\ \A y \in E : y <= TOP - 1
      /\ \A p \in Loads(f) : p.p_vaddr + p.p_memsz \in E
  <2>1. \A q \in Loads(f) : /\ (q.p_vaddr + q.p_memsz) % TOP \in Nat
                            /\ (q.p_vaddr + q.p_memsz) % TOP <= TOP - 1
    BY <1>2
  <2>2. \A p \in Loads(f) : p.p_vaddr + p.p_memsz \in E
    BY <1>2
  <2> QED BY <1>a, <2>1, <2>2
<1>5. min_vaddr(f) = Min(V) /\ max_vaddr(f) = Max(E)
  BY DEF min_vaddr, max_vaddr
<1> HIDE DEF V, E
<1>6. Min(V) \in V /\ \A y \in V : Min(V) <= y
  BY <1>3, MinIsLeast
<1>7. Max(E) \in E /\ \A y \in E : Max(E) >= y
  BY <1>a, <1>4, MaxIsGreatest
<1>8. /\ min_vaddr(f) \in Nat /\ max_vaddr(f) \in Nat /\ max_vaddr(f) <= TOP - 1
      /\ \A p \in Loads(f) :
           min_vaddr(f) <= p.p_vaddr /\ p.p_vaddr + p.p_memsz <= max_vaddr(f)
  <2>1. Min(V) \in Nat /\ Max(E) \in Nat /\ Max(E) <= TOP - 1
    BY <1>3, <1>4, <1>6, <1>7
  <2>2. ASSUME NEW p \in Loads(f)
        PROVE  Min(V) <= p.p_vaddr /\ p.p_vaddr + p.p_memsz <= Max(E)
    <3>1. Min(V) <= p.p_vaddr /\ Max(E) >= p.p_vaddr + p.p_memsz
      BY <1>3, <1>4, <1>6, <1>7
    <3> QED BY <1>2, <2>1, <3>1
  <2> QED BY <1>5, <2>1, <2>2
<1> DEFINE mn == min_vaddr(f)
           mx == max_vaddr(f)
<1>9. total_size(f) = (mx - mn) % TOP
  BY DEF total_size
<1> HIDE DEF mn, mx
<1>10. mn \in Nat /\ mx \in Nat /\ mx <= TOP - 1
  BY <1>8 DEF mn, mx
<1>11. (mx - mn) % TOP \in Nat
  BY <1>a, <1>10
<1>12. ASSUME NEW p \in Loads(f)
       PROVE  p.p_vaddr + p.p_memsz - mn <= (mx - mn) % TOP
  <2>1. mn <= p.p_vaddr /\ p.p_vaddr + p.p_memsz <= mx
    BY <1>8 DEF mn, mx
  <2>2. p.p_vaddr \in Nat /\ p.p_memsz \in Nat
    BY <1>2
  <2>3. mx - mn \in Int /\ 0 <= mx - mn /\ mx - mn < TOP
    BY <1>a, <1>10, <2>1, <2>2
  <2>4. (mx - mn) % TOP = mx - mn
    BY <2>3, Wrap
  <2> QED BY <1>10, <2>1, <2>2, <2>4
<1> QED BY <1>8, <1>9, <1>11, <1>12 DEF mn

LEMMA PagesSuffice ==
  ASSUME NEW n \in Nat
  PROVE  EFI_SIZE_TO_PAGES(n) \in Nat /\ n <= EFI_SIZE_TO_PAGES(n) * PAGE
BY ElfAssumption DEF EFI_SIZE_TO_PAGES

\* Wherever the pages are, the segments of a file that is moved lie in them.
LEMMA PlacedInside ==
  ASSUME NEW f \in Files, NEW addr \in Cells, NEW n \in Nat, addr + n <= TOP,
         total_size(f) <= n, NEW p \in Loads(f), NEW a \in Extent(p)
  PROVE  /\ (addr - min_vaddr(f)) % TOP \in Cells
         /\ a \in Cells
         /\ At((addr - min_vaddr(f)) % TOP, a) \in Span(addr, n)
<1> DEFINE mn == min_vaddr(f)
           b == (addr - mn) % TOP
<1>a. TOP \in Nat /\ TOP > 0 /\ addr \in Nat /\ addr < TOP
  BY ElfAssumption DEF Cells
<1>1. /\ mn \in Nat /\ mn <= p.p_vaddr /\ p.p_vaddr + p.p_memsz - mn <= total_size(f)
      /\ total_size(f) \in Nat
  BY FirstPass
<1>2. p.p_vaddr \in Nat /\ p.p_memsz \in Nat /\ p.p_vaddr + p.p_memsz < TOP
  BY Headers DEF Header
<1>3. a \in Nat /\ p.p_vaddr <= a /\ a < p.p_vaddr + p.p_memsz
  BY <1>2 DEF Extent
<1>4. mn <= a /\ a - mn < n /\ a < TOP /\ a \in Cells /\ mn < TOP
  BY <1>a, <1>1, <1>2, <1>3 DEF Cells
<1> HIDE DEF mn
<1>5. addr - mn \in Int /\ -TOP <= addr - mn /\ addr - mn < TOP
  BY <1>a, <1>1, <1>4
<1>6. /\ 0 <= addr - mn => b = addr - mn
      /\ addr - mn < 0 => b = addr - mn + TOP
      /\ b \in 0 .. TOP - 1
  BY <1>5, Wrap
<1> HIDE DEF b
<1>7. b \in Cells /\ b \in Int
  BY <1>6, <1>a DEF Cells
<1>8. At(b, a) = addr + (a - mn)
  <2>1. /\ b + a < TOP => At(b, a) = b + a
        /\ b + a >= TOP => At(b, a) = b + a - TOP
    BY <1>4, <1>7, AtCases
  <2> QED BY <1>a, <1>1, <1>3, <1>4, <1>6, <1>7, <2>1
<1>9. At(b, a) \in Cells
  BY <1>4, <1>7, AtCases
<1>10. (At(b, a) - addr) % TOP = a - mn
  <2>1. a - mn \in Int /\ 0 <= a - mn /\ a - mn < TOP
    BY <1>a, <1>1, <1>3, <1>4
  <2>2. (a - mn) % TOP = a - mn
    BY <2>1, Wrap
  <2>3. At(b, a) - addr = a - mn
    BY <1>a, <1>1, <1>3, <1>8
  <2> QED BY <2>2, <2>3
<1>11. At(b, a) \in Span(addr, n)
  BY <1>4, <1>9, <1>10 DEF Span
<1> QED BY <1>4, <1>7, <1>11 DEF b, mn

-----------------------------------------------------------------------------

\* Header k is in memory as the file has it, in pages that are owned.
Done(k) ==
  LET p == file.phdrs[k]
  IN  p.p_type = "LOAD" =>
        \A a \in Extent(p) : /\ At(base_addr, a) \in owned
                             /\ mem[At(base_addr, a)] = Raw(a, p)

\* The pages of a kernel that is moved hold all its segments.
Inside == \A p \in Loads(file) : \A a \in Extent(p) : At(base_addr, a) \in owned

Loading ==
  /\ i \in 1 .. Len(file.phdrs) + 1
  /\ is_pie => Inside
  /\ ~is_pie => base_addr = 0
  /\ \A k \in 1 .. i - 1 : Done(k)

LInv ==
  /\ file \in Files /\ base_addr \in Cells
  /\ WritesOwned
  /\ pc = "load" => Loading
  /\ status = "success" => pc = "returned"
  /\ ImageLoaded

LEMMA InitLInv == Init => LInv
<1> SUFFICES ASSUME Init PROVE LInv
  OBVIOUS
<1>1. 0 \in Cells
  BY ElfAssumption DEF Cells
<1>2. WritesOwned
  BY DEF Init, WritesOwned
<1> QED BY <1>1, <1>2 DEF Init, LInv, ImageLoaded

\* Steps that leave memory alone and do not start or finish the second pass.
LEMMA Keeps ==
  ASSUME LInv, UNCHANGED <<file, owned, mem, base_addr>>,
         pc' # "load", status' # "success"
  PROVE  LInv'
BY DEF LInv, WritesOwned, ImageLoaded

LEMMA FailKeeps ==
  ASSUME LInv, NEW buffer, FailFreeing(buffer)
  PROVE  LInv'
BY Keeps DEF FailFreeing, Return

LEMMA PlacePieLInv == LInv /\ PlacePie => LInv'
<1> SUFFICES ASSUME LInv, PlacePie PROVE LInv'
  OBVIOUS
<1> DEFINE n == EFI_SIZE_TO_PAGES(total_size(file)) * PAGE
<1>1. CASE FailFreeing("elf_data")
  BY <1>1, FailKeeps
<1>2. ASSUME NEW addr \in Cells, Free(addr, EFI_SIZE_TO_PAGES(total_size(file))),
             owned' = owned \cup Span(addr, n),
             mem' = SetMem(mem, addr, total_size(file), 0),
             base_addr' = (addr - min_vaddr(file)) % TOP,
             Goto("load"), i' = 1
      PROVE  LInv'
  <2>1. file \in Files /\ file' = file /\ pc' = "load" /\ status' = status /\ status # "success"
    BY <1>2 DEF LInv, Goto, PlacePie
  <2>2. total_size(file) \in Nat /\ min_vaddr(file) \in Nat
    BY <2>1, FirstPass
  <2>3. EFI_SIZE_TO_PAGES(total_size(file)) \in Nat /\ total_size(file) <= n
    BY <2>2, PagesSuffice
  <2>4. n \in Nat /\ addr + n <= TOP
    BY <1>2, <2>3, ElfAssumption DEF Free
  <2> HIDE DEF n
  <2>5. base_addr' \in Cells
    <3>1. addr - min_vaddr(file) \in Int
      BY <2>2 DEF Cells
    <3> QED BY <1>2, <3>1, Wrap DEF Cells
  <2>6. WritesOwned'
    <3> SUFFICES ASSUME NEW c \in Cells, mem'[c] # JUNK PROVE c \in owned'
      BY DEF WritesOwned
    <3>1. CASE c \in Span(addr, total_size(file))
      <4>1. (c - addr) % TOP < total_size(file)
        BY <3>1 DEF Span
      <4>2. (c - addr) % TOP \in Int
        BY ElfAssumption DEF Cells
      <4>3. (c - addr) % TOP < n
        BY <2>2, <2>3, <2>4, <4>1, <4>2
      <4> QED BY <1>2, <4>3 DEF Span
    <3>2. CASE c \notin Span(addr, total_size(file))
      <4>1. mem'[c] = mem[c]
        BY <1>2, <3>2 DEF SetMem
      <4> QED BY <1>2, <4>1 DEF LInv, WritesOwned
    <3> QED BY <3>1, <3>2
  <2>7. Inside'
    <3> SUFFICES ASSUME NEW p \in Loads(file), NEW a \in Extent(p)
                 PROVE  At(base_addr', a) \in owned'
      BY <2>1 DEF Inside, At
    <3>1. At((addr - min_vaddr(file)) % TOP, a) \in Span(addr, n)
      BY <2>1, <2>3, <2>4, PlacedInside
    <3> QED BY <1>2, <3>1
  <2>8. Loading'
    <3>1. 1 \in 1 .. Len(file.phdrs) + 1
      BY <2>1, Headers
    <3>2. is_pie'
      BY <2>1 DEF PlacePie, is_pie
    <3> QED BY <1>2, <2>1, <2>7, <3>1, <3>2 DEF Loading
  <2> QED BY <2>1, <2>5, <2>6, <2>8 DEF LInv, ImageLoaded
<1> QED BY <1>1, <1>2 DEF PlacePie

LEMMA PlaceExecLInv == LInv /\ PlaceExec => LInv'
<1> SUFFICES ASSUME LInv, PlaceExec PROVE LInv'
  OBVIOUS
<1>1. /\ file \in Files /\ file' = file /\ pc' = "load" /\ status' = status /\ status # "success"
      /\ base_addr' = 0 /\ i' = 1 /\ mem' = mem /\ owned' = owned
  BY DEF LInv, Goto, PlaceExec
<1>2. 0 \in Cells
  BY ElfAssumption DEF Cells
<1>3. Loading'
  <2>1. 1 \in 1 .. Len(file.phdrs) + 1
    BY <1>1, Headers
  <2>2. ~is_pie'
    BY <1>1 DEF PlaceExec, is_pie
  <2> QED BY <1>1, <2>1, <2>2 DEF Loading
<1>4. WritesOwned'
  BY <1>1 DEF LInv, WritesOwned
<1> QED BY <1>1, <1>2, <1>3, <1>4 DEF LInv, ImageLoaded

\* Filling segment i keeps the invariant when its cells are owned and none of
\* them belongs to a segment that is already in memory.
LEMMA FillLInv ==
  ASSUME LInv, pc = "load", i <= Len(file.phdrs), NEW p, p = file.phdrs[i], p.p_type = "LOAD",
         UNCHANGED <<file, pc, base_addr, status>>, i' = i + 1,
         owned \subseteq owned',
         \A a \in Extent(p) : At(base_addr, a) \in owned',
         \A a \in Cells :
           /\ a \in Extent(p) => mem'[At(base_addr, a)] = Raw(a, p)
           /\ a \notin Extent(p) => mem'[At(base_addr, a)] = mem[At(base_addr, a)],
         \A k \in 1 .. i - 1 :
           LET q == file.phdrs[k]
           IN  q.p_type = "LOAD" /\ q # p => Extent(q) \cap Extent(p) = {}
  PROVE  LInv'
<1>1. /\ file \in Files /\ base_addr \in Cells /\ WritesOwned /\ Loading
      /\ status # "success" /\ i \in Nat /\ i >= 1 /\ Len(file.phdrs) \in Nat
  BY Headers DEF LInv, Loading
<1>2. WritesOwned'
  <2> SUFFICES ASSUME NEW c \in Cells, mem'[c] # JUNK PROVE c \in owned'
    BY DEF WritesOwned
  <2>1. PICK a \in Cells : c = At(base_addr, a)
    BY <1>1, Onto
  <2>2. CASE a \in Extent(p)
    BY <2>1, <2>2
  <2>3. CASE a \notin Extent(p)
    <3>1. mem[c] # JUNK
      BY <2>1, <2>3
    <3> QED BY <1>1, <3>1 DEF WritesOwned
  <2> QED BY <2>2, <2>3
<1>3. ASSUME NEW k \in 1 .. i PROVE Done(k)'
  <2> DEFINE q == file.phdrs[k]
  <2>1. Header(q) /\ k \in 1 .. Len(file.phdrs)
    BY <1>1, Headers
  <2> SUFFICES ASSUME q.p_type = "LOAD", NEW a \in Extent(q)
               PROVE  /\ At(base_addr, a) \in owned'
                      /\ mem'[At(base_addr, a)] = Raw(a, q)
    BY DEF Done, At
  <2>2. a \in Cells
    BY <2>1, ElfAssumption DEF Header, Extent, Cells
  <2>3. CASE q = p
    BY <2>2, <2>3
  <2>4. CASE q # p
    <3>1. k \in 1 .. i - 1
      BY <1>1, <2>4
    <3>2. At(base_addr, a) \in owned /\ mem[At(base_addr, a)] = Raw(a, q)
      BY <1>1, <3>1 DEF Loading, Done
    <3>3. a \notin Extent(p)
      BY <2>4, <3>1
    <3> QED BY <2>2, <3>2, <3>3
  <2> QED BY <2>3, <2>4
<1>4. Loading'
  <2>1. i + 1 \in 1 .. Len(file.phdrs) + 1 /\ (i + 1) - 1 = i
    BY <1>1
  <2>2. is_pie' = is_pie
    BY DEF is_pie
  <2>3. is_pie => Inside'
    BY <1>1 DEF Loading, Inside, At
  <2>4. \A k \in 1 .. i' - 1 : Done(k)'
    BY <1>3, <2>1
  <2> QED BY <1>1, <2>1, <2>2, <2>3, <2>4 DEF Loading
<1> QED BY <1>1, <1>2, <1>4 DEF LInv, ImageLoaded

\* A header that is no segment is passed over.
LEMMA SkipLInv ==
  ASSUME LInv, pc = "load", i <= Len(file.phdrs), file.phdrs[i].p_type # "LOAD",
         UNCHANGED <<file, pc, pools, owned, mem, base_addr, status>>, i' = i + 1
  PROVE  LInv'
<1>1. /\ file \in Files /\ Loading /\ status # "success"
      /\ i \in Nat /\ i >= 1 /\ Len(file.phdrs) \in Nat
  BY Headers DEF LInv, Loading
<1>2. Loading'
  <2>1. i + 1 \in 1 .. Len(file.phdrs) + 1 /\ (i + 1) - 1 = i
    BY <1>1
  <2>2. ASSUME NEW k \in 1 .. i PROVE Done(k)'
    <3>1. CASE k = i
      BY <3>1 DEF Done
    <3>2. CASE k # i
      <4>1. k \in 1 .. i - 1
        BY <1>1, <3>2
      <4>2. Done(k)
        BY <1>1, <4>1 DEF Loading
      <4> QED BY <4>2 DEF Done, At
    <3> QED BY <3>1, <3>2
  <2>3. is_pie' = is_pie /\ (Inside => Inside')
    BY DEF is_pie, Inside, At
  <2>4. \A k \in 1 .. i' - 1 : Done(k)'
    BY <2>1, <2>2
  <2> QED BY <1>1, <2>1, <2>3, <2>4 DEF Loading
<1> QED BY <1>1, <1>2 DEF LInv, WritesOwned, ImageLoaded

LEMMA LoadSegmentLInv == LInv /\ LoadSegment => LInv'
<1> SUFFICES ASSUME LInv, LoadSegment PROVE LInv'
  OBVIOUS
<1> DEFINE p == file.phdrs[i]
           pages == EFI_SIZE_TO_PAGES(p.p_memsz)
           dest == (base_addr + p.p_vaddr) % TOP
<1>1. /\ file \in Files /\ base_addr \in Cells /\ Loading /\ pc = "load" /\ i <= Len(file.phdrs)
      /\ i \in Nat /\ i >= 1 /\ Len(file.phdrs) \in Nat
  BY Headers DEF LInv, Loading, LoadSegment
<1>2. Header(p) /\ i \in 1 .. Len(file.phdrs)
  BY <1>1, Headers
<1>3. p.p_vaddr \in Cells /\ dest = At(base_addr, p.p_vaddr)
  BY <1>2, ElfAssumption DEF Header, Cells, At
<1>4. \A k \in 1 .. i - 1 : k \in 1 .. Len(file.phdrs)
  BY <1>1
<1>5. CASE p.p_type # "LOAD" /\ i' = i + 1 /\ UNCHANGED <<file, pc, pools, owned, mem, base_addr, status>>
  BY <1>1, <1>5, SkipLInv
<1>6. CASE /\ p.p_type = "LOAD" /\ is_pie
           /\ mem' = Fill(mem, p, dest)
           /\ i' = i + 1 /\ UNCHANGED <<file, pc, pools, owned, base_addr, status>>
  <2>1. p \in Loads(file)
    BY <1>2, <1>6 DEF Loads
  <2>2. \A a \in Extent(p) : At(base_addr, a) \in owned'
    BY <1>1, <1>6, <2>1 DEF Loading, Inside
  <2>3. \A a \in Cells :
          /\ a \in Extent(p) => mem'[At(base_addr, a)] = Raw(a, p)
          /\ a \notin Extent(p) => mem'[At(base_addr, a)] = mem[At(base_addr, a)]
    <3> TAKE a \in Cells
    <3> HIDE DEF p, dest
    <3>1. /\ a \in Extent(p) => Fill(mem, p, At(base_addr, p.p_vaddr))[At(base_addr, a)] = Raw(a, p)
          /\ a \notin Extent(p) =>
               Fill(mem, p, At(base_addr, p.p_vaddr))[At(base_addr, a)] = mem[At(base_addr, a)]
      BY <1>1, <1>2, FillCells
    <3> QED BY <1>3, <1>6, <3>1
  <2>4. ASSUME NEW k \in 1 .. i - 1, file.phdrs[k].p_type = "LOAD", file.phdrs[k] # p
        PROVE  Extent(file.phdrs[k]) \cap Extent(p) = {}
    <3>1. file.phdrs[k] \in Loads(file)
      BY <1>4, <2>4 DEF Loads
    <3>2. WellFormed(file) /\ file.e_type = "DYN"
      BY <1>1, <1>6, ElfAssumption DEF is_pie
    <3> QED BY <2>1, <2>4, <3>1, <3>2 DEF WellFormed
  <2> QED BY <1>1, <1>6, <2>2, <2>3, <2>4, FillLInv
<1>7. CASE /\ p.p_type = "LOAD" /\ ~is_pie /\ Free(p.p_vaddr, pages)
           /\ owned' = owned \cup Span(p.p_vaddr, pages * PAGE)
           /\ mem' = Fill(SetMem(mem, dest, p.p_memsz, 0), p, dest)
           /\ i' = i + 1 /\ UNCHANGED <<file, pc, pools, base_addr, status>>
  <2>1. base_addr = 0
    BY <1>1, <1>7 DEF Loading
  <2>2. \A a \in Cells : At(base_addr, a) = a
    BY <2>1, ElfAssumption DEF At, Cells
  <2>3. Extent(p) \subseteq Cells /\ Extent(p) \subseteq Span(p.p_vaddr, pages * PAGE)
    <3> SUFFICES ASSUME NEW a \in Extent(p)
                 PROVE  a \in Cells /\ a \in Span(p.p_vaddr, pages * PAGE)
      OBVIOUS
    <3>1. p.p_vaddr \in Nat /\ p.p_memsz \in Nat /\ p.p_vaddr + p.p_memsz < TOP
      BY <1>2 DEF Header
    <3>2. pages \in Nat /\ p.p_memsz <= pages * PAGE /\ pages * PAGE \in Nat
      BY <3>1, PagesSuffice, ElfAssumption
    <3> DEFINE n == pages * PAGE
    <3> HIDE DEF n, pages
    <3>3. a \in Cells /\ a - p.p_vaddr \in Int /\ 0 <= a - p.p_vaddr /\ a - p.p_vaddr < TOP
          /\ a - p.p_vaddr < p.p_memsz
      BY <3>1, ElfAssumption DEF Extent, Cells
    <3>4. (a - p.p_vaddr) % TOP = a - p.p_vaddr
      BY <3>3, Wrap
    <3>5. a - p.p_vaddr < n
      BY <3>1, <3>2, <3>3 DEF n
    <3> QED BY <3>3, <3>4, <3>5 DEF Span, n
  <2>4. \A a \in Extent(p) : At(base_addr, a) \in owned'
    BY <1>7, <2>2, <2>3
  <2>5. ASSUME NEW a \in Cells
        PROVE  /\ a \in Extent(p) => mem'[At(base_addr, a)] = Raw(a, p)
               /\ a \notin Extent(p) => mem'[At(base_addr, a)] = mem[At(base_addr, a)]
    <3> DEFINE y == At(base_addr, p.p_vaddr)
               u == SetMem(mem, y, p.p_memsz, 0)
    <3> HIDE DEF p, dest
    <3>1. a \notin Extent(p) => u[At(base_addr, a)] = mem[At(base_addr, a)]
      BY <1>1, <1>2, ClearCells
    <3>2. mem' = Fill(u, p, y)
      BY <1>3, <1>7
    <3> HIDE DEF u
    <3>3. /\ a \in Extent(p) => Fill(u, p, y)[At(base_addr, a)] = Raw(a, p)
          /\ a \notin Extent(p) => Fill(u, p, y)[At(base_addr, a)] = u[At(base_addr, a)]
      BY <1>1, <1>2, FillCells
    <3> QED BY <3>1, <3>2, <3>3
  <2>6. ASSUME NEW k \in 1 .. i - 1, file.phdrs[k].p_type = "LOAD", file.phdrs[k] # p
        PROVE  Extent(file.phdrs[k]) \cap Extent(p) = {}
    <3>1. Done(k)
      BY <1>1 DEF Loading
    <3>2. \A a \in Extent(file.phdrs[k]) : At(base_addr, a) \in owned
      BY <2>6, <3>1 DEF Done
    <3>3. Extent(file.phdrs[k]) \subseteq Cells
      <4>1. Header(file.phdrs[k])
        BY <1>1, <1>4, Headers
      <4> QED BY <4>1, ElfAssumption DEF Header, Extent, Cells
    <3>4. Span(p.p_vaddr, pages * PAGE) \cap owned = {}
      BY <1>7 DEF Free
    <3> HIDE DEF pages
    <3> QED BY <2>2, <2>3, <3>2, <3>3, <3>4
  <2> QED BY <1>1, <1>7, <2>4, <2>5, <2>6, FillLInv
<1>8. CASE FailFreeing("elf_data")
  BY <1>8, FailKeeps
<1> QED BY <1>5, <1>6, <1>7, <1>8 DEF LoadSegment

\* The applied entries of a cell, counted by load or by link address.
LEMMA Hits ==
  ASSUME NEW f \in Files, f.e_type = "DYN", NEW b \in Cells, NEW a \in Cells
  PROVE  /\ {k \in Applied(f) : (b + f.rela[k].r_offset) % TOP = At(b, a)}
              = {k \in Applied(f) : f.rela[k].r_offset = a}
         /\ \A k \in Applied(f) : f.rela[k].r_offset = a => \E p \in Loads(f) : a \in Extent(p)
<1>1. \A k \in Applied(f) : \E p \in Loads(f) : f.rela[k].r_offset \in Extent(p)
  BY ElfAssumption DEF WellFormed
<1>2. ASSUME NEW k \in Applied(f)
      PROVE  (b + f.rela[k].r_offset) % TOP = At(b, a) <=> f.rela[k].r_offset = a
  <2> DEFINE r == f.rela[k].r_offset
  <2>1. PICK p \in Loads(f) : r \in Extent(p)
    BY <1>1
  <2>2. Header(p)
    BY Headers
  <2>3. r \in Cells
    BY <2>1, <2>2, ElfAssumption DEF Header, Extent, Cells
  <2> HIDE DEF r
  <2>4. At(b, r) = At(b, a) <=> r = a
    BY <2>3, Injective
  <2> QED BY <2>4 DEF At, r
<1> QED BY <1>1, <1>2

LEMMA FinishLInv == LInv /\ Finish => LInv'
<1> SUFFICES ASSUME LInv, Finish PROVE LInv'
  OBVIOUS
<1>1. /\ file \in Files /\ base_addr \in Cells /\ Loading /\ WritesOwned
      /\ i \in Nat /\ i >= 1 /\ Len(file.phdrs) \in Nat
  BY Headers DEF LInv, Loading, Finish
<1>2. /\ UNCHANGED <<file, owned, base_addr>> /\ pc' = "returned" /\ i - 1 >= Len(file.phdrs)
      /\ is_pie => mem' = Relocate(mem)
      /\ ~is_pie => mem' = mem
  BY <1>1 DEF Finish, Return
<1>3. ASSUME NEW p \in Loads(file), NEW a \in Extent(p)
      PROVE  /\ a \in Cells
             /\ At(base_addr, a) \in owned
             /\ mem[At(base_addr, a)] = Raw(a, p)
  <2>1. PICK k \in 1 .. Len(file.phdrs) : p = file.phdrs[k] /\ p.p_type = "LOAD"
    BY DEF Loads
  <2>2. Done(k)
    BY <1>1, <1>2 DEF Loading
  <2>3. Header(p)
    BY <1>1, Headers
  <2>4. a \in Cells
    BY <2>3, ElfAssumption DEF Header, Extent, Cells
  <2> QED BY <2>1, <2>2, <2>4 DEF Done
<1>4. CASE ~is_pie
  <2>1. WritesOwned'
    BY <1>1, <1>2, <1>4 DEF WritesOwned
  <2>2. ImageLoaded'
    <3> SUFFICES ASSUME NEW p \in Loads(file), NEW a \in Extent(p)
                 PROVE  mem'[At(base_addr, a)] = Linked(a, p)'
      BY <1>2 DEF ImageLoaded, At
    <3>1. ~is_pie'
      BY <1>2, <1>4 DEF is_pie
    <3>2. Linked(a, p)' = Raw(a, p)
      BY <3>1 DEF Linked, Raw
    <3> QED BY <1>2, <1>3, <1>4, <3>2
  <2> QED BY <1>1, <1>2, <2>1, <2>2 DEF LInv
<1>5. CASE is_pie
  <2> DEFINE H(a) == {k \in Applied(file) : file.rela[k].r_offset = a}
             G(c) == {k \in Applied(file) : (base_addr + file.rela[k].r_offset) % TOP = c}
  <2>0. file.e_type = "DYN"
    BY <1>5 DEF is_pie
  <2>1. ASSUME NEW a \in Cells
        PROVE  /\ G(At(base_addr, a)) = H(a)
               /\ H(a) # {} => \E p \in Loads(file) : a \in Extent(p)
    BY <1>1, <2>0, Hits
  <2>2. ASSUME NEW c \in Cells
        PROVE  /\ G(c) = {} => mem'[c] = mem[c]
               /\ G(c) # {} => mem'[c] = (base_addr + file.rela[Max(G(c))].r_addend) % TOP
    BY <1>2, <1>5 DEF Relocate
  <2> HIDE DEF G, H
  <2>3. WritesOwned'
    <3> SUFFICES ASSUME NEW c \in Cells, mem'[c] # JUNK PROVE c \in owned
      BY <1>2 DEF WritesOwned
    <3>1. PICK a \in Cells : c = At(base_addr, a)
      BY <1>1, Onto
    <3>2. CASE G(c) = {}
      BY <1>1, <2>2, <3>2 DEF WritesOwned
    <3>3. CASE G(c) # {}
      <4>1. PICK p \in Loads(file) : a \in Extent(p)
        BY <2>1, <3>1, <3>3
      <4> QED BY <1>3, <3>1, <4>1
    <3> QED BY <3>2, <3>3
  <2>4. ImageLoaded'
    <3> SUFFICES ASSUME NEW p \in Loads(file), NEW a \in Extent(p)
                 PROVE  mem'[At(base_addr, a)] = Linked(a, p)'
      BY <1>2 DEF ImageLoaded, At
    <3>1. a \in Cells /\ mem[At(base_addr, a)] = Raw(a, p)
      BY <1>3
    <3>2. At(base_addr, a) \in Cells
      BY <1>1, <3>1, AtCases
    <3>3. G(At(base_addr, a)) = H(a)
      BY <2>1, <3>1
    <3>4. CASE H(a) = {}
      <4>1. Linked(a, p)' = Raw(a, p)
        BY <1>2, <3>4 DEF Linked, Raw, H, is_pie
      <4> QED BY <2>2, <3>1, <3>2, <3>3, <3>4, <4>1
    <3>5. CASE H(a) # {}
      <4>1. Linked(a, p)' = (base_addr + file.rela[Max(H(a))].r_addend) % TOP
        BY <1>2, <1>5, <3>5 DEF Linked, H, is_pie
      <4> QED BY <2>2, <3>2, <3>3, <3>5, <4>1
    <3> QED BY <3>4, <3>5
  <2> QED BY <1>1, <1>2, <2>3, <2>4 DEF LInv
<1> QED BY <1>4, <1>5

LEMMA NextLInv == LInv /\ [Next]_vars => LInv'
<1> SUFFICES ASSUME LInv, [Next]_vars PROVE LInv'
  OBVIOUS
<1>1. CASE AllocInfo
  BY <1>1, Keeps DEF AllocInfo, Goto, Return, LInv
<1>2. CASE GetInfo
  BY <1>2, Keeps, FailKeeps DEF GetInfo, Goto, LInv
<1>3. CASE AllocElf
  BY <1>3, Keeps DEF AllocElf, Goto, Return, LInv
<1>4. CASE Read
  BY <1>4, Keeps, FailKeeps DEF Read, Goto, LInv
<1>5. CASE Check
  BY <1>5, Keeps, FailKeeps DEF Check, Goto, LInv
<1>6. CASE UNCHANGED vars
  <2>1. UNCHANGED <<file, pc, i, owned, mem, base_addr, status>>
    BY <1>6 DEF vars
  <2>2. Loading => Loading'
    <3>1. \A k : Done(k)' <=> Done(k)
      BY <2>1 DEF Done, At
    <3>2. Inside' <=> Inside
      BY <2>1 DEF Inside, At
    <3> QED BY <2>1, <3>1, <3>2 DEF Loading, is_pie
  <2>3. ImageLoaded => ImageLoaded'
    <3>1. \A a, p : Linked(a, p)' = Linked(a, p)
      BY <2>1 DEF Linked, is_pie
    <3> QED BY <2>1, <3>1 DEF ImageLoaded
  <2>4. WritesOwned => WritesOwned'
    BY <2>1 DEF WritesOwned
  <2> QED BY <2>1, <2>2, <2>3, <2>4 DEF LInv
<1> QED BY <1>1, <1>2, <1>3, <1>4, <1>5, <1>6,
           PlacePieLInv, PlaceExecLInv, LoadSegmentLInv, FinishLInv DEF Next

\* Wherever the firmware places the pages, and whatever segments and relocations
\* the file has, load_elf writes to no cell it has not allocated (main.c:243-332).
THEOREM WritesOnlyOwned == Spec => []WritesOwned
<1>1. LInv => WritesOwned
  BY DEF LInv
<1>. QED BY InitLInv, NextLInv, <1>1, PTL DEF Spec

\* When load_elf succeeds, every segment of the kernel is in memory as it was
\* linked, moved by base_addr, its bss zero and its relocated words pointing to
\* load addresses, also where an address wraps around (main.c:253-339).
THEOREM ImageIsLoaded == Spec => []ImageLoaded
<1>1. LInv => ImageLoaded
  BY DEF LInv
<1>. QED BY InitLInv, NextLInv, <1>1, PTL DEF Spec
=============================================================================
