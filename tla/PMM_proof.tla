----------------------------- MODULE PMM_proof -----------------------------
(***************************************************************************)
(* Theorems about PMM, for any memory map, page size, bitmap size and word *)
(* width.                                                                  *)
(***************************************************************************)
EXTENDS PMM, PageBitmap_proof, FiniteSetTheorems

USE DEF vars

\* The sizes and addresses of pmm.c are natural numbers.
LEMMA PMMConstants ==
    /\ MaxPages \in Nat /\ MaxPages > 0
    /\ PageSize \in Nat /\ PageSize > 0
    /\ KBPerPage \in Nat /\ KBPerPage > 0
    /\ LowKB \in Nat
    /\ Wrap \in Nat /\ Wrap > 0
    /\ KernelEnd \in Nat /\ KernelEnd > 0
  BY PMMAssumption

\* The bitmap is finite: sets of its pages can be counted.
LEMMA AllPagesFinite ==
    /\ IsFiniteSet(AllPages)
    /\ \A S \in SUBSET AllPages : IsFiniteSet(S) /\ Cardinality(S) \in Nat
<1>1. IsFiniteSet(AllPages)
  BY PMMConstants, FS_Interval DEF AllPages
<1> QED BY <1>1, FS_Subset, FS_CardinalityType

\* pmm_init never tracks more pages than the bitmap has bits.
LEMMA TotalPagesBound ==
    ASSUME NEW info \in BootInfos
    PROVE  TotalPages(info) \in 0 .. MaxPages
<1>1. info.mem_upper \in Nat
  BY PMMAssumption DEF BootInfoType
<1>2. (LowKB + info.mem_upper) % Wrap \in Nat
  BY <1>1, PMMConstants
<1>3. ((LowKB + info.mem_upper) % Wrap) \div KBPerPage \in Nat
  BY <1>2, PMMConstants
<1> QED BY <1>3, PMMConstants DEF TotalPages

\* The kernel image, as far as it is tracked, is made of tracked pages.
LEMMA KernelImageTracked ==
    ASSUME NEW total \in 0 .. MaxPages
    PROVE  KernelImage(total) \subseteq AllPages
<1>1. kernel_pages \in Int
  BY PMMConstants DEF kernel_pages
<1> QED BY <1>1, PMMConstants DEF KernelImage, AllPages

\* A page number is the quotient of an address: it is a natural number.
LEMMA PageOfAddress ==
    ASSUME NEW a \in 0 .. (Wrap - 1)
    PROVE  a \div PageSize \in Nat
  BY PMMConstants

\* What pmm_alloc_page finds is a tracked page whose bit is clear.
LEMMA AllocatedPage ==
    ASSUME TypeOK, Allocatable(pmm_used, pmm_total_pages) # {}
    PROVE  /\ FirstFree(pmm_used, pmm_total_pages) \in AllPages \ pmm_used
           /\ FirstFree(pmm_used, pmm_total_pages) < pmm_total_pages
<1>1. pmm_total_pages \in Nat /\ pmm_total_pages <= MaxPages
  BY PMMConstants DEF TypeOK
<1> QED BY <1>1, FirstFreeIsFree, PMMConstants DEF AllPages
-----------------------------------------------------------------------------
\* .bss, before pmm_init, is well typed.
LEMMA InitTypeOK == Init => TypeOK
  BY PMMConstants DEF Init, TypeOK, AllPages

\* The inductive invariant: the free count is exact, hence never negative.
CountInv == TypeOK /\ FreeCountExact

\* Before pmm_init nothing is claimed about the free count.
LEMMA InitCount == Init => CountInv
  BY InitTypeOK DEF Init, CountInv, FreeCountExact

\* The first part of pmm_init: every page used, none free.
LEMMA TotalStep ==
    ASSUME CountInv, pmm_init_total
    PROVE  CountInv'
<1>1. TypeOK'
  BY TotalPagesBound DEF CountInv, TypeOK, pmm_init_total
<1>2. FreeCountExact'
  <2>1. AllPages \ pmm_used' = {}
    BY DEF pmm_init_total
  <2> QED BY <2>1, FS_EmptySet DEF pmm_init_total, FreeCountExact
<1> QED BY <1>1, <1>2 DEF CountInv

\* A map entry frees the pages whose bit was set, and counts just them.
LEMMA EntryStep ==
    ASSUME CountInv, pmm_init_entry
    PROVE  CountInv'
<1> DEFINE freed == EntryPages(mb.mmap[entry], pmm_total_pages) \cap pmm_used
           clear == AllPages \ pmm_used
<1>1. /\ freed \in SUBSET AllPages /\ clear \in SUBSET AllPages
      /\ pmm_used' = pmm_used \ freed
      /\ pmm_free_pages' = pmm_free_pages + Cardinality(freed)
      /\ pmm_free_pages = Cardinality(clear)
      /\ AllPages \ pmm_used' = clear \cup freed
      /\ clear \cap freed = {}
  BY DEF CountInv, TypeOK, FreeCountExact, pmm_init_entry
<1> HIDE DEF freed, clear
<1>2. Cardinality(clear \cup freed) = Cardinality(clear) + Cardinality(freed)
  <2>1. /\ IsFiniteSet(clear) /\ IsFiniteSet(freed)
        /\ Cardinality(clear) \in Nat /\ Cardinality(freed) \in Nat
    BY <1>1, AllPagesFinite
  <2>2. Cardinality(clear \cup freed)
            = Cardinality(clear) + Cardinality(freed) - Cardinality(clear \cap freed)
    BY <2>1, FS_Union
  <2>3. Cardinality(clear \cap freed) = 0
    <3>1. Cardinality({}) = 0
      BY FS_EmptySet
    <3>2. clear \cap freed = {}
      BY <1>1
    <3> QED BY <3>1, <3>2, Zenon
  <2> QED BY <2>1, <2>2, <2>3
<1>3. pmm_free_pages' \in Nat
  BY <1>1, AllPagesFinite
<1>4. TypeOK'
  BY <1>1, <1>3 DEF CountInv, TypeOK, pmm_init_entry
<1>5. FreeCountExact'
  BY <1>1, <1>2 DEF FreeCountExact
<1> QED BY <1>4, <1>5 DEF CountInv

\* Protecting the kernel takes the pages whose bit was clear; the test for
\* a count of zero in pmm_init never keeps it from counting one.
LEMMA ProtectStep ==
    ASSUME CountInv, pmm_init_protect
    PROVE  CountInv'
<1> DEFINE taken == KernelImage(pmm_total_pages) \ pmm_used
           clear == AllPages \ pmm_used
<1>1. taken \in SUBSET clear
  BY KernelImageTracked DEF CountInv, TypeOK
<1>2. /\ clear \in SUBSET AllPages /\ taken \in SUBSET AllPages
      /\ pmm_used' = pmm_used \cup taken
      /\ pmm_free_pages' = IF Cardinality(taken) <= pmm_free_pages
                           THEN pmm_free_pages - Cardinality(taken) ELSE 0
      /\ pmm_free_pages = Cardinality(clear)
      /\ AllPages \ pmm_used' = clear \ taken
      /\ clear \cap taken = taken
  BY <1>1 DEF CountInv, TypeOK, FreeCountExact, pmm_init_protect
<1> HIDE DEF taken, clear
<1>3. /\ IsFiniteSet(clear)
      /\ Cardinality(clear) \in Nat /\ Cardinality(taken) \in Nat
      /\ Cardinality(taken) <= Cardinality(clear)
  BY <1>1, <1>2, AllPagesFinite, FS_Subset
<1>4. Cardinality(clear \ taken) = Cardinality(clear) - Cardinality(taken)
  BY <1>2, <1>3, FS_Difference
<1>5. TypeOK'
  BY <1>2, <1>3 DEF CountInv, TypeOK, pmm_init_protect
<1>6. FreeCountExact'
  BY <1>2, <1>3, <1>4 DEF FreeCountExact
<1> QED BY <1>5, <1>6 DEF CountInv

\* pmm_alloc_page takes one page whose bit was clear, or changes nothing.
LEMMA AllocStep ==
    ASSUME CountInv, pmm_alloc_page
    PROVE  CountInv'
<1> DEFINE page == FirstFree(pmm_used, pmm_total_pages)
           clear == AllPages \ pmm_used
<1>1. CASE Allocatable(pmm_used, pmm_total_pages) # {}
  <2>1. page \in clear
    BY <1>1, AllocatedPage DEF CountInv
  <2>2. /\ pmm_used' = pmm_used \cup {page}
        /\ pmm_free_pages' = pmm_free_pages - 1
        /\ owned' = owned \cup {page}
        /\ ret' = page * PageSize
        /\ UNCHANGED <<pmm_total_pages, mb, entry, phase>>
        /\ phase = "ready"
    BY <1>1 DEF pmm_alloc_page, bitmap_set
  <2>3. AllPages \ pmm_used' = clear \ {page} /\ pmm_free_pages = Cardinality(clear)
    BY <2>2 DEF CountInv, FreeCountExact
  <2>4. clear \in SUBSET AllPages /\ page \in AllPages /\ page \in Int
    BY <2>1 DEF AllPages
  <2> HIDE DEF page, clear
  <2>5. Cardinality(clear \ {page}) = Cardinality(clear) - 1 /\ Cardinality(clear \ {page}) \in Nat
    <3>1. IsFiniteSet(clear) /\ (clear \ {page}) \in SUBSET AllPages
      BY <2>4, AllPagesFinite
    <3> QED BY <2>1, <3>1, FS_RemoveElement, AllPagesFinite
  <2>6. page * PageSize \in Int
    BY <2>4, PMMConstants
  <2>7. TypeOK'
    BY <2>2, <2>3, <2>4, <2>5, <2>6 DEF CountInv, TypeOK
  <2>8. FreeCountExact'
    BY <2>2, <2>3, <2>5 DEF FreeCountExact
  <2> QED BY <2>7, <2>8 DEF CountInv
<1>2. CASE Allocatable(pmm_used, pmm_total_pages) = {}
  BY <1>2 DEF CountInv, TypeOK, FreeCountExact, pmm_alloc_page
<1> QED BY <1>1, <1>2

\* pmm_free_page gives back one page whose bit was set, or changes nothing.
LEMMA FreeStep ==
    ASSUME CountInv, NEW a \in 0 .. (Wrap - 1), pmm_free_page(a)
    PROVE  CountInv'
<1> DEFINE page == a \div PageSize
           frees == /\ a % PageSize = 0
                    /\ page < pmm_total_pages
                    /\ bitmap_test(pmm_used, page)
           clear == AllPages \ pmm_used
<1>1. CASE frees
  <2>1. /\ page \in pmm_used /\ page \in AllPages
        /\ pmm_used' = pmm_used \ {page}
        /\ pmm_free_pages' = pmm_free_pages + 1
        /\ owned' = owned \ {page}
        /\ ret' = -1
        /\ phase = "ready"
        /\ UNCHANGED <<pmm_total_pages, mb, entry, phase>>
    BY <1>1 DEF CountInv, TypeOK, pmm_free_page, bitmap_test, bitmap_clear
  <2>2. /\ AllPages \ pmm_used' = clear \cup {page}
        /\ page \notin clear
        /\ pmm_free_pages = Cardinality(clear)
        /\ clear \in SUBSET AllPages
    BY <2>1 DEF CountInv, TypeOK, FreeCountExact
  <2> HIDE DEF page, clear
  <2>3. Cardinality(clear \cup {page}) = Cardinality(clear) + 1 /\ Cardinality(clear) \in Nat
    BY <2>2, AllPagesFinite, FS_AddElement
  <2>4. TypeOK'
    BY <2>1, <2>2, <2>3 DEF CountInv, TypeOK
  <2>5. FreeCountExact'
    BY <2>1, <2>2, <2>3 DEF FreeCountExact
  <2> QED BY <2>4, <2>5 DEF CountInv
<1>2. CASE ~frees
  <2>1. UNCHANGED <<pmm_used, pmm_free_pages, owned, pmm_total_pages, mb, entry, phase>> /\ ret' = -1
    BY <1>2 DEF pmm_free_page
  <2> QED BY <2>1 DEF CountInv, TypeOK, FreeCountExact
<1> QED BY <1>1, <1>2

\* Every step of the allocator keeps the inductive invariant.
LEMMA CountStep ==
    ASSUME CountInv, [Next]_vars
    PROVE  CountInv'
<1>1. CASE pmm_init_map_end
  BY <1>1 DEF CountInv, TypeOK, FreeCountExact, pmm_init_map_end
<1>2. CASE UNCHANGED vars
  BY <1>2 DEF CountInv, TypeOK, FreeCountExact
<1> QED BY <1>1, <1>2, TotalStep, EntryStep, ProtectStep, AllocStep, FreeStep DEF Next

(***************************************************************************)
(* pmm_get_free_page_count is exact in every state from the first step of  *)
(* pmm_init on, and the bitmap never holds a bit beyond its pages.         *)
(***************************************************************************)
THEOREM CountCorrect == Spec => []CountInv
<1>1. Init => CountInv
  BY InitCount
<1>2. CountInv /\ [Next]_vars => CountInv'
  BY CountStep
<1> QED BY <1>1, <1>2, PTL DEF Spec

\* The type invariant that the runs check: the bitmap, the page total and the
\* counters of pmm.c stay in their ranges.
THEOREM PMMTypeOK == Spec => []TypeOK
  BY CountCorrect, PTL DEF CountInv

\* The count that pmm_get_free_page_count returns is the number of clear bits.
THEOREM FreeCountIsExact == Spec => []FreeCountExact
  BY CountCorrect, PTL DEF CountInv
-----------------------------------------------------------------------------
(***************************************************************************)
(* That the kernel image is never handed out needs more than its bits:     *)
(* pmm_free_page clears the bit of any page it is given, so that the       *)
(* owners, too, must be tracked.                                           *)
(***************************************************************************)
OwnedInv ==
    /\ phase # "ready" => owned = {}
    /\ phase = "ready" => KernelImage(pmm_total_pages) \subseteq pmm_used
    /\ owned \cap KernelImage(pmm_total_pages) = {}
    /\ \A p \in owned : p < pmm_total_pages

\* kernel_pages is rounded up: the pages behind it lie behind kernel_end.
LEMMA BehindKernel ==
    ASSUME NEW p \in Nat, p >= kernel_pages
    PROVE  ~HoldsKernel(p)
<1> DEFINE q == kernel_pages
<1>1. q \in Nat /\ KernelEnd + PageSize - 1 < (q + 1) * PageSize
  BY PMMConstants DEF kernel_pages
<1>2. (q + 1) * PageSize = q * PageSize + PageSize
  BY <1>1, PMMConstants
<1>3. q * PageSize \in Nat /\ p * PageSize \in Nat
  BY <1>1, PMMConstants
<1>4. KernelEnd <= q * PageSize
  BY <1>1, <1>2, <1>3, PMMConstants
<1>5. q * PageSize <= p * PageSize
  BY <1>1, PMMConstants
<1> QED BY <1>3, <1>4, <1>5, PMMConstants DEF HoldsKernel

\* Every step keeps the pages that are handed out behind the kernel image.
LEMMA OwnedStep ==
    ASSUME TypeOK, OwnedInv, [Next]_vars
    PROVE  OwnedInv'
<1>1. CASE pmm_init_total \/ pmm_init_entry \/ pmm_init_map_end
  BY <1>1 DEF OwnedInv, pmm_init_total, pmm_init_entry, pmm_init_map_end
<1>2. CASE pmm_init_protect
  BY <1>2 DEF OwnedInv, pmm_init_protect
<1>3. CASE pmm_alloc_page
  <2>1. CASE Allocatable(pmm_used, pmm_total_pages) # {}
    <3> DEFINE page == FirstFree(pmm_used, pmm_total_pages)
    <3>1. page \notin pmm_used /\ page < pmm_total_pages
      BY <2>1, AllocatedPage
    <3>2. /\ phase = "ready" /\ UNCHANGED <<phase, pmm_total_pages>>
          /\ pmm_used' = pmm_used \cup {page} /\ owned' = owned \cup {page}
      BY <1>3, <2>1 DEF pmm_alloc_page, bitmap_set
    <3> HIDE DEF page
    <3> QED BY <3>1, <3>2 DEF OwnedInv
  <2>2. CASE Allocatable(pmm_used, pmm_total_pages) = {}
    BY <1>3, <2>2 DEF OwnedInv, pmm_alloc_page
  <2> QED BY <2>1, <2>2
<1>4. ASSUME NEW a \in 0 .. (Wrap - 1), pmm_free_page(a)
      PROVE  OwnedInv'
  <2> DEFINE page == a \div PageSize
  <2>1. /\ phase = "ready" /\ UNCHANGED <<phase, pmm_total_pages>>
        /\ \/ UNCHANGED <<pmm_used, owned>>
           \/ /\ pmm_used' = pmm_used \ {page} /\ owned' = owned \ {page}
              /\ a % PageSize = 0 /\ page < pmm_total_pages /\ MayFree(a)
    BY <1>4 DEF pmm_free_page, bitmap_clear
  <2>2. a % PageSize = 0 /\ page < pmm_total_pages /\ MayFree(a) => page \in owned
    BY PageOfAddress DEF MayFree, TypeOK
  <2> HIDE DEF page
  <2> QED BY <2>1, <2>2 DEF OwnedInv
<1>5. CASE UNCHANGED vars
  BY <1>5 DEF OwnedInv
<1> QED BY <1>1, <1>2, <1>3, <1>4, <1>5 DEF Next

(***************************************************************************)
(* No page that holds a byte of the kernel image is ever handed out, page  *)
(* 0 included, for any boot information; hence pmm_alloc_page returns NULL *)
(* only when it fails.                                                     *)
(***************************************************************************)
THEOREM KernelIsProtected == Spec => []KernelNeverHandedOut
<1>1. Init => OwnedInv
  BY DEF Init, OwnedInv
<1>2. TypeOK /\ OwnedInv /\ [Next]_vars => OwnedInv'
  BY OwnedStep
<1>3. TypeOK /\ OwnedInv => KernelNeverHandedOut
  <2> SUFFICES ASSUME TypeOK, OwnedInv, NEW p \in owned
               PROVE  ~HoldsKernel(p)
    BY DEF KernelNeverHandedOut
  <2>1. p \in Nat /\ p < pmm_total_pages /\ p \notin KernelImage(pmm_total_pages)
    BY PMMConstants DEF TypeOK, OwnedInv, AllPages
  <2>2. kernel_pages \in Int
    BY PMMConstants DEF kernel_pages
  <2>3. p >= kernel_pages
    BY <2>1, <2>2 DEF KernelImage
  <2> QED BY <2>1, <2>3, BehindKernel
<1> QED BY <1>1, <1>2, <1>3, PMMTypeOK, PTL DEF Spec
-----------------------------------------------------------------------------
\* A page number below a quotient: the page ends at or before the dividend.
LEMMA PageBelow ==
    ASSUME NEW x \in Nat, NEW p \in Nat
    PROVE  p < x \div PageSize <=> (p + 1) * PageSize <= x
<1> DEFINE q == x \div PageSize
<1>1. q \in Nat /\ q * PageSize <= x /\ x < (q + 1) * PageSize
  BY PMMConstants
<1> HIDE DEF q
<1>2. CASE p < q
  <2>1. (p + 1) * PageSize <= q * PageSize
    BY <1>1, <1>2, PMMConstants
  <2>2. (p + 1) * PageSize \in Nat /\ q * PageSize \in Nat
    BY <1>1, PMMConstants
  <2> QED BY <1>1, <1>2, <2>1, <2>2 DEF q
<1>3. CASE ~(p < q)
  <2>1. (q + 1) * PageSize <= (p + 1) * PageSize
    BY <1>1, <1>3, PMMConstants
  <2>2. (p + 1) * PageSize \in Nat /\ (q + 1) * PageSize \in Nat
    BY <1>1, PMMConstants
  <2> QED BY <1>1, <1>3, <2>1, <2>2 DEF q
<1> QED BY <1>2, <1>3

\* The quotient rounded up: the first page that begins at or behind x.
LEMMA PageFrom ==
    ASSUME NEW x \in Nat, NEW p \in Nat
    PROVE  (x + PageSize - 1) \div PageSize <= p <=> x <= p * PageSize
<1> DEFINE y == x + PageSize - 1
           q == y \div PageSize
<1>1. y \in Nat
  BY PMMConstants
<1>2. q \in Nat
  <2> HIDE DEF y
  <2> QED BY <1>1, PMMConstants
<1>3. p < q <=> (p + 1) * PageSize <= y
  <2> HIDE DEF y
  <2> QED BY <1>1, PageBelow
<1>4. (p + 1) * PageSize = p * PageSize + PageSize /\ p * PageSize \in Nat
  BY PMMConstants
<1>5. (p + 1) * PageSize <= y <=> ~(x <= p * PageSize)
  BY <1>4, PMMConstants
<1>6. q <= p <=> ~(p < q)
  BY <1>2
<1> QED BY <1>3, <1>5, <1>6

\* A sum of two uint32_t values, modulo 2^32.
LEMMA SumWraps ==
    ASSUME NEW a \in Nat, a < 2 * Wrap
    PROVE  a % Wrap = IF a < Wrap THEN a ELSE a - Wrap
  BY PMMConstants

\* The pages of the bitmap lie in the address space.
LEMMA TrackedMemory ==
    ASSUME NEW p \in AllPages
    PROVE  /\ p \in Nat
           /\ p * PageSize \in Nat /\ (p + 1) * PageSize = p * PageSize + PageSize
           /\ (p + 1) * PageSize <= MaxPages * PageSize
           /\ MaxPages * PageSize \in Nat /\ MaxPages * PageSize <= Wrap
<1>1. p \in Nat /\ p + 1 <= MaxPages
  BY PMMConstants DEF AllPages
<1>2. (p + 1) * PageSize <= MaxPages * PageSize
  BY <1>1, PMMConstants
<1> QED BY <1>1, <1>2, PMMConstants, PMMAssumption

\* The bounds of a region that pmm_init computes, and its pages.
LEMMA RegionBounds ==
    ASSUME NEW e \in Entries, NEW p \in AllPages
    PROVE  LET first == ((e.base + PageSize - 1) % Wrap) \div PageSize
               last  == ((e.base + e.len) % Wrap) \div PageSize
           IN  /\ e.base <= Wrap - PageSize => (first <= p <=> e.base <= p * PageSize)
               /\ e.base + e.len < Wrap => (p < last <=> (p + 1) * PageSize <= e.base + e.len)
               /\ e.base + e.len >= Wrap => (p < last => (p + 1) * PageSize <= e.base)
               /\ e.base + e.len = Wrap => ~(p < last)
<1> DEFINE y == e.base + PageSize - 1
           z == e.base + e.len
           first == (y % Wrap) \div PageSize
           last == (z % Wrap) \div PageSize
<1>1. p \in Nat /\ p * PageSize \in Nat /\ (p + 1) * PageSize = p * PageSize + PageSize
  BY TrackedMemory
<1>2. e.base \in 0 .. (Wrap - 1) /\ e.len \in 0 .. (Wrap - 1)
  BY DEF Entries
<1>3. y \in Nat /\ z \in Nat /\ z < 2 * Wrap
  BY <1>2, PMMConstants
<1>4. ASSUME e.base <= Wrap - PageSize PROVE first <= p <=> e.base <= p * PageSize
  <2>1. y < Wrap /\ y < 2 * Wrap /\ e.base \in Nat
    BY <1>2, <1>4, PMMConstants
  <2>2. y % Wrap = y
    <3> HIDE DEF y
    <3> QED BY <1>3, <2>1, SumWraps
  <2>3. (e.base + PageSize - 1) \div PageSize <= p <=> e.base <= p * PageSize
    <3> DEFINE b == e.base
    <3>1. b \in Nat
      BY <2>1
    <3> HIDE DEF b
    <3>2. (b + PageSize - 1) \div PageSize <= p <=> b <= p * PageSize
      BY <1>1, <3>1, PageFrom
    <3> QED BY <3>2 DEF b
  <2> QED BY <2>2, <2>3
<1>5. ASSUME z < Wrap PROVE p < last <=> (p + 1) * PageSize <= z
  <2> HIDE DEF z
  <2>1. z % Wrap = z
    BY <1>3, <1>5, SumWraps
  <2> QED BY <1>1, <1>3, <2>1, PageBelow
<1>6. ASSUME z >= Wrap PROVE p < last => (p + 1) * PageSize <= z - Wrap
  <2>1. z - Wrap \in Nat
    BY <1>3, <1>6, PMMConstants
  <2> HIDE DEF z
  <2>2. z % Wrap = z - Wrap
    BY <1>3, <1>6, SumWraps, PMMConstants
  <2> DEFINE w == z - Wrap
  <2> HIDE DEF w
  <2>3. p < w \div PageSize <=> (p + 1) * PageSize <= w
    BY <1>1, <2>1, PageBelow DEF w
  <2> QED BY <2>2, <2>3 DEF w
<1>7. ASSUME z >= Wrap PROVE p < last => (p + 1) * PageSize <= e.base
  BY <1>1, <1>2, <1>3, <1>6, <1>7, PMMConstants
<1>8. ASSUME z = Wrap PROVE ~(p < last)
  BY <1>1, <1>3, <1>6, <1>8, PMMConstants
<1> QED BY <1>4, <1>5, <1>7, <1>8

\* pmm_init frees no page outside the region of the entry ...
LEMMA EntryInside ==
    ASSUME NEW e \in Entries, NEW total \in Nat, NEW p \in EntryPages(e, total),
           e.available /\ ~e.high => e.base <= Wrap - PageSize \/ e.base + e.len = Wrap
    PROVE  InsideRegion(e, p)
<1> DEFINE first == ((e.base + PageSize - 1) % Wrap) \div PageSize
           last  == ((e.base + e.len) % Wrap) \div PageSize
<1>1. /\ p \in AllPages /\ first <= p /\ p < last
      /\ e.available /\ ~e.high
  BY DEF EntryPages
<1>2. /\ e.base <= Wrap - PageSize => (first <= p <=> e.base <= p * PageSize)
      /\ e.base + e.len < Wrap => (p < last <=> (p + 1) * PageSize <= e.base + e.len)
      /\ e.base + e.len >= Wrap => (p < last => (p + 1) * PageSize <= e.base)
      /\ e.base + e.len = Wrap => ~(p < last)
  BY <1>1, RegionBounds
<1> HIDE DEF first, last
<1>3. e.base \in Nat /\ e.len \in Nat /\ Wrap \in Nat
  BY PMMConstants DEF Entries
<1>4. p * PageSize \in Nat /\ (p + 1) * PageSize = p * PageSize + PageSize
  BY <1>1, TrackedMemory
<1>5. e.base <= Wrap - PageSize /\ e.base <= p * PageSize
  BY <1>1, <1>2
<1>6. e.base + e.len < Wrap
  BY <1>1, <1>2, <1>3, <1>4, <1>5, PMMConstants
<1> QED BY <1>1, <1>2, <1>5, <1>6 DEF InsideRegion

\* ... and, if the sums fit, all of those inside it.
LEMMA EntryWhole ==
    ASSUME NEW e \in Entries, NEW total \in Nat, NEW p \in AllPages, p < total,
           InsideRegion(e, p),
           e.available /\ ~e.high =>
              \/ e.base <= Wrap - PageSize /\ ~e.long /\ e.base + e.len < Wrap
              \/ /\ MaxPages * PageSize <= e.base
                 /\ e.base <= Wrap - PageSize \/ e.base + e.len = Wrap
    PROVE  p \in EntryPages(e, total)
<1> DEFINE first == ((e.base + PageSize - 1) % Wrap) \div PageSize
           last  == ((e.base + e.len) % Wrap) \div PageSize
<1>1. /\ e.base <= Wrap - PageSize => (first <= p <=> e.base <= p * PageSize)
      /\ e.base + e.len < Wrap => (p < last <=> (p + 1) * PageSize <= e.base + e.len)
  BY RegionBounds
<1>2. /\ e.available /\ ~e.high /\ e.base <= p * PageSize
      /\ e.long \/ (p + 1) * PageSize <= e.base + e.len
  BY DEF InsideRegion
<1>3. e.base \in Nat
  BY DEF Entries
<1>4. ~(MaxPages * PageSize <= e.base)
  BY <1>2, <1>3, TrackedMemory, PMMConstants
<1>5. first <= p /\ p < last
  <2> HIDE DEF first, last
  <2> QED BY <1>1, <1>2, <1>4
<1> HIDE DEF first, last
<1> QED BY <1>2, <1>5 DEF EntryPages, first, last

\* The entry that pmm_init looks at is one of the map.
LEMMA EntryOfMap ==
    ASSUME TypeOK, NEW i \in DOMAIN mb.mmap
    PROVE  mb.mmap[i] \in Entries /\ DOMAIN mb.mmap = 1 .. Len(mb.mmap) /\ Len(mb.mmap) \in Nat
<1>1. mb.mmap \in Seq(Entries)
  BY PMMAssumption DEF TypeOK, BootInfoType
<1> QED BY <1>1

\* The clear bits are pages of available regions, and so are those owned.
AvailableInv ==
    /\ phase = "start" => owned = {}
    /\ phase # "start" => \A p \in AllPages \ pmm_used : InsideAvailable(p)
    /\ OnlyAvailableHandedOut

\* A memory map without a region that begins inside the last page of the
\* address space is enough: then nothing but available memory is handed out.
THEOREM AvailableOnly ==
    ASSUME BasesRoundUp
    PROVE  Spec => []OnlyAvailableHandedOut
<1>1. Init => AvailableInv
  BY DEF Init, AvailableInv, OnlyAvailableHandedOut
<1>2. ASSUME TypeOK, AvailableInv, [Next]_vars
      PROVE  AvailableInv'
  <2>0. mb' = mb
    BY <1>2
    DEF Next, pmm_init_total, pmm_init_entry, pmm_init_map_end, pmm_init_protect, pmm_alloc_page,
        pmm_free_page
  <2>1. \A p : InsideAvailable(p)' <=> InsideAvailable(p)
    BY <2>0 DEF InsideAvailable
  <2>2. CASE pmm_init_total \/ pmm_init_map_end \/ pmm_init_protect \/ UNCHANGED vars
    BY <1>2, <2>1, <2>2
    DEF AvailableInv, OnlyAvailableHandedOut, pmm_init_total, pmm_init_map_end, pmm_init_protect
  <2>3. CASE pmm_init_entry
    <3> DEFINE e == mb.mmap[entry]
    <3>1. /\ phase = "map" /\ UNCHANGED <<phase, owned>> /\ entry <= Len(mb.mmap)
          /\ pmm_used' = pmm_used \ (EntryPages(e, pmm_total_pages) \cap pmm_used)
      BY <2>3 DEF pmm_init_entry
    <3>2. entry \in DOMAIN mb.mmap
      <4>1. mb.mmap \in Seq(Entries) /\ entry \in Nat \ {0}
        BY <1>2, PMMAssumption DEF TypeOK, BootInfoType
      <4> QED BY <3>1, <4>1
    <3>3. e \in Entries /\ (e.available /\ ~e.high => UsableRegion(e))
      BY <1>2, <3>2, EntryOfMap DEF UsableRegion, TypeOK
    <3>4. pmm_total_pages \in Nat
      BY <1>2 DEF TypeOK
    <3>5. \A p \in EntryPages(e, pmm_total_pages) : InsideRegion(e, p)
      BY <1>2, <3>3, <3>4, EntryInside DEF BasesRoundUp
    <3>6. \A p \in EntryPages(e, pmm_total_pages) : InsideAvailable(p)
      BY <3>2, <3>5 DEF InsideAvailable
    <3> HIDE DEF e
    <3> QED BY <1>2, <2>1, <3>1, <3>6 DEF AvailableInv, OnlyAvailableHandedOut
  <2>4. CASE pmm_alloc_page
    <3>1. CASE Allocatable(pmm_used, pmm_total_pages) # {}
      <4> DEFINE page == FirstFree(pmm_used, pmm_total_pages)
      <4>1. page \in AllPages \ pmm_used
        BY <1>2, <3>1, AllocatedPage
      <4>2. /\ phase = "ready" /\ UNCHANGED phase
            /\ pmm_used' = pmm_used \cup {page} /\ owned' = owned \cup {page}
        BY <2>4, <3>1 DEF pmm_alloc_page, bitmap_set
      <4> HIDE DEF page
      <4> QED BY <1>2, <2>1, <4>1, <4>2 DEF AvailableInv, OnlyAvailableHandedOut
    <3>2. CASE Allocatable(pmm_used, pmm_total_pages) = {}
      BY <1>2, <2>1, <2>4, <3>2 DEF AvailableInv, OnlyAvailableHandedOut, pmm_alloc_page
    <3> QED BY <3>1, <3>2
  <2>5. ASSUME NEW a \in 0 .. (Wrap - 1), pmm_free_page(a)
        PROVE  AvailableInv'
    <3> DEFINE page == a \div PageSize
    <3>1. /\ phase = "ready" /\ UNCHANGED phase
          /\ \/ UNCHANGED <<pmm_used, owned>>
             \/ /\ pmm_used' = pmm_used \ {page} /\ owned' = owned \ {page}
                /\ a % PageSize = 0 /\ page < pmm_total_pages /\ MayFree(a)
      BY <2>5 DEF pmm_free_page, bitmap_clear
    <3>2. a % PageSize = 0 /\ page < pmm_total_pages /\ MayFree(a) => page \in owned
      BY <1>2, PageOfAddress DEF MayFree, TypeOK
    <3> HIDE DEF page
    <3> QED BY <1>2, <2>1, <3>1, <3>2 DEF AvailableInv, OnlyAvailableHandedOut
  <2> QED BY <1>2, <2>2, <2>3, <2>4, <2>5 DEF Next
<1>3. AvailableInv => OnlyAvailableHandedOut
  BY DEF AvailableInv
<1> QED BY <1>1, <1>2, <1>3, PMMTypeOK, PTL DEF Spec
-----------------------------------------------------------------------------
\* The tracked pages of the first n entries of a map.
FirstPages(mmap, n, total) ==
    {p \in AllPages : p < total /\ \E i \in 1 .. n : InsideRegion(mmap[i], p)}

(***************************************************************************)
(* The clear bits at each stage: those of the entries seen so far, those   *)
(* of the whole map, and, with the pages that have an owner, all that is   *)
(* usable.                                                                 *)
(***************************************************************************)
PartitionInv ==
    /\ phase # "ready" => owned = {}
    /\ phase = "start" => entry = 1
    /\ phase = "map" =>
          /\ mb.hasMap /\ entry <= Len(mb.mmap) + 1
          /\ AllPages \ pmm_used = FirstPages(mb.mmap, entry - 1, pmm_total_pages)
    /\ phase = "protect" =>
          AllPages \ pmm_used =
              {p \in AllPages : p < pmm_total_pages /\ mb.hasMap /\ InsideAvailable(p)}
    /\ MemoryPartition

\* kernel_pages is the number of pages that hold a byte of the kernel.
LEMMA KernelPages ==
    ASSUME NEW p \in AllPages, NEW total \in Nat, p < total
    PROVE  p \in KernelImage(total) <=> HoldsKernel(p)
<1>1. p \in Nat /\ KernelEnd \in Nat /\ p * PageSize \in Nat
  BY TrackedMemory, PMMConstants
<1>2. kernel_pages <= p <=> KernelEnd <= p * PageSize
  BY <1>1, PageFrom DEF kernel_pages
<1>3. kernel_pages \in Int
  BY PMMConstants DEF kernel_pages
<1>4. p \in 0 .. (kernel_pages - 1) <=> ~(kernel_pages <= p)
  BY <1>1, <1>3
<1> QED BY <1>1, <1>2, <1>4 DEF KernelImage, HoldsKernel

\* pmm_init, and then every allocation and every free, keep the partition.
LEMMA PartitionStep ==
    ASSUME RegionsFit, TypeOK, PartitionInv, [Next]_vars
    PROVE  PartitionInv'
<1>1. mb' = mb
  BY DEF Next, pmm_init_total, pmm_init_entry, pmm_init_map_end, pmm_init_protect, pmm_alloc_page,
         pmm_free_page
<1>2. /\ \A p : InsideAvailable(p)' <=> InsideAvailable(p)
      /\ \A p : HoldsKernel(p)' <=> HoldsKernel(p)
  BY <1>1 DEF InsideAvailable, HoldsKernel
<1>3. mb.mmap \in Seq(Entries) /\ pmm_total_pages \in Nat /\ entry \in Nat \ {0}
  BY PMMAssumption DEF TypeOK, BootInfoType
<1>4. DOMAIN mb.mmap = 1 .. Len(mb.mmap) /\ Len(mb.mmap) \in Nat
  BY <1>3
<1>5. CASE pmm_init_total
  <2>1. /\ AllPages \ pmm_used' = {} /\ entry' = 1 /\ owned' = {} /\ phase' \in {"map", "protect"}
        /\ phase' = "map" <=> mb.hasMap
    BY <1>5 DEF PartitionInv, pmm_init_total
  <2>2. \A mmap, total : FirstPages(mmap, 0, total) = {}
    BY DEF FirstPages
  <2>3. MemoryPartition'
    BY <2>1 DEF MemoryPartition
  <2>4. phase' = "map" =>
          /\ mb'.hasMap /\ entry' <= Len(mb'.mmap) + 1
          /\ AllPages \ pmm_used' = FirstPages(mb'.mmap, entry' - 1, pmm_total_pages')
    BY <1>1, <1>4, <2>1, <2>2
  <2> QED BY <1>1, <2>1, <2>3, <2>4 DEF PartitionInv
<1>6. CASE pmm_init_entry
  <2> DEFINE e == mb.mmap[entry]
  <2>1. /\ phase = "map" /\ UNCHANGED <<phase, owned, pmm_total_pages>> /\ entry <= Len(mb.mmap)
        /\ pmm_used' = pmm_used \ (EntryPages(e, pmm_total_pages) \cap pmm_used)
        /\ entry' = entry + 1
    BY <1>6 DEF pmm_init_entry
  <2>2. entry \in DOMAIN mb.mmap
    BY <1>3, <1>4, <2>1
  <2>3. e \in Entries /\ (e.available /\ ~e.high => UsableRegion(e))
    BY <1>3, <2>2 DEF UsableRegion, TypeOK
  <2>4. e.available /\ ~e.high =>
              \/ e.base <= Wrap - PageSize /\ ~e.long /\ e.base + e.len < Wrap
              \/ /\ MaxPages * PageSize <= e.base
                 /\ e.base <= Wrap - PageSize \/ e.base + e.len = Wrap
    BY <2>3 DEF RegionsFit
  <2>5. \A p \in EntryPages(e, pmm_total_pages) : InsideRegion(e, p)
    <3>1. e.available /\ ~e.high => e.base <= Wrap - PageSize \/ e.base + e.len = Wrap
      BY <2>4
    <3> HIDE DEF e
    <3> QED BY <1>3, <2>3, <3>1, EntryInside
  <2>6. \A p \in AllPages : p < pmm_total_pages /\ InsideRegion(e, p) =>
            p \in EntryPages(e, pmm_total_pages)
    <3> HIDE DEF e
    <3> QED BY <1>3, <2>3, <2>4, EntryWhole
  <2>7. \A p \in EntryPages(e, pmm_total_pages) : p \in AllPages /\ p < pmm_total_pages
    BY DEF EntryPages
  <2>8. 1 .. entry = (1 .. (entry - 1)) \cup {entry} /\ entry' - 1 = entry
    BY <1>3, <2>1
  <2>9. \A p \in AllPages : p \in FirstPages(mb.mmap, entry, pmm_total_pages) <=>
            \/ p \in FirstPages(mb.mmap, entry - 1, pmm_total_pages)
            \/ p < pmm_total_pages /\ InsideRegion(e, p)
    BY <2>8 DEF FirstPages
  <2>10. entry' <= Len(mb.mmap) + 1
    BY <1>3, <1>4, <2>1
  <2> HIDE DEF e
  <2>11. AllPages \ pmm_used = FirstPages(mb.mmap, entry - 1, pmm_total_pages)
    BY <2>1 DEF PartitionInv
  <2>12. FirstPages(mb.mmap, entry, pmm_total_pages) \subseteq AllPages
    BY DEF FirstPages
  <2>13. AllPages \ pmm_used' = FirstPages(mb.mmap, entry, pmm_total_pages)
    BY <2>1, <2>5, <2>6, <2>7, <2>9, <2>11, <2>12 DEF TypeOK
  <2>14. MemoryPartition'
    BY <2>1 DEF MemoryPartition
  <2>15. AllPages \ pmm_used' = FirstPages(mb'.mmap, entry' - 1, pmm_total_pages')
    BY <1>1, <2>1, <2>8, <2>13
  <2>16. mb'.hasMap /\ owned' = {} /\ phase' = "map"
    BY <1>1, <2>1 DEF PartitionInv
  <2> QED BY <1>1, <2>10, <2>14, <2>15, <2>16 DEF PartitionInv
<1>7. CASE pmm_init_map_end
  <2>1. /\ phase = "map" /\ phase' = "protect" /\ entry > Len(mb.mmap)
        /\ UNCHANGED <<pmm_used, pmm_total_pages, entry, owned>>
    BY <1>7 DEF pmm_init_map_end
  <2>2. entry - 1 = Len(mb.mmap) /\ mb.hasMap
    BY <1>3, <1>4, <2>1 DEF PartitionInv
  <2>3. FirstPages(mb.mmap, entry - 1, pmm_total_pages) =
            {p \in AllPages : p < pmm_total_pages /\ InsideAvailable(p)}
    BY <1>4, <2>2 DEF FirstPages, InsideAvailable
  <2>4. MemoryPartition'
    BY <2>1 DEF MemoryPartition
  <2> QED BY <1>1, <1>2, <2>1, <2>2, <2>3, <2>4 DEF PartitionInv
<1>8. CASE pmm_init_protect
  <2>1. /\ phase = "protect" /\ phase' = "ready" /\ UNCHANGED <<pmm_total_pages, owned>>
        /\ pmm_used' = pmm_used \cup (KernelImage(pmm_total_pages) \ pmm_used)
    BY <1>8 DEF pmm_init_protect
  <2>2. owned' = {}
    BY <2>1 DEF PartitionInv
  <2>3. \A p \in AllPages : p < pmm_total_pages =>
            (p \in KernelImage(pmm_total_pages) <=> HoldsKernel(p))
    BY <1>3, KernelPages
  <2>4. AllPages \ pmm_used =
              {p \in AllPages : p < pmm_total_pages /\ mb.hasMap /\ InsideAvailable(p)}
    BY <2>1 DEF PartitionInv
  <2>5. AllPages \ pmm_used' = Usable'
    BY <1>1, <1>2, <2>1, <2>3, <2>4 DEF Usable
  <2> QED BY <2>1, <2>2, <2>5 DEF PartitionInv, MemoryPartition
<1>9. ASSUME phase = "ready", UNCHANGED <<phase, pmm_total_pages>>,
             owned' \cap (AllPages \ pmm_used') = {},
             owned' \cup (AllPages \ pmm_used') = owned \cup (AllPages \ pmm_used)
      PROVE  PartitionInv'
  <2>1. Usable' = Usable
    BY <1>1, <1>2, <1>9 DEF Usable
  <2> QED BY <1>9, <2>1 DEF PartitionInv, MemoryPartition
<1>10. CASE pmm_alloc_page
  <2>1. CASE Allocatable(pmm_used, pmm_total_pages) # {}
    <3> DEFINE page == FirstFree(pmm_used, pmm_total_pages)
    <3>1. page \in AllPages \ pmm_used
      BY <2>1, AllocatedPage
    <3>2. /\ phase = "ready" /\ UNCHANGED <<phase, pmm_total_pages>>
          /\ pmm_used' = pmm_used \cup {page} /\ owned' = owned \cup {page}
      BY <1>10, <2>1 DEF pmm_alloc_page, bitmap_set
    <3> HIDE DEF page
    <3>3. owned \cap (AllPages \ pmm_used) = {}
      BY <3>2 DEF PartitionInv, MemoryPartition
    <3>4. /\ owned' \cap (AllPages \ pmm_used') = {}
          /\ owned' \cup (AllPages \ pmm_used') = owned \cup (AllPages \ pmm_used)
      BY <3>1, <3>2, <3>3
    <3> QED BY <1>9, <3>2, <3>4
  <2>2. CASE Allocatable(pmm_used, pmm_total_pages) = {}
    <3>1. phase = "ready" /\ UNCHANGED <<phase, pmm_total_pages, pmm_used, owned>>
      BY <1>10, <2>2 DEF pmm_alloc_page
    <3> QED BY <1>9, <3>1 DEF PartitionInv, MemoryPartition
  <2> QED BY <2>1, <2>2
<1>11. ASSUME NEW a \in 0 .. (Wrap - 1), pmm_free_page(a)
       PROVE  PartitionInv'
  <2> DEFINE page == a \div PageSize
  <2>1. /\ phase = "ready" /\ UNCHANGED <<phase, pmm_total_pages>>
        /\ \/ UNCHANGED <<pmm_used, owned>>
           \/ /\ pmm_used' = pmm_used \ {page} /\ owned' = owned \ {page}
              /\ a % PageSize = 0 /\ page < pmm_total_pages /\ MayFree(a)
    BY <1>11 DEF pmm_free_page, bitmap_clear
  <2>2. a % PageSize = 0 /\ page < pmm_total_pages /\ MayFree(a) => page \in owned
    BY PageOfAddress DEF MayFree, TypeOK
  <2> HIDE DEF page
  <2>3. owned \cap (AllPages \ pmm_used) = {} /\ owned \subseteq AllPages
    BY <2>1 DEF PartitionInv, MemoryPartition, TypeOK
  <2>4. /\ owned' \cap (AllPages \ pmm_used') = {}
        /\ owned' \cup (AllPages \ pmm_used') = owned \cup (AllPages \ pmm_used)
    BY <2>1, <2>2, <2>3
  <2> QED BY <1>9, <2>1, <2>4
<1>12. CASE UNCHANGED vars
  BY <1>12 DEF PartitionInv, MemoryPartition, Usable, InsideAvailable
<1> QED BY <1>5, <1>6, <1>7, <1>8, <1>10, <1>11, <1>12 DEF Next

(***************************************************************************)
(* If the sums of pmm_init fit, the usable pages, no more and no fewer,    *)
(* are split into those that are free and those that have one owner, after *)
(* pmm_init and after any sequence of allocations and frees.               *)
(***************************************************************************)
THEOREM NothingLost ==
    ASSUME RegionsFit
    PROVE  Spec => []MemoryPartition
<1>1. Init => PartitionInv
  BY DEF Init, PartitionInv, MemoryPartition
<1>2. TypeOK /\ PartitionInv /\ [Next]_vars => PartitionInv'
  BY PartitionStep
<1>3. PartitionInv => MemoryPartition
  BY DEF PartitionInv
<1> QED BY <1>1, <1>2, <1>3, PMMTypeOK, PTL DEF Spec

-----------------------------------------------------------------------------
(***************************************************************************)
(* pmm.c as a page allocator.  A refusal tells how many pages are left     *)
(* only because no page behind the tracked memory is ever free.            *)
(***************************************************************************)
ClearTracked == phase # "start" => \A p \in AllPages \ pmm_used : p < pmm_total_pages

\* The pages behind the last whole word are fewer than a word has bits.
LEMMA TailIsShort ==
    ASSUME NEW total \in Nat, NEW S \in SUBSET (0 .. (total - 1)), S \cap ScannedPages(total) = {}
    PROVE  Cardinality(S) < WordBits
<1>1. WordBits \in Nat /\ WordBits > 0
  BY WordBitsAssumption
<1>2. PICK q \in Nat : q = total \div WordBits
  BY <1>1
<1>3. PICK lo \in Nat : lo = WordBits * q
  BY <1>1
<1>4. lo <= total /\ total - lo < WordBits
  BY <1>1, <1>2, <1>3
<1>5. ScannedPages(total) = 0 .. (lo - 1)
  BY <1>2, <1>3 DEF ScannedPages
<1>6. S \in SUBSET (lo .. (total - 1))
  BY <1>5
<1>7. /\ IsFiniteSet(lo .. (total - 1))
      /\ Cardinality(lo .. (total - 1)) = IF lo > total - 1 THEN 0 ELSE (total - 1) - lo + 1
  BY FS_Interval
<1>8. Cardinality(S) <= Cardinality(lo .. (total - 1)) /\ Cardinality(S) \in Nat
  BY <1>6, <1>7, FS_Subset, FS_CardinalityType
<1>9. Cardinality(lo .. (total - 1)) < WordBits
  BY <1>1, <1>4, <1>7
<1> QED BY <1>1, <1>7, <1>8, <1>9

\* Nothing behind the tracked memory becomes free.
LEMMA ClearStep ==
    ASSUME TypeOK, OwnedInv, ClearTracked, [Next]_vars
    PROVE  ClearTracked'
<1>0. pmm_total_pages \in Nat
  BY PMMConstants DEF TypeOK
<1>1. CASE pmm_init_total
  BY <1>1 DEF pmm_init_total, ClearTracked
<1>2. CASE pmm_init_entry
  <2>1. \A p \in EntryPages(mb.mmap[entry], pmm_total_pages) : p < pmm_total_pages
    BY DEF EntryPages
  <2> QED BY <1>2, <2>1 DEF pmm_init_entry, ClearTracked
<1>3. CASE pmm_init_map_end
  BY <1>3 DEF pmm_init_map_end, ClearTracked
<1>4. CASE pmm_init_protect
  BY <1>4 DEF pmm_init_protect, ClearTracked
<1>5. CASE pmm_alloc_page
  BY <1>5 DEF pmm_alloc_page, ClearTracked, bitmap_set
<1>6. ASSUME NEW a \in 0 .. (Wrap - 1), pmm_free_page(a)
      PROVE  ClearTracked'
  BY <1>6 DEF pmm_free_page, ClearTracked, bitmap_clear
<1>7. CASE UNCHANGED vars
  BY <1>7 DEF ClearTracked
<1> QED BY <1>1, <1>2, <1>3, <1>4, <1>5, <1>6, <1>7 DEF Next

\* Page 0 belongs to the kernel image: it is not in the pool.
ZeroUsed == phase = "ready" => AllPages \ pmm_used \in SUBSET (AllPages \ {0})

\* That follows from the protection of the kernel image.
LEMMA ZeroNotFree ==
    ASSUME TypeOK, OwnedInv, ClearTracked
    PROVE  ZeroUsed
<1> SUFFICES ASSUME phase = "ready" PROVE AllPages \ pmm_used \in SUBSET (AllPages \ {0})
  BY DEF ZeroUsed
<1>1. 0 < KernelEnd /\ KernelEnd \in Nat /\ PageSize \in Nat /\ PageSize > 0
  BY PMMConstants
<1>2. ~(kernel_pages <= 0)
  <2>1. HoldsKernel(0)
    BY <1>1 DEF HoldsKernel
  <2>2. 0 >= kernel_pages => ~HoldsKernel(0)
    BY BehindKernel
  <2>3. kernel_pages \in Int
    BY PMMConstants DEF kernel_pages
  <2> QED BY <2>1, <2>2, <2>3
<1>3. kernel_pages \in Int
  BY PMMConstants DEF kernel_pages
<1>4. ASSUME 0 \in AllPages, 0 \notin pmm_used PROVE FALSE
  <2>1. 0 < pmm_total_pages
    BY <1>4 DEF ClearTracked
  <2>2. 0 \in KernelImage(pmm_total_pages)
    BY <1>2, <1>3, <2>1 DEF KernelImage
  <2> QED BY <1>4, <2>2 DEF OwnedInv
<1> QED BY <1>4

\* The pool, as the refinement mapping of PMM sees it.
PoolStage == IF phase = "ready" THEN "open" ELSE "boot"
PoolFree  == IF phase = "ready" THEN AllPages \ pmm_used ELSE {}
PoolVars  == <<PoolStage, PoolFree, owned, ret>>

\* pmm_init is not seen until its last step, which opens the pool.
LEMMA InitRefines ==
    ASSUME ZeroUsed',
           pmm_init_total \/ pmm_init_entry \/ pmm_init_map_end \/ pmm_init_protect
    PROVE  Pool!Open \/ UNCHANGED PoolVars
<1>1. CASE pmm_init_total \/ pmm_init_entry \/ pmm_init_map_end
  <2>1. phase # "ready" /\ phase' # "ready" /\ UNCHANGED <<owned, ret>>
    BY <1>1 DEF pmm_init_total, pmm_init_entry, pmm_init_map_end
  <2> QED BY <2>1 DEF PoolVars, PoolStage, PoolFree
<1>2. CASE pmm_init_protect
  <2>1. phase # "ready" /\ phase' = "ready" /\ UNCHANGED <<owned, ret>>
    BY <1>2 DEF pmm_init_protect
  <2>2. AllPages \ pmm_used' \in SUBSET (AllPages \ {0})
    BY <2>1 DEF ZeroUsed
  <2> QED BY <2>1, <2>2 DEF Pool!Open
<1> QED BY <1>1, <1>2

\* pmm_alloc_page grants a page of the pool, or refuses when the rest of it
\* lies behind the last whole word.
LEMMA AllocRefines ==
    ASSUME TypeOK, ClearTracked, pmm_alloc_page
    PROVE  Pool!Grant \/ Pool!Refuse
<1> DEFINE page == FirstFree(pmm_used, pmm_total_pages)
<1>0. phase = "ready" /\ phase' = "ready"
  BY DEF pmm_alloc_page
<1>1. CASE Allocatable(pmm_used, pmm_total_pages) # {}
  <2>1. page \in AllPages \ pmm_used
    BY <1>1, AllocatedPage
  <2>2. /\ pmm_used' = bitmap_set(pmm_used, page)
        /\ owned' = owned \cup {page} /\ ret' = page * PageSize
    BY <1>1 DEF pmm_alloc_page
  <2> HIDE DEF page
  <2>3. AllPages \ pmm_used' = (AllPages \ pmm_used) \ {page}
    BY <2>2 DEF bitmap_set
  <2>4. Pool!Grant
    BY <1>0, <2>1, <2>2, <2>3 DEF Pool!Grant
  <2> QED BY <2>4
<1>2. CASE Allocatable(pmm_used, pmm_total_pages) = {}
  <2>1. ret' = 0 /\ pmm_used' = pmm_used /\ owned' = owned
    BY <1>2 DEF pmm_alloc_page
  <2>2. PICK S : S = AllPages \ pmm_used
    OBVIOUS
  <2>3. pmm_total_pages \in Nat /\ S \in SUBSET (0 .. (pmm_total_pages - 1))
    BY <1>0, <2>2, PMMConstants DEF ClearTracked, TypeOK, AllPages
  <2>4. S \cap ScannedPages(pmm_total_pages) = {}
    BY <1>2, <2>2 DEF Allocatable, bitmap_test
  <2>5. Cardinality(S) < WordBits
    BY <2>3, <2>4, TailIsShort
  <2>6. Pool!Refuse
    <3>1. (IF phase = "ready" THEN AllPages \ pmm_used ELSE {}) = S
      BY <1>0, <2>2
    <3>2. Cardinality(IF phase = "ready" THEN AllPages \ pmm_used ELSE {}) < WordBits
      BY <2>5, <3>1, Zenon
    <3>3. UNCHANGED PoolStage /\ UNCHANGED PoolFree
      BY <1>0, <2>1 DEF PoolStage, PoolFree
    <3>4. PoolStage = "open"
      BY <1>0 DEF PoolStage
    <3>5. Pool!Cardinality(PoolFree) = Cardinality(PoolFree)
      BY Zenon DEF Cardinality, Pool!Cardinality
    <3>6. Pool!Cardinality(PoolFree) < WordBits
      BY <3>2, <3>5, Zenon DEF PoolFree
    <3> QED BY <2>1, <3>3, <3>4, <3>6, Zenon DEF Pool!Refuse, Pool!Null, PoolStage, PoolFree
  <2> QED BY <2>6
<1> QED BY <1>1, <1>2

\* pmm_free_page gives one held page back to the pool, or is ignored.
LEMMA FreeRefines ==
    ASSUME TypeOK, NEW a \in 0 .. (Wrap - 1), pmm_free_page(a)
    PROVE  Pool!Release \/ Pool!Ignore
<1> DEFINE page == a \div PageSize
           frees == a % PageSize = 0 /\ page < pmm_total_pages /\ bitmap_test(pmm_used, page)
<1>0. phase = "ready" /\ phase' = "ready" /\ ret' = -1 /\ MayFree(a)
  BY DEF pmm_free_page
<1>1. CASE frees
  <2>1. page \in Nat /\ pmm_total_pages \in Nat
    BY PageOfAddress, PMMConstants DEF TypeOK
  <2>2. page \in owned
    BY <1>0, <1>1, <2>1 DEF MayFree
  <2>3. pmm_used' = bitmap_clear(pmm_used, page) /\ owned' = owned \ {page}
    BY <1>1 DEF pmm_free_page
  <2> HIDE DEF page
  <2>4. page \in AllPages
    BY <2>2 DEF TypeOK
  <2>5. AllPages \ pmm_used' = (AllPages \ pmm_used) \cup {page}
    BY <2>3, <2>4 DEF bitmap_clear
  <2>6. Pool!Release
    BY <1>0, <2>2, <2>3, <2>5 DEF Pool!Release, Pool!NoAnswer
  <2> QED BY <2>6
<1>2. CASE ~frees
  <2>1. pmm_used' = pmm_used /\ owned' = owned
    BY <1>2 DEF pmm_free_page
  <2>2. Pool!Ignore
    BY <1>0, <2>1 DEF Pool!Ignore, Pool!NoAnswer
  <2> QED BY <2>2
<1> QED BY <1>1, <1>2

(***************************************************************************)
(* pmm.c implements the page allocator, for any boot information: what it  *)
(* hands out is a page that nobody has and never NULL, a free gives back   *)
(* that page and nothing else, and NULL is answered only while fewer than  *)
(* WordBits (32) pages are free.                                           *)
(***************************************************************************)
THEOREM PMMIsAllocator == Spec => ImplementsAllocator
<1>1. Init => Pool!Init
  BY DEF Init, Pool!Init, Pool!NoAnswer
<1>2. Init => OwnedInv /\ ClearTracked
  BY DEF Init, OwnedInv, ClearTracked
<1>3. TypeOK /\ OwnedInv /\ ClearTracked /\ [Next]_vars => OwnedInv' /\ ClearTracked'
  BY OwnedStep, ClearStep
<1>4. /\ TypeOK /\ OwnedInv /\ ClearTracked /\ [Next]_vars
      /\ ZeroUsed'
      => [Pool!Next]_PoolVars
  <2> SUFFICES ASSUME TypeOK, OwnedInv, ClearTracked, [Next]_vars,
                      ZeroUsed'
               PROVE  Pool!Next \/ UNCHANGED PoolVars
    OBVIOUS
  <2>1. CASE UNCHANGED vars
    BY <2>1 DEF PoolVars, PoolStage, PoolFree
  <2> QED BY <2>1, InitRefines, AllocRefines, FreeRefines DEF Next, Pool!Next
<1>5. TypeOK /\ OwnedInv /\ ClearTracked => ZeroUsed
  BY ZeroNotFree
<1> QED BY <1>1, <1>2, <1>3, <1>4, <1>5, PMMTypeOK, PTL
        DEF Spec, ImplementsAllocator, Pool!Spec, PoolVars, PoolStage, PoolFree
=============================================================================
