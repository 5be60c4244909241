-------------------------- MODULE PageBitmap_proof --------------------------
(***************************************************************************)
(* Facts about the operators of PageBitmap, for every word width, that the *)
(* proofs about the allocator and the kernel use.                          *)
(***************************************************************************)
EXTENDS PageBitmap, Integers, WellFoundedInduction, TLAPS

\* Every set of pages has a lowest page: the bitmap scan stops at one.
LEMMA LeastNatural ==
    ASSUME NEW S \in SUBSET Nat, S # {}
    PROVE  \E x \in S : \A y \in S : x <= y
<1> DEFINE R == OpToRel(<, Nat)
<1>1. IsWellFoundedOn(R, Nat)
  BY NatLessThanWellFounded, Zenon
<1>2. PICK x \in S : \A y \in S : ~(<<y, x>> \in R)
  <2> HIDE DEF R
  <2> QED BY <1>1, WFMin
<1>3. \A y \in S : x <= y
  <2> TAKE y \in S
  <2>1. ~(<<y, x>> \in R)
    BY <1>2
  <2>2. ~(y < x)
    BY <2>1, Zenon DEF OpToRel
  <2> QED BY <2>2
<1> QED BY <1>3

\* The pages that pmm_alloc_page looks at are pages below pmm_total_pages.
LEMMA ScannedBelowTotal ==
    ASSUME NEW total \in Nat
    PROVE  ScannedPages(total) \subseteq 0 .. (total - 1)
<1>1. WordBits \in Nat /\ WordBits > 0
  BY WordBitsAssumption
<1>2. WordBits * (total \div WordBits) <= total
  BY <1>1
<1>3. WordBits * (total \div WordBits) \in Int
  BY <1>1
<1> QED BY <1>2, <1>3 DEF ScannedPages

\* When the scan finds a clear bit, the page it returns is one that it has
\* scanned and whose bit was clear.
LEMMA FirstFreeIsFree ==
    ASSUME NEW used, NEW total \in Nat, Allocatable(used, total) # {}
    PROVE  /\ FirstFree(used, total) \in Allocatable(used, total)
           /\ FirstFree(used, total) \in 0 .. (total - 1)
           /\ FirstFree(used, total) \notin used
<1>1. Allocatable(used, total) \subseteq ScannedPages(total)
  BY DEF Allocatable
<1>2. Allocatable(used, total) \subseteq 0 .. (total - 1)
  BY <1>1, ScannedBelowTotal
<1>3. Allocatable(used, total) \in SUBSET Nat
  BY <1>2
<1>4. \E p \in Allocatable(used, total) : \A q \in Allocatable(used, total) : p <= q
  BY <1>3, LeastNatural
<1>5. FirstFree(used, total) \in Allocatable(used, total)
  BY <1>4 DEF FirstFree
<1> QED BY <1>2, <1>5 DEF Allocatable, bitmap_test
=============================================================================
