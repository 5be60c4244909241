-------------------------------- MODULE PMM --------------------------------
(***************************************************************************)
(* The physical memory manager, src/pmm.c: pmm_init builds the bitmap from *)
(* the Multiboot memory map, pmm_alloc_page and pmm_free_page then serve   *)
(* the stacks of processes and threads.  All of it is sequential code (the *)
(* races on the bitmap are in Kernel.tla); uint32_t arithmetic is modulo   *)
(* Wrap.                                                                   *)
(***************************************************************************)
EXTENDS PageBitmap, Integers, FiniteSets, Sequences

CONSTANTS
    MaxPages,   \* PMM_MAX_PAGES
    PageSize,   \* PAGE_SIZE, in bytes
    KBPerPage,  \* the 4 of "4 KB per page"
    LowKB,      \* the 1024 of "lower 1 MB + upper"
    Wrap,       \* 2^32, one more than the largest uint32_t
    KernelEnd,  \* the address of the linker symbol kernel_end
    BootInfos   \* the multiboot_info_t values the boot loader may pass

\* One memory map entry.  "high" stands for addr_high # 0, which pmm_init
\* tests, "long" for len_high # 0, which it does not read: base and len are
\* addr_low and len_low.
Entries == [available : BOOLEAN, high : BOOLEAN, long : BOOLEAN,
            base : 0 .. (Wrap - 1), len : 0 .. (Wrap - 1)]

\* flags, mem_upper and the memory map, as pmm_init reads them.
BootInfoType == [hasMem : BOOLEAN, mem_upper : 0 .. (Wrap - 1),
                 hasMap : BOOLEAN, mmap : Seq(Entries)]

ASSUME PMMAssumption ==
    /\ MaxPages \in Nat \ {0}
    /\ PageSize \in Nat \ {0}
    /\ KBPerPage \in Nat \ {0}
    /\ LowKB \in Nat
    /\ Wrap \in Nat \ {0}
    /\ MaxPages * PageSize <= Wrap
    /\ KernelEnd \in 1 .. (Wrap - PageSize)
    /\ BootInfos \subseteq BootInfoType

VARIABLES
    pmm_used,         \* pmm_bitmap: the pages whose bit is set
    pmm_total_pages,
    pmm_free_pages,
    mb,               \* the argument of pmm_init
    entry,            \* pmm_init's cursor in the memory map
    phase,            \* where pmm_init is; "ready" once it has returned
    owned,            \* pages handed out and not given back (history)
    ret               \* what the last pmm_alloc_page returned; -1: nothing yet

vars == <<pmm_used, pmm_total_pages, pmm_free_pages, mb, entry, phase, owned, ret>>

AllPages == 0 .. (MaxPages - 1)

\* Mutant: the size of the kernel image rounded down.
kernel_pages_rounded_down == KernelEnd \div PageSize

kernel_pages == (KernelEnd + PageSize - 1) \div PageSize

\* Page 0 through kernel_end, as far as the tracked memory reaches.
KernelImage(total) == {p \in 0 .. (kernel_pages - 1) : p < total}

\* Mutant: mem_upper is not limited to the pages that the bitmap covers.
TotalPagesUncapped(info) ==
    IF info.hasMem THEN ((LowKB + info.mem_upper) % Wrap) \div KBPerPage ELSE MaxPages

\* pmm_total_pages from mem_upper, or the maximum when it is not given.
TotalPages(info) ==
    LET pages == ((LowKB + info.mem_upper) % Wrap) \div KBPerPage
    IN  IF info.hasMem /\ pages <= MaxPages THEN pages ELSE MaxPages

\* Mutant: the first page of an entry rounded down instead of up.
EntryPagesFromPartialPage(e, total) ==
    {p \in AllPages : /\ e.available /\ ~e.high
                      /\ e.base \div PageSize <= p
                      /\ p < (e.base + e.len) \div PageSize
                      /\ p < total}

\* The pages first .. last - 1 that pmm_init frees for a map entry.
EntryPages(e, total) ==
    LET first == ((e.base + PageSize - 1) % Wrap) \div PageSize
        last  == ((e.base + e.len) % Wrap) \div PageSize
    IN  IF e.available /\ ~e.high
        THEN {p \in AllPages : first <= p /\ p < last /\ p < total}
        ELSE {}
-----------------------------------------------------------------------------
\* Before pmm_init the bitmap and the counters are zero (.bss).
Init ==
    /\ pmm_used = {}
    /\ pmm_total_pages = 0
    /\ pmm_free_pages = 0
    /\ mb \in BootInfos
    /\ entry = 1
    /\ phase = "start"
    /\ owned = {}
    /\ ret = -1

\* pmm_init, first part: everything is used, pmm_total_pages is computed.
pmm_init_total ==
    /\ phase = "start"
    /\ pmm_used' = AllPages
    /\ pmm_free_pages' = 0
    /\ pmm_total_pages' = TotalPages(mb)
    /\ phase' = IF mb.hasMap THEN "map" ELSE "protect"
    /\ UNCHANGED <<mb, entry, owned, ret>>

\* Mutant: a page that two entries cover is counted twice (no bitmap_test).
pmm_init_entry_untested ==
    LET freed == EntryPages(mb.mmap[entry], pmm_total_pages)
    IN  /\ phase = "map"
        /\ entry <= Len(mb.mmap)
        /\ pmm_used' = pmm_used \ freed
        /\ pmm_free_pages' = pmm_free_pages + Cardinality(freed)
        /\ entry' = entry + 1
        /\ UNCHANGED <<pmm_total_pages, mb, phase, owned, ret>>

\* pmm_init, the walk of the memory map: the pages of one entry.
pmm_init_entry ==
    LET freed == EntryPages(mb.mmap[entry], pmm_total_pages) \cap pmm_used
    IN  /\ phase = "map"
        /\ entry <= Len(mb.mmap)
        /\ pmm_used' = pmm_used \ freed
        /\ pmm_free_pages' = pmm_free_pages + Cardinality(freed)
        /\ entry' = entry + 1
        /\ UNCHANGED <<pmm_total_pages, mb, phase, owned, ret>>

pmm_init_map_end ==
    /\ phase = "map"
    /\ entry > Len(mb.mmap)
    /\ phase' = "protect"
    /\ UNCHANGED <<pmm_used, pmm_total_pages, pmm_free_pages, mb, entry, owned, ret>>

\* pmm_init, last part: the kernel image is marked used again.
pmm_init_protect ==
    LET taken == KernelImage(pmm_total_pages) \ pmm_used
        n     == Cardinality(taken)
    IN  /\ phase = "protect"
        /\ pmm_used' = pmm_used \cup taken
        /\ pmm_free_pages' = IF n <= pmm_free_pages THEN pmm_free_pages - n ELSE 0
        /\ phase' = "ready"
        /\ UNCHANGED <<pmm_total_pages, mb, entry, owned, ret>>

pmm_alloc_page ==
    /\ phase = "ready"
    /\ \/ LET page == FirstFree(pmm_used, pmm_total_pages)
          IN  /\ Allocatable(pmm_used, pmm_total_pages) # {}
              /\ pmm_used' = bitmap_set(pmm_used, page)
              /\ pmm_free_pages' = pmm_free_pages - 1
              /\ owned' = owned \cup {page}
              /\ ret' = page * PageSize
       \/ /\ Allocatable(pmm_used, pmm_total_pages) = {}
          /\ ret' = 0
          /\ UNCHANGED <<pmm_used, pmm_free_pages, owned>>
    /\ UNCHANGED <<pmm_total_pages, mb, entry, phase>>

\* The addresses callers pass: a page they own, or what the header says is
\* ignored (misaligned addresses) and what the code ignores (beyond the end).
MayFree(a) ==
    \/ a % PageSize # 0
    \/ a \div PageSize >= pmm_total_pages
    \/ (a \div PageSize) \in owned

\* Mutant: the alignment test of pmm_free_page is missing.
pmm_free_page_unaligned(a) ==
    LET page == a \div PageSize
    IN  /\ phase = "ready"
        /\ MayFree(a)
        /\ page < pmm_total_pages
        /\ bitmap_test(pmm_used, page)
        /\ pmm_used' = bitmap_clear(pmm_used, page)
        /\ pmm_free_pages' = pmm_free_pages + 1
        /\ owned' = owned \ {page}
        /\ ret' = -1
        /\ UNCHANGED <<pmm_total_pages, mb, entry, phase>>

pmm_free_page(a) ==
    LET page == a \div PageSize
        frees == /\ a % PageSize = 0
                 /\ page < pmm_total_pages
                 /\ bitmap_test(pmm_used, page)
    IN  /\ phase = "ready"
        /\ MayFree(a)
        /\ \/ /\ frees
              /\ pmm_used' = bitmap_clear(pmm_used, page)
              /\ pmm_free_pages' = pmm_free_pages + 1
              /\ owned' = owned \ {page}
           \/ /\ ~frees
              /\ UNCHANGED <<pmm_used, pmm_free_pages, owned>>
        /\ ret' = -1
        /\ UNCHANGED <<pmm_total_pages, mb, entry, phase>>

Next ==
    \/ pmm_init_total
    \/ pmm_init_entry
    \/ pmm_init_map_end
    \/ pmm_init_protect
    \/ pmm_alloc_page
    \/ \E a \in 0 .. (Wrap - 1) : pmm_free_page(a)

Spec == Init /\ [][Next]_vars
-----------------------------------------------------------------------------
\* pmm_init tracks no more pages than the bitmap has bits, and the indices
\* and counters of pmm.c stay in their ranges.
TypeOK ==
    /\ pmm_used \subseteq AllPages
    /\ pmm_total_pages \in 0 .. MaxPages
    /\ pmm_free_pages \in Nat
    /\ mb \in BootInfos
    /\ entry \in Nat \ {0}
    /\ phase \in {"start", "map", "protect", "ready"}
    /\ owned \subseteq AllPages
    /\ ret \in Int

\* pmm_get_free_page_count is the number of clear bits, from the first step
\* of pmm_init on: overlapping map entries, the re-protection of the kernel,
\* allocation failures, misaligned and out-of-range frees included.
FreeCountExact ==
    phase # "start" => pmm_free_pages = Cardinality(AllPages \ pmm_used)

\* Byte by byte: the page holds a byte of the kernel image, which ends at
\* kernel_end; the page lies inside an available region.
HoldsKernel(p) == p * PageSize < KernelEnd

InsideRegion(e, p) ==
    /\ e.available /\ ~e.high
    /\ e.base <= p * PageSize
    /\ e.long \/ (p + 1) * PageSize <= e.base + e.len

InsideAvailable(p) == \E i \in DOMAIN mb.mmap : InsideRegion(mb.mmap[i], p)

\* pmm_alloc_page never hands out a page that holds part of the kernel image
\* (page 0 included: address 0 would read as a failure to the callers).
KernelNeverHandedOut == \A p \in owned : ~HoldsKernel(p)

\* Only memory that the boot loader reports available is ever handed out
\* (comment in pmm_init: "Walk the Multiboot memory map and free available
\* regions").
OnlyAvailableHandedOut == \A p \in owned : InsideAvailable(p)

\* Once pmm_init has returned, the usable pages are split into the free ones
\* and the ones with an owner: nothing is lost, and nothing has two owners,
\* whatever sequence of allocations and frees has happened.
Usable == {p \in AllPages : /\ p < pmm_total_pages
                            /\ mb.hasMap /\ InsideAvailable(p)
                            /\ ~HoldsKernel(p)}

MemoryPartition ==
    phase = "ready" =>
        /\ owned \cap (AllPages \ pmm_used) = {}
        /\ owned \cup (AllPages \ pmm_used) = Usable

(***************************************************************************)
(* pmm.c is a page allocator: once pmm_init is done, every address that    *)
(* pmm_alloc_page returns is that of a page which nobody has, never NULL,  *)
(* pmm_free_page gives back that one page or does nothing, and a NULL      *)
(* means that fewer than WordBits pages are free (those behind the last    *)
(* whole word of the bitmap, which the scan does not reach).               *)
(***************************************************************************)
Pool == INSTANCE PageAllocator WITH
    Pages  <- AllPages,
    Slack  <- WordBits,
    stage  <- IF phase = "ready" THEN "open" ELSE "boot",
    free   <- IF phase = "ready" THEN AllPages \ pmm_used ELSE {},
    held   <- owned,
    answer <- ret

ImplementsAllocator == Pool!Spec

(***************************************************************************)
(* What the sums of pmm_init, modulo Wrap, need of the memory map.  No     *)
(* region may begin inside the last page of the address space without      *)
(* reaching its end: the base rounded up would be 0.  And a region up to   *)
(* or across the end of the address space (one whose 64-bit length does    *)
(* not fit len_low included) must begin behind the tracked memory: its end *)
(* wraps around or is cut short, and pages of it would be lost.            *)
(***************************************************************************)
UsableRegion(e) ==
    \E info \in BootInfos : \E i \in DOMAIN info.mmap :
        e = info.mmap[i] /\ e.available /\ ~e.high

BasesRoundUp ==
    \A e \in Entries : UsableRegion(e) =>
        e.base <= Wrap - PageSize \/ e.base + e.len = Wrap

RegionsFit ==
    \A e \in Entries : UsableRegion(e) =>
        \/ /\ e.base <= Wrap - PageSize
           /\ ~e.long /\ e.base + e.len < Wrap
        \/ /\ MaxPages * PageSize <= e.base
           /\ e.base <= Wrap - PageSize \/ e.base + e.len = Wrap

\* pmm.h: "Allocate one 4 KB page; returns physical address or NULL if none
\* free".
NullMeansNoneFree == ret = 0 => pmm_free_pages = 0
=============================================================================
