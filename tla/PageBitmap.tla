----------------------------- MODULE PageBitmap -----------------------------
(***************************************************************************)
(* The page bitmap of src/pmm.c as pure operators.  pmm_bitmap[i] packs    *)
(* WordBits pages into a word; here the whole bitmap is the set of pages   *)
(* whose bit is 1 (used).  The words stay visible, because the allocator   *)
(* scans, and writes back, whole words.                                    *)
(***************************************************************************)
EXTENDS Naturals

CONSTANT WordBits   \* bits of a bitmap word: 32 in the source

ASSUME WordBitsAssumption == WordBits \in Nat \ {0}

\* The pages that share a bitmap word with page p.
WordOf(p) == LET first == WordBits * (p \div WordBits)
             IN  first .. (first + WordBits - 1)

bitmap_set(used, p) == used \cup {p}

bitmap_clear(used, p) == used \ {p}

bitmap_test(used, p) == p \in used

\* Mutant: the scan stops before the last whole word.
ScannedPages_word_less(total) == 0 .. (WordBits * (total \div WordBits - 1) - 1)

\* pmm_alloc_page looks at the words 0 .. total/32 - 1 only: these pages.
ScannedPages(total) == 0 .. (WordBits * (total \div WordBits) - 1)

\* The clear bits that the scan of pmm_alloc_page can see.
Allocatable(used, total) == {p \in ScannedPages(total) : ~bitmap_test(used, p)}

\* The page the scan stops at: lowest word first, lowest bit first.
FirstFree(used, total) ==
    CHOOSE p \in Allocatable(used, total) :
        \A q \in Allocatable(used, total) : p <= q

\* Writing back word i of the bitmap: "word" is the value the CPU loaded
\* from it when it tested the bit of page p, possibly outdated by now.
StoreWord(used, p, word) == (used \ WordOf(p)) \cup word \cup {p}
=============================================================================
