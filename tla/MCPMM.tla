------------------------------- MODULE MCPMM -------------------------------
(***************************************************************************)
(* Instances of PMM for TLC: pages of 2 bytes, words of 2 bits, at most 6  *)
(* tracked pages, uint32_t shrunk to 4 bits (Wrap = 16).                   *)
(***************************************************************************)
EXTENDS PMM

Region(b, l) == [available |-> TRUE, high |-> FALSE, long |-> FALSE, base |-> b, len |-> l]
Reserved(b, l) == [available |-> FALSE, high |-> FALSE, long |-> FALSE, base |-> b, len |-> l]
HighRegion(b, l) == [available |-> TRUE, high |-> TRUE, long |-> FALSE, base |-> b, len |-> l]
LongRegion(b, l) == [available |-> TRUE, high |-> FALSE, long |-> TRUE, base |-> b, len |-> l]

MCEntries ==
    {Region(b, l) : b \in {0, 3, 5, 6}, l \in {0, 1, 4, 7}}
        \cup {Reserved(4, 4), HighRegion(0, 9), Region(12, 4), Region(15, 1),
              LongRegion(12, 7)}

\* Maps of up to two entries, overlapping ones included, and regions up to the
\* end of the address space or across it, whose sums wrap around; with and without
\* mem_upper: 5 and 6 tracked pages, and a mem_upper that wraps around.
MCBootInfos ==
    LET maps == {<<>>} \cup [1 .. 1 -> MCEntries] \cup [1 .. 2 -> MCEntries]
    IN  [hasMem : {TRUE}, mem_upper : {3, 4, 13}, hasMap : {TRUE}, mmap : maps]
        \cup {[hasMem |-> FALSE, mem_upper |-> 0, hasMap |-> TRUE,
               mmap |-> <<Region(0, 7), Region(5, 7)>>],
              [hasMem |-> TRUE, mem_upper |-> 4, hasMap |-> FALSE, mmap |-> <<>>]}

\* The maps meet what the theorems about PMM ask of them.
ASSUME MapsAssumption == BasesRoundUp /\ RegionsFit

\* Five tracked pages are two whole words and one page of a third.
MCTailInfos == [hasMem : {TRUE}, mem_upper : {3}, hasMap : {TRUE},
                mmap : {<<Region(0, 12)>>}]
=============================================================================
