-------------------------------- MODULE Heap --------------------------------
(***************************************************************************)
(* The kernel heap: ClHeapAllocatePoolWithTag and ClHeapFreePoolWithTag of *)
(* CommonLib/src/cl_heap.c, which mmu.c calls with the HeapLock of the     *)
(* heap held, so that a call is one step.                                  *)
(*                                                                         *)
(* Memory is handed out behind the last allocation as long as it lasts and *)
(* then from the gaps between two allocations, searched from where the     *)
(* last search ended.  Addresses count from the base of the heap, which    *)
(* every alignment divides; an allocation is its entry, whose data follows *)
(* it, and ends with a tail.  Callers free what they allocated, once, with *)
(* its tag.                                                                *)
(***************************************************************************)
EXTENDS Integers, Sequences, SequencesExt, FiniteSetsExt

CONSTANTS HeaderSize, EntrySize, TailSize,   \* sizeof HEAP_HEADER, HEAP_ENTRY, HEAP_TAIL
          HeapSizeMaximum,
          AllocationSizes, Alignments        \* what callers ask for

HeapAssumption ==
    /\ {HeaderSize, EntrySize, TailSize, HeapSizeMaximum} \subseteq Nat \ {0}
    /\ HeaderSize < HeapSizeMaximum
    /\ AllocationSizes \union Alignments \subseteq Nat \ {0}

VARIABLES HeapAllocations,        \* the list of entries, [at, size]
          HeapSizeRemaining, FreeAddress,
          EntryToRestartSearch,   \* the address of an entry, or ListHead
          heapHalted              \* an access to what is no entry any more

heapVars == <<HeapAllocations, HeapSizeRemaining, FreeAddress, EntryToRestartSearch, heapHalted>>

ListHead == 0
NULL == -1

\* ClHeapInit.
HeapInit ==
    /\ HeapAllocations = <<>>
    /\ HeapSizeRemaining = HeapSizeMaximum - HeaderSize
    /\ FreeAddress = HeaderSize
    /\ EntryToRestartSearch = ListHead /\ heapHalted = FALSE

Required(size) == size + EntrySize + TailSize
End(e) == e.at + Required(e.size)

-----------------------------------------------------------------------------
(* _InitHeapEntry: the data is aligned, the entry goes right before it.    *)

DataAddress(start, alignment) ==
    ((start + EntrySize + alignment - 1) \div alignment) * alignment
NewEntry(start, size, alignment) ==
    [at |-> DataAddress(start, alignment) - EntrySize, size |-> size]

FitsUnaligned(start, size, alignment, available) ==
    available >= Required(size)

Fits(start, size, alignment, available) ==
    available >= DataAddress(start, alignment) - (start + EntrySize) + Required(size)

-----------------------------------------------------------------------------
(* ClHeapAllocatePoolWithTag.  A request that is refused changes nothing.  *)

RemainingSizeUntilEnd == HeapSizeMaximum - FreeAddress - EntrySize

FitsAtEnd(size, alignment) ==
    /\ Required(size) <= RemainingSizeUntilEnd
    /\ Fits(FreeAddress, size, alignment, RemainingSizeUntilEnd)

AllocateAtEnd(size, alignment) ==
    LET new == NewEntry(FreeAddress, size, alignment) IN
    /\ Required(size) <= HeapSizeRemaining
    /\ FitsAtEnd(size, alignment)
    /\ HeapAllocations' = Append(HeapAllocations, new)
    /\ FreeAddress' = End(new)
    /\ HeapSizeRemaining' = HeapSizeRemaining - Required(size)
    /\ UNCHANGED <<EntryToRestartSearch, heapHalted>>

\* There is no room at the end, but enough before it, though perhaps in pieces.
Searches(size, alignment) ==
    /\ Required(size) <= HeapSizeRemaining /\ ~FitsAtEnd(size, alignment)
    /\ Required(size) <= HeapSizeRemaining - RemainingSizeUntilEnd - EntrySize

\* The list with its head, and the entry at an address of it.
Ring == <<ListHead>> \o [i \in DOMAIN HeapAllocations |-> HeapAllocations[i].at]
EntryAt(a) == CHOOSE e \in ToSet(HeapAllocations) : e.at = a
RestartIsListed == EntryToRestartSearch \in ToSet(Ring)

\* The list once round, beginning behind EntryToRestartSearch and ending with it.
Round ==
    LET from == CHOOSE i \in DOMAIN Ring : Ring[i] = EntryToRestartSearch
    IN  [k \in DOMAIN Ring |-> Ring[((from + k - 1) % Len(Ring)) + 1]]

\* pCurEntry is the k-th of the round, pPreviousEntry the one before it.
Steps == 2 .. Len(Ring) - 1
Skipped(k) == ListHead \in {Round[k - 1], Round[k]}

\* pPreviousHeapEntry: a skipped step leaves pCurHeapEntry as it was, and it
\* is copied from there, so it lags behind after the head of the list.
PreviousHeapEntry(k) ==
    LET looked == {j \in 2 .. k - 1 : ~Skipped(j)}
    IN  IF k = 2 THEN Round[1] ELSE IF looked = {} THEN NULL ELSE Round[Max(looked)]

FitsBetween(k, size, alignment) ==
    LET start == End(EntryAt(PreviousHeapEntry(k)))
        between == Round[k] - start
    IN  between >= Required(size) /\ Fits(start, size, alignment, between)

\* The steps at which the search ends.
Stops(size, alignment) ==
    {k \in Steps : ~Skipped(k) /\ (PreviousHeapEntry(k) = NULL \/ FitsBetween(k, size, alignment))}

AllocateBetween(size, alignment) ==
    /\ Searches(size, alignment) /\ RestartIsListed /\ Stops(size, alignment) # {}
    /\ LET k == Min(Stops(size, alignment))
           new == NewEntry(End(EntryAt(PreviousHeapEntry(k))), size, alignment)
           after == CHOOSE i \in DOMAIN HeapAllocations : HeapAllocations[i].at = Round[k - 1]
       IN  /\ PreviousHeapEntry(k) # NULL
           /\ HeapAllocations' = InsertAt(HeapAllocations, after + 1, new)
           /\ EntryToRestartSearch' = new.at
    /\ HeapSizeRemaining' = HeapSizeRemaining - Required(size)
    /\ UNCHANGED <<FreeAddress, heapHalted>>

\* The search starts at an entry that was freed since, or reads through NULL.
SearchGoesAstray(size, alignment) ==
    /\ Searches(size, alignment)
    /\ RestartIsListed =>
          /\ Stops(size, alignment) # {}
          /\ PreviousHeapEntry(Min(Stops(size, alignment))) = NULL
    /\ heapHalted' = TRUE
    /\ UNCHANGED <<HeapAllocations, HeapSizeRemaining, FreeAddress, EntryToRestartSearch>>

\* ClHeapFreePoolWithTag: the last entry hands FreeAddress back to the end of the
\* one before it in the list.
Free(i) ==
    LET e == HeapAllocations[i]
        previous == IF i = 1 THEN HeaderSize ELSE End(HeapAllocations[i - 1])
    IN  /\ HeapAllocations' = RemoveAt(HeapAllocations, i)
        /\ HeapSizeRemaining' = HeapSizeRemaining + Required(e.size)
        /\ FreeAddress' = IF End(e) = FreeAddress THEN previous ELSE FreeAddress
        /\ UNCHANGED <<EntryToRestartSearch, heapHalted>>

HeapNext ==
    /\ ~heapHalted
    /\ \/ \E size \in AllocationSizes, alignment \in Alignments :
             \/ AllocateAtEnd(size, alignment) \/ AllocateBetween(size, alignment)
             \/ SearchGoesAstray(size, alignment)
       \/ \E i \in DOMAIN HeapAllocations : Free(i)

HeapSpec == HeapInit /\ [][HeapNext]_heapVars

-----------------------------------------------------------------------------
(* Properties.                                                             *)

\* The memory that the first k entries of the list take.
Occupied[k \in 0 .. Len(HeapAllocations)] ==
    IF k = 0 THEN 0 ELSE Occupied[k - 1] + Required(HeapAllocations[k].size)

\* Allocations neither overlap nor leave the heap and are listed by address,
\* and FreeAddress and HeapSizeRemaining agree with the list.
AllocationsAreDisjoint ==
    LET n == Len(HeapAllocations) IN
    /\ \A i \in 1 .. n : HeapAllocations[i].at >= (IF i = 1 THEN HeaderSize ELSE End(HeapAllocations[i - 1]))
    /\ FreeAddress = (IF n = 0 THEN HeaderSize ELSE End(HeapAllocations[n]))
    /\ FreeAddress <= HeapSizeMaximum
    /\ HeapSizeMaximum - HeaderSize - HeapSizeRemaining = Occupied[n]
=============================================================================
