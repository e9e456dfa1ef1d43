------------------------------ MODULE MCMemory ------------------------------
(***************************************************************************)
(* The memory manager on a machine with two usable frames above low        *)
(* memory, and a heap of a few allocations.  The heap takes its pages once *)
(* and for all when the system starts (_MmuInitializeHeap), so the two     *)
(* share no state: a behaviour is one of one of them, and object says      *)
(* which.                                                                  *)
(***************************************************************************)
EXTENDS Memory

CONSTANTS HeaderSize, EntrySize, TailSize, HeapSizeMaximum, AllocationSizes, Alignments

VARIABLES object,
          HeapAllocations, HeapSizeRemaining, FreeAddress, EntryToRestartSearch, heapHalted

heapVars == <<HeapAllocations, HeapSizeRemaining, FreeAddress, EntryToRestartSearch, heapHalted>>

H == INSTANCE Heap

ASSUME HeapConstants == H!HeapAssumption

RAM(b, l) == [base |-> b, length |-> l, usable |-> TRUE, valid |-> TRUE]

MCMemoryMap == <<RAM(0, 2), RAM(2, 4), [RAM(6, 2) EXCEPT !.usable = FALSE]>>

MCRights == {{"R", "W"}}
MCSymmetry == Permutations(Threads)

AllInit ==
    /\ object \in {"pages", "heap"} /\ MemoryInit /\ H!HeapInit
    /\ object = "heap" => space = "system"

\* A bound of the run: processes are created and destroyed, and their paging
\* structures with them, while the pages looked at are the kernel's.
TablesOnlyBesideKernel == IF space = "system" THEN TRUE ELSE UNCHANGED tables

AllNext ==
    /\ UNCHANGED object
    /\ \/ object = "pages" /\ Next /\ TablesOnlyBesideKernel /\ UNCHANGED heapVars
       \/ object = "heap" /\ H!HeapNext /\ UNCHANGED vars

AllSpec == AllInit /\ [][AllNext]_<<object, vars, heapVars>>

\* "this list is always ordered by address" (cl_heap.h): whatever is placed in
\* gaps, aligned and freed, allocations neither overlap nor leave the heap, and
\* what the next request goes by, FreeAddress and HeapSizeRemaining, agrees with
\* the list.  It holds as long as the search for a gap starts at an entry that
\* is still in the list and reads no entry through NULL.
AllocationsAreDisjoint == H!AllocationsAreDisjoint
=============================================================================
