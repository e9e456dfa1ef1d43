-------------------------------- MODULE Pmm ---------------------------------
(***************************************************************************)
(* The physical memory manager of HAL9000/src/pmm.c: one bit per frame,    *)
(* set while the frame is reserved, under the AllocationLock.  A physical  *)
(* address is its frame number, NULL is NoFrame: frame 0 lies below 1MB    *)
(* and is never given out.                                                 *)
(***************************************************************************)
EXTENDS Bitmap, Sequences

CONSTANTS MemoryMap,     \* the INT 15h memory map: a sequence of entries
          PAGE_SIZE,     \* addresses of the map in this many bytes to a frame
          LowMemory,     \* addresses below this (1MB) are never used
          NoFrame        \* the NULL physical address

ASSUME PmmAssumption ==
    /\ PAGE_SIZE \in Nat \ {0} /\ LowMemory \in Nat \ {0}
    /\ MemoryMap \in Seq([base : Nat, length : Nat, usable : BOOLEAN, valid : BOOLEAN]) /\ MemoryMap # <<>>

VARIABLE AllocationBitmap

Entries == {MemoryMap[i] : i \in DOMAIN MemoryMap}

AlignUpper(a) == ((a + PAGE_SIZE - 1) \div PAGE_SIZE) * PAGE_SIZE

\* _PmmDetermineMemoryLimits: the end of the highest entry, valid or not.
HighestPhysicalAddressPresent == Max({e.base + e.length : e \in Entries})
NumberOfFrames == HighestPhysicalAddressPresent \div PAGE_SIZE
Frames == 0 .. NumberOfFrames - 1

\* The frames the entry gives to the allocator.
FramesOf(e) == LET first == AlignUpper(e.base) \div PAGE_SIZE
               IN  first .. first + (e.length \div PAGE_SIZE) - 1

\* _PmmInitializeAllocationBitmap: reserve everything, release the usable RAM.
AvailableFrames == UNION {FramesOf(e) : e \in {d \in Entries : d.valid /\ d.usable /\ d.base >= LowMemory}}

PmmInitSystem == AllocationBitmap = [f \in Frames |-> f \notin AvailableFrames]

\* PmmReserveMemoryEx(n, min): the first of n free frames in a row, or NoFrame.
PmmReserved(n, min) == IF BitmapScanFrom(AllocationBitmap, min, n, FALSE) = MAX_DWORD THEN NoFrame
                       ELSE BitmapScanFrom(AllocationBitmap, min, n, FALSE)
PmmReserveMemoryEx(n, min) == AllocationBitmap' = BitmapScanFromAndFlip(AllocationBitmap, min, n, FALSE)
PmmReserveMemory(n) == PmmReserveMemoryEx(n, 0)

\* BitmapClearBits clears what it is told, reserved or not.
PmmReleaseMemory(f, n) == AllocationBitmap' = BitmapSetBitsValue(AllocationBitmap, f, n, FALSE)
=============================================================================
