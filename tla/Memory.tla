------------------------------- MODULE Memory -------------------------------
(***************************************************************************)
(* The memory manager of HAL9000: VmmAllocRegionEx, VmmFreeRegionEx and    *)
(* VmmSolvePageFault of vmm.c over the reservation space and the physical  *)
(* frames, the kernel's page tables, the stacks and process address spaces *)
(* of mmu.c and the worker thread that zeroes released frames.             *)
(*                                                                         *)
(* One step is one critical section: the ReservationLock, the              *)
(* AllocationLock, the paging lock or the PagesLock.  Between two of them  *)
(* every other thread, on another CPU, may run.  Callers keep their side   *)
(* of the contract (Quiet, Unreserved): a thread does not use, commit or   *)
(* free memory that another one is allocating or freeing, and explicit     *)
(* reservations ask for pages that are not reserved.                       *)
(* Translation look-aside buffers are not modelled: an access sees the     *)
(* page tables.                                                            *)
(***************************************************************************)
EXTENDS Pmm, VmReservationSpace, SequencesExt

CONSTANTS Threads,           \* kernel threads that call the memory manager
          Files,             \* file objects that can back a region
          Processes,         \* user processes, for their address spaces
          Rights,            \* the PAGE_RIGHTS callers use
          GeneratedPages,    \* pages 1 .. GeneratedPages come from the pointer
          NPages,            \* the others are only reserved explicitly
          MaxSize,           \* bound on the pages of a region
          TableFrames,       \* frames of a process's paging structures
          GuardSize          \* pages of a stack guard

ASSUME MemoryAssumption ==
    /\ NSlots \in Nat \ {0} /\ NPages \in Nat /\ GeneratedPages \in 1 .. NPages /\ MaxSize \in Nat \ {0}
    /\ TableFrames \in Nat \ {0} /\ GuardSize \in Nat \ {0} /\ StateBit \in Nat /\ StateWidth \in Nat
    /\ NoFile \notin Files /\ NoFrame \notin Frames
    /\ AvailableFrames \subseteq Frames          \* the asserts of BitmapClearBits

Pages == 1 .. NPages

VARIABLES space,                   \* whose reservations and page tables these are
          pte,                     \* page -> frame, the page tables
          PagesToZeroList,         \* frames waiting for the zero worker
          NewPagesEvent,           \* its notification event, signaled or not
          worker,                  \* where the zero worker is, and its item
          op,                      \* per thread: where it is in which call
          tables,                  \* per process: first frame of its page tables
          images,                  \* per process: frames of its executable
          halted                   \* an ASSERT failed

workerVars == <<PagesToZeroList, NewPagesEvent, worker>>
vars == <<AllocationBitmap, spaceVars, pte, workerVars, op, tables, images, space, halted>>

Idle == [pc |-> "out"]
IdleWorker == [pc |-> "wait", frame |-> NoFrame]

MemoryInit ==
    /\ PmmInitSystem /\ VmReservationSpaceInit /\ space \in {"system", "process"}
    /\ pte = [p \in Pages |-> NoFrame]
    /\ PagesToZeroList = <<>> /\ NewPagesEvent = FALSE /\ worker = IdleWorker
    /\ op = [t \in Threads |-> Idle]
    /\ tables = [p \in Processes |-> NoFrame] /\ images = [p \in Processes |-> {}] /\ halted = FALSE

Goto(t, l) == op' = [op EXCEPT ![t].pc = l]
Return(t) == op' = [op EXCEPT ![t] = Idle]

Span(va, n) == va .. va + n - 1

\* No other thread is in a call about these pages.
Quiet(t, va, n) ==
    \A u \in Threads \ {t} : op[u].pc # "out" => Span(op[u].va, op[u].n) \intersect Span(va, n) = {}

\* No reservation and no allocation under way has one of these pages; pages
\* that are being freed may be among them.
Unreserved(t, va, n) ==
    /\ \A s \in Slots : ReservationList[s].State = "Used" =>
          Span(ReservationList[s].StartVa, ReservationList[s].Size) \intersect Span(va, n) = {}
    /\ \A u \in Threads \ {t} : op[u].pc \in {"reserve", "frames", "map", "read"} =>
          Span(op[u].va, op[u].n) \intersect Span(va, n) = {}

-----------------------------------------------------------------------------
(* The page tables: MmuMapMemoryInternal and MmuUnmapMemoryEx.             *)

\* _VmMapPage with Invalidate: the entry is written whether present or not.
MapPages(va, n, frame) ==
    pte' = [p \in Pages |-> IF p \in Span(va, n) THEN frame + (p - va) ELSE pte[p]]

UnmapPages(va, n) == pte' = [p \in Pages |-> IF p \in Span(va, n) THEN NoFrame ELSE pte[p]]

\* MmuReleaseMemory for each frame: queue it for zeroing, signal the worker.
ReleaseFrames(s) ==
    /\ PagesToZeroList' = PagesToZeroList \o s
    /\ NewPagesEvent' = (NewPagesEvent \/ s # <<>>)

\* The frames of a region, in the order in which its pages are walked.
PresentFrames(va, n) ==
    LET present == {p \in Span(va, n) : pte[p] # NoFrame}
        walk == CHOOSE s \in SetToSeqs(present) : \A i, j \in DOMAIN s : i < j => s[i] < s[j]
    IN  [i \in DOMAIN walk |-> pte[walk[i]]]

-----------------------------------------------------------------------------
(* VmmAllocRegionEx and MmuAllocStack.                                     *)

AllocTypes == {"reserve", "commit", "both", "stack"}

\* Mutant. The pointer moves by one page whatever the size.
AllocGeneratedByOne(t, type, n, rights, eager, file) ==
    /\ op[t].pc = "out" /\ type # "commit"
    /\ FreeVirtualAddressPointer + n <= GeneratedPages + 1
    /\ FreeVirtualAddressPointer' = FreeVirtualAddressPointer + 1
    /\ op' = [op EXCEPT ![t] = [pc |-> "reserve", type |-> type, va |-> FreeVirtualAddressPointer,
                                n |-> n, rights |-> rights, eager |-> eager, file |-> file, frame |-> NoFrame]]
    /\ UNCHANGED <<AllocationBitmap, ReservationList, FreeBitmapAddress, pte, workerVars, tables, images, space, halted>>

\* A generated address: the interlocked add on FreeVirtualAddressPointer.
AllocGenerated(t, type, n, rights, eager, file) ==
    /\ op[t].pc = "out" /\ type # "commit"
    /\ FreeVirtualAddressPointer + n <= GeneratedPages + 1
    /\ FreeVirtualAddressPointer' = FreeVirtualAddressPointer + n
    /\ op' = [op EXCEPT ![t] = [pc |-> "reserve", type |-> type, va |-> FreeVirtualAddressPointer,
                                n |-> n, rights |-> rights, eager |-> eager, file |-> file, frame |-> NoFrame]]
    /\ UNCHANGED <<AllocationBitmap, ReservationList, FreeBitmapAddress, pte, workerVars, tables, images, space, halted>>

\* An explicit address, of pages to commit or to reserve, that the generated
\* addresses have passed or will not reach.
AllocAt(t, type, va, n, rights, eager) ==
    /\ op[t].pc = "out" /\ type # "stack"
    /\ Span(va, n) \subseteq Pages
    /\ va + n <= FreeVirtualAddressPointer \/ va > GeneratedPages
    /\ IF type = "commit" THEN Quiet(t, va, n) ELSE Unreserved(t, va, n)
    /\ op' = [op EXCEPT ![t] = [pc |-> "reserve", type |-> type, va |-> va,
                                n |-> n, rights |-> rights, eager |-> eager, file |-> NoFile, frame |-> NoFrame]]
    /\ UNCHANGED <<AllocationBitmap, spaceVars, pte, workerVars, tables, images, space, halted>>

\* MmuAllocStack: the second call commits all of the reservation but its guard pages.
CommitStack(o) == [o EXCEPT !.type = "commit", !.va = o.va + GuardSize, !.n = o.n - GuardSize]

\* VmReservationSpaceAllocRegion under the ReservationLock.  A stack is
\* reserved as a whole first, and its pages above the guard are committed
\* by a second call.
AllocReserve(t) ==
    LET o == op[t]
        reserves == o.type \in {"reserve", "both", "stack"}
        slot == IF reserves THEN FindFirstFree ELSE FindReservation(o.va, o.n)
        ok == IF reserves THEN CanReserve(o.va, o.n) ELSE CanCommit(o.va, o.n, o.rights)
        list == IF reserves THEN Reserve(ReservationList, o.va, o.n, o.rights, o.file) ELSE ReservationList
    IN  /\ o.pc = "reserve" /\ (reserves /\ ok => RoomToReserve)
        /\ \/ ~ok /\ Return(t) /\ UNCHANGED <<ReservationList, FreeBitmapAddress>>
           \/ /\ ok
              /\ FreeBitmapAddress' = FreeBitmapAddress + (IF reserves THEN 1 ELSE 0)
              /\ ReservationList' = IF o.type \in {"both", "commit"} THEN Commit(list, slot, o.va, o.n) ELSE list
              /\ IF o.type = "stack"
                 THEN op' = [op EXCEPT ![t] = CommitStack(o)]
                 ELSE IF o.eager THEN Goto(t, "frames") ELSE Return(t)
        /\ UNCHANGED <<AllocationBitmap, FreeVirtualAddressPointer, pte, workerVars, tables, images, space, halted>>

\* The asserts of _VmChangeVaReservationState and _VmInitializeReservation.
NoRoomToReserve(t) ==
    /\ op[t].pc = "reserve" /\ op[t].type # "commit"
    /\ CanReserve(op[t].va, op[t].n) /\ ~RoomToReserve
    /\ halted' = TRUE
    /\ UNCHANGED <<AllocationBitmap, spaceVars, pte, workerVars, op, tables, images, space>>

\* PmmReserveMemory of all the frames of an eager region.  Without them the
\* call still succeeds and leaves the pages to be mapped lazily.
AllocFrames(t) ==
    LET f == PmmReserved(op[t].n, 0)
    IN  /\ op[t].pc = "frames"
        /\ PmmReserveMemory(op[t].n)
        /\ op' = [op EXCEPT ![t] = IF f = NoFrame THEN Idle ELSE [op[t] EXCEPT !.pc = "map", !.frame = f]]
        /\ UNCHANGED <<spaceVars, pte, workerVars, tables, images, space, halted>>

AllocMap(t) ==
    /\ op[t].pc = "map"
    /\ MapPages(op[t].va, op[t].n, op[t].frame)
    /\ IF op[t].file = NoFile THEN Return(t) ELSE Goto(t, "read")
    /\ UNCHANGED <<AllocationBitmap, spaceVars, workerVars, tables, images, space, halted>>

\* Mutant. A failed read returns without undoing the allocation's frames.
AllocReadNoUnmap(t, ok) ==
    /\ op[t].pc = "read" /\ Return(t)
    /\ IF ok THEN UNCHANGED <<ReservationList, pte>>
       ELSE /\ ReservationList' = [ReservationList EXCEPT ![FindReservation(op[t].va, 1)] = ZeroedSlot]
            /\ UnmapPages(op[t].va, op[t].n)
    /\ UNCHANGED <<AllocationBitmap, FreeBitmapAddress, FreeVirtualAddressPointer, workerVars, tables, images, space, halted>>

\* IoReadFile into the region.  A failure releases reservation and frames.
AllocRead(t, ok) ==
    /\ op[t].pc = "read"
    /\ IF ok THEN Return(t)
             ELSE op' = [op EXCEPT ![t] = [pc |-> "free", va |-> op[t].va, n |-> op[t].n,
                                           type |-> "release", keep |-> {}]]
    /\ UNCHANGED <<AllocationBitmap, spaceVars, pte, workerVars, tables, images, space, halted>>
-----------------------------------------------------------------------------
(* VmmFreeRegionEx and MmuFreeStack.                                       *)

\* The caller's side: an address of a reservation that nobody else uses.  With
\* Release FALSE, for the kernel's buffer of an executable, keep is the process
\* in which its frames live on; otherwise it is empty.
FreeBegin(t, s, type, va, n, keep) ==
    LET r == ReservationList[s]
    IN  /\ op[t].pc = "out" /\ s \in BeforeLast /\ r.State = "Used"
        /\ CheckBounds(va, n, r)
        /\ type = "release" => va = r.StartVa /\ n = r.Size
        /\ keep # {} => type = "release" /\ r.BackingFile # NoFile /\ space = "system"
        /\ \A p \in keep : tables[p] # NoFrame
        /\ Quiet(t, va, n)
        /\ op' = [op EXCEPT ![t] = [pc |-> "free", va |-> va, n |-> n, type |-> type, keep |-> keep]]
        /\ UNCHANGED <<AllocationBitmap, spaceVars, pte, workerVars, tables, images, space, halted>>

\* VmReservationSpaceFreeRegion under the ReservationLock; the reservation is
\* looked up by its address alone.
FreeReservation(t) ==
    LET s == FindReservation(op[t].va, 1)
    IN  /\ op[t].pc = "free" /\ s # 0
        /\ IF op[t].type = "release"
           THEN ReservationList' = [ReservationList EXCEPT ![s] = ZeroedSlot]
           ELSE ReservationList' = [ReservationList EXCEPT
                                       ![s] = ChangeCommit(ReservationList[s], op[t].va, op[t].n, FALSE)]
        /\ Goto(t, "unmap")
        /\ UNCHANGED <<AllocationBitmap, FreeBitmapAddress, FreeVirtualAddressPointer, pte, workerVars, tables,
                       images, space, halted>>

\* Mutant. The region is unmapped without its last page.
FreeUnmapShort(t) ==
    LET frames == PresentFrames(op[t].va, op[t].n - 1)
    IN  /\ op[t].pc = "unmap"
        /\ UnmapPages(op[t].va, op[t].n - 1)
        /\ ReleaseFrames(IF op[t].keep = {} THEN frames ELSE <<>>)
        /\ images' = [p \in Processes |-> images[p] \union (IF p \in op[t].keep THEN ToSet(frames) ELSE {})]
        /\ Return(t)
        /\ UNCHANGED <<AllocationBitmap, spaceVars, worker, tables, space, halted>>

\* MmuUnmapMemoryEx under the paging lock, after the ReservationLock was dropped.
FreeUnmap(t) ==
    LET frames == PresentFrames(op[t].va, op[t].n)
    IN  /\ op[t].pc = "unmap"
        /\ UnmapPages(op[t].va, op[t].n)
        /\ ReleaseFrames(IF op[t].keep = {} THEN frames ELSE <<>>)
        /\ images' = [p \in Processes |-> images[p] \union (IF p \in op[t].keep THEN ToSet(frames) ELSE {})]
        /\ Return(t)
        /\ UNCHANGED <<AllocationBitmap, spaceVars, worker, tables, space, halted>>

-----------------------------------------------------------------------------
(* VmmSolvePageFault, when a thread touches a committed page that is not   *)
(* mapped.  A fault that cannot be solved changes nothing.                 *)

FaultCheck(t, va, rights) ==
    /\ op[t].pc = "out" /\ pte[va] = NoFrame
    /\ CanAddressBeAccessed(va, rights)
    /\ \A u \in Threads \ {t} : op[u].pc \notin {"out", "faultFrame", "faultMap"} => va \notin Span(op[u].va, op[u].n)
    /\ op' = [op EXCEPT ![t] = [pc |-> "faultFrame", va |-> va, n |-> 1, frame |-> NoFrame,
                                file |-> ReservationList[FindReservation(va, 1)].BackingFile]]
    /\ UNCHANGED <<AllocationBitmap, spaceVars, pte, workerVars, tables, images, space, halted>>

\* PmmReserveMemory(1); the assert that there is a frame.
FaultFrame(t) ==
    LET f == PmmReserved(1, 0)
    IN  /\ op[t].pc = "faultFrame"
        /\ PmmReserveMemory(1)
        /\ \/ f = NoFrame /\ halted' = TRUE /\ UNCHANGED op
           \/ f # NoFrame /\ op' = [op EXCEPT ![t] = [op[t] EXCEPT !.pc = "faultMap", !.frame = f]] /\ UNCHANGED halted
        /\ UNCHANGED <<spaceVars, pte, workerVars, tables, images, space>>

\* Map the frame, then read the file's page or zero the frame.
FaultMap(t) ==
    /\ op[t].pc = "faultMap"
    /\ MapPages(op[t].va, 1, op[t].frame)
    /\ Return(t)
    /\ UNCHANGED <<AllocationBitmap, spaceVars, workerVars, tables, images, space, halted>>

-----------------------------------------------------------------------------
(* MmuCreateAddressSpaceForProcess and MmuDestroyAddressSpaceForProcess:   *)
(* the frames of the paging structures.  The space's metadata is an        *)
(* ordinary region, which AllocGenerated and FreeBegin stand for.          *)

CreatePagingTables(p) ==
    LET f == PmmReserved(TableFrames, 0)
    IN  /\ tables[p] = NoFrame /\ f # NoFrame
        /\ PmmReserveMemory(TableFrames)
        /\ tables' = [tables EXCEPT ![p] = f]
        /\ UNCHANGED <<spaceVars, pte, workerVars, op, images, space, halted>>

\* The paging structures go back, and with them all that is known of the frames
\* of the executable: nobody releases those.  A process is not destroyed while
\* its executable is being loaded.
DestroyPagingTables(p) ==
    /\ tables[p] # NoFrame
    /\ \A t \in Threads : op[t].pc \in {"free", "unmap"} => p \notin op[t].keep
    /\ ReleaseFrames([i \in 1 .. TableFrames |-> tables[p] + i - 1])
    /\ tables' = [tables EXCEPT ![p] = NoFrame]
    /\ images' = [images EXCEPT ![p] = {}]
    /\ UNCHANGED <<AllocationBitmap, spaceVars, pte, worker, op, space, halted>>

\* VmmDestroyVirtualAddressSpace, when the reservations are those of a process
\* and nobody uses them any more: the list is released as a whole.  Walking it
\* to release the frames of its reservations is a TODO of the code.
DestroyVirtualAddressSpace ==
    /\ space = "process" /\ \A t \in Threads : op[t].pc = "out"
    /\ space' = "gone"
    /\ pte' = [p \in Pages |-> NoFrame]
    /\ ReservationList' = EmptyList /\ FreeBitmapAddress' = 0 /\ FreeVirtualAddressPointer' = 1
    /\ UNCHANGED <<AllocationBitmap, workerVars, op, tables, images, halted>>

\* VmmCreateVirtualAddressSpace for the next process.
CreateVirtualAddressSpace ==
    /\ space = "gone" /\ space' = "process"
    /\ UNCHANGED <<AllocationBitmap, spaceVars, pte, workerVars, op, tables, images, halted>>

-----------------------------------------------------------------------------
(* _MmuZeroWorkerThreadFunction.                                           *)

\* ExEventWaitForSignal returned, RemoveHeadList under the PagesLock.
WorkerTake ==
    /\ worker.pc = "wait" /\ NewPagesEvent
    /\ IF PagesToZeroList = <<>> THEN worker' = [worker EXCEPT !.pc = "clear"]
                                 ELSE worker' = [pc |-> "zero", frame |-> Head(PagesToZeroList)]
    /\ PagesToZeroList' = IF PagesToZeroList = <<>> THEN <<>> ELSE Tail(PagesToZeroList)
    /\ UNCHANGED <<AllocationBitmap, spaceVars, pte, NewPagesEvent, op, tables, images, space, halted>>

\* The list was empty, the PagesLock is free again: ExEventClearSignal.
WorkerClear ==
    /\ worker.pc = "clear"
    /\ NewPagesEvent' = FALSE /\ worker' = IdleWorker
    /\ UNCHANGED <<AllocationBitmap, spaceVars, pte, PagesToZeroList, op, tables, images, space, halted>>

\* MmuMapMemoryEx, memzero and PmmReleaseMemory: the frame is free, and may be
\* handed out again, while the window it was zeroed through still maps it.
WorkerZero ==
    /\ worker.pc = "zero"
    /\ PmmReleaseMemory(worker.frame, 1)
    /\ worker' = [worker EXCEPT !.pc = "unmap"]
    /\ UNCHANGED <<spaceVars, pte, PagesToZeroList, NewPagesEvent, op, tables, images, space, halted>>

\* MmuUnmapSystemMemory of the window.
WorkerUnmap ==
    /\ worker.pc = "unmap"
    /\ worker' = IdleWorker
    /\ UNCHANGED <<AllocationBitmap, spaceVars, pte, PagesToZeroList, NewPagesEvent, op, tables, images, space, halted>>

Worker == WorkerTake \/ WorkerClear \/ WorkerZero \/ WorkerUnmap

ThreadSteps(t) ==
    \/ AllocReserve(t) \/ AllocFrames(t) \/ AllocMap(t) \/ \E ok \in BOOLEAN : AllocRead(t, ok)
    \/ FreeReservation(t) \/ FreeUnmap(t) \/ FaultFrame(t) \/ FaultMap(t) \/ NoRoomToReserve(t)

Calls(t) ==
    \/ \E type \in AllocTypes, n \in 1 .. MaxSize, r \in Rights, e \in BOOLEAN, f \in Files \union {NoFile} :
          /\ f # NoFile => type = "both" /\ e
          /\ type = "stack" => n > GuardSize
          /\ (type = "stack" => e) /\ (type = "reserve" => ~e)
          /\ AllocGenerated(t, type, n, r, e, f) \/ (f = NoFile /\ \E va \in Pages : AllocAt(t, type, va, n, r, e))
    \/ \E s \in Slots, type \in {"release", "decommit"}, va \in Pages, n \in 1 .. MaxSize, k \in {{}} \union {{p} : p \in Processes} :
          FreeBegin(t, s, type, va, n, k)
    \/ \E va \in Pages, r \in Rights : FaultCheck(t, va, r)

Next ==
    /\ ~halted
    /\ \/ \E t \in Threads : (space # "gone" /\ op[t].pc = "out" /\ Calls(t)) \/ ThreadSteps(t)
       \/ \E p \in Processes : CreatePagingTables(p) \/ DestroyPagingTables(p)
       \/ CreateVirtualAddressSpace \/ DestroyVirtualAddressSpace
       \/ Worker

Spec == MemoryInit /\ [][Next]_vars

-----------------------------------------------------------------------------
(* Properties.                                                             *)

\* Where a frame is: in a page table entry, queued for zeroing, with the
\* worker until it releases it, with a thread that has not mapped it yet, in
\* paging tables, in the image of a process.  Each of them is a place; a frame
\* counts once for each.  Two mappings are no place: the window of the worker
\* once the frame is released, which maps a frame that is free or somebody
\* else's, and the kernel's buffer of an executable once it is in the process,
\* which is the process's frame from the moment the buffer is given up.
Places(f) ==
    {<<"pte", p>> : p \in {q \in Pages : pte[q] = f}}
    \union {<<"list", i>> : i \in {j \in DOMAIN PagesToZeroList : PagesToZeroList[j] = f}}
    \union {<<"worker", 0>> : i \in {j \in {0} : worker.pc = "zero" /\ worker.frame = f}}
    \union {<<"thread", t>> : t \in {u \in Threads : op[u].pc \in {"map", "faultMap"}
                                     /\ f \in Span(op[u].frame, op[u].n)}}
    \union {<<"tables", p>> : p \in {q \in Processes : tables[q] # NoFrame /\ f \in Span(tables[q], TableFrames)}}
    \union {<<"image", p>> : p \in {q \in Processes : f \in images[q]}}

\* A frame is in at most one place, and reserved while it is in one: no frame
\* is given to two pages, handed out while it is in use, or released twice; what
\* the worker zeroes is nobody else's, though its window outlives the release.
FramesHaveOnePlace ==
    \A f \in AvailableFrames : Cardinality(Places(f)) <= (IF AllocationBitmap[f] THEN 1 ELSE 0)

\* A page is mapped only while it is committed in a reservation, or until the
\* thread that has just taken that away reaches MmuUnmapMemoryEx: the two
\* locks of VmmFreeRegionEx are never held together.  Once the list is full,
\* and its end mark in a commit bitmap, nothing is said.
MappedPagesAreCommitted ==
    \A p \in Pages : pte[p] # NoFrame =>
        \/ \E s \in BeforeLast : LET r == ReservationList[s]
                                 IN  r.State = "Used" /\ CheckBounds(p, 1, r) /\ IsVaCommited(r, p)
        \/ \E t \in Threads : op[t].pc = "unmap" /\ p \in Span(op[t].va, op[t].n)
        \/ Overrun

\* Two reservations never share a page and a walk of the list meets them all,
\* for generated addresses, explicit ones, reused entries and a full list.
ReservationsAreFoundAndDisjoint ==
    \A s \in Slots : ReservationList[s].State = "Used" =>
        /\ s \in BeforeLast
        /\ \A p \in Span(ReservationList[s].StartVa, ReservationList[s].Size) :
              \A i \in Slots \ {s} : ReservationList[i].State = "Used" => ~CheckBounds(p, 1, ReservationList[i])

\* Reserved frames that are in no place, and so never become free again.
Lost == {f \in AvailableFrames : AllocationBitmap[f] /\ Places(f) = {}}

\* Frames of pages that another thread is about to map again.
Remapped == {pte[p] : p \in UNION {Span(op[t].va, op[t].n) : t \in {u \in Threads : op[u].pc \in {"map", "faultMap"}}}}

\* Frames that a step leaves behind with the address space of a process: those
\* of its reservations, and those of its executable.
Abandoned ==
    {f \in Frames : \/ space = "process" /\ space' = "gone" /\ \E p \in Pages : pte[p] = f
                    \/ \E p \in Processes : tables[p] # NoFrame /\ tables'[p] = NoFrame /\ f \in images[p]}

\* There are two ways to lose a frame: to map a page that is mapped already (two
\* faults on one page, an eager commit of a mapped page), and to destroy the
\* address space of a process ("else we have physical memory leaks", vmm.c).
\* Error paths, frees and the worker return all they took.
FramesAreLostOnlyByRemappingOrTeardown ==
    [][\A f \in Lost' : f \in Lost \/ f \in Remapped \/ f \in Abandoned]_vars
=============================================================================
