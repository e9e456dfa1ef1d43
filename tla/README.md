# HAL9000: a verification project

HAL9000 is a small 64-bit multiprocessor operating system kernel. This directory
models the parts of it that are hardest to get right and hardest to test: the locks,
the scheduler, the blocking synchronisation objects and the life of processes and
threads; memory management and the heap; inter-processor communication; the
registration and delivery of device interrupts; the disk stack and the network card; and
the FAT32 file system. The modules are TLA+,
checked with TLC on small instances; the results that matter most are proved with
TLAPS for every instance.

Contents: 1. inventory - 2. modules and code - 3. runs - 4. fairness - 5. proofs -
6. what the checks found - 7. what is not modelled - 8. plan.

## 1. Inventory

Paths are relative to `src/`. K is `HAL9000/src`, CL is `CommonLib/src`.

| component | state | operations | what makes it correct |
|---|---|---|---|
| LOCK (`CL/spinlock.c`, `monlock.c`, `lock_common.c`) | `State`, `Holder`, the interrupt flag of each CPU | acquire, try-acquire, release, is-owner | one owner; `LockIsOwner`, an unlocked read, is right; handlers never spin on the code they interrupted; no release is slept through in `mwait` |
| RW spinlock (`CL/rw_spinlock.c`, `rec_rw_spinlock.c`) | three adjacent WORDs; `Holder` and depth of the recursive wrapper | acquire/release, shared/exclusive | exclusion with compare-exchanges that overlap; no WORD wraps; writers are not starved by readers; bookkeeping without a lock stays exact |
| scheduler (`K/thread.c`, `_thread.yasm`) | current/previous thread per CPU, ready list, `State`, `Flags`, `RefCnt`, `BlockLock`, stacks | yield, block, unblock, exit, terminate, schedule, switch, clean-up | a thread runs on one CPU, on a complete context; it is in one list at a time; its memory outlives it; ready threads run |
| event (`K/ex_event.c`) | `Signaled`, waiting list | wait, signal, clear | no lost or double wake-up, one passage per signal |
| mutex (`K/mutex.c`) | `Holder`, depth, waiting list | acquire, release | exclusion, exact depth, first come first served |
| process (`K/process.c`, `um_application.c`, `CL/ref_cnt.c`) | reference count, two thread counters, thread list, termination event and status | create, insert/remove thread, notify, terminate, wait, close | no use after destruction, no leak, the right exit status |
| IPC (`K/smp.c`, `ipc.c`, `isr.c`, `CL/event.c`) | a list of events per CPU, reference-counted events, the local APIC's request bit | wake the APs, send, handle, wait for handling | each event handled once on each target; the waiter returns; nothing is freed in use |
| physical memory (`K/pmm.c`, `CL/bitmap.c`) | a bitmap of frames | reserve, release | no frame handed out twice, none outside RAM |
| reservations (`K/vm_reservation_space.c`) | list of reservations, commit bitmaps, a growing free pointer | reserve, commit, decommit, release, access check | reservations do not overlap and are found; commit only what is reserved |
| VMM/paging (`K/vmm.c`, `mmu.c`) | page tables, frames waiting to be zeroed | allocate, free, page fault, stacks, process tables | mappings agree with reservations; no frame in two places, none lost |
| I/O manager (`K/iomu.c`, `io_devices.c`, `io_files.c`) | devices with a `DeviceLock`, IRPs, files | create, call driver, complete | an IRP completes once; calls of one device are serialised |
| device interrupts (`K/iomu.c`, `ioapic_system.c`, `isr.c`) | a bitmap of vectors per IRQL, a list of routines per vector, routes of the I/O APIC, messages of PCI devices | register, route, take, acknowledge | a registered device's interrupt reaches its routine, on a shared vector or line too |
| storage drivers (`Volume`, `Disk`, `Ata`) | the current transfer, `TransferReady`, the DMA registers | read/write, interrupt | a completion belongs to its transfer and wakes its thread |
| FAT32 (`FAT32`) | FAT, FSINFO, directory | open, create, read, write, query, close | chains end, files are found, do not share clusters and survive power loss |
| network (`NetworkStack`, `NetworkPort`, `Eth_82574L`) | two frame lists with events, two descriptor rings, link and status | send, receive, change status, transmit thread, interrupt | no frame is lost, repeated or overtaken; nobody waits beside a frame |
| timers, keyboard (`K/ex_timer.c`, `keyboard.c`) | trigger time and flags; one key cell | start, stop, wait; interrupt, get key | a wait ends at its time; no key is lost |
| heap (`CL/cl_heap.c`) | a list of entries ordered by address, the entry to restart the search at, free bytes | allocate, free | allocations do not overlap, keep their alignment and stay inside; what is freed can be used again |
| containers (`CL/list.c`, `hash_table.c`, ...) | links | insert, remove | nothing is lost |
| the rest: HAL, ACPI, boot, SwapFS, PE parser, commands, tests, logging, system calls | | | hardware set-up, I/O, or users of the above |

**How they interact.** A CPU runs a thread until the thread yields, blocks or exits, or
until a timer interrupt ends its time slice; interrupt handlers run on top of threads
and take the same LOCKs, which therefore disable interrupts. `ThreadYield`,
`ThreadBlock` and `ThreadExit` enter `_ThreadSchedule` with `ReadyThreadsLock` held,
and the thread that is switched *to* releases it and then cleans up after the thread
that was switched *from*. Events and mutexes link a thread into their own list, take
its `BlockLock`, drop their lock and block; the waker unlinks it and takes the same
`BlockLock` before it makes the thread ready. A single list entry, `THREAD.ReadyList`,
serves the ready list and all waiting lists. `ThreadExit` signals the thread's event
and tells the process, which signals its own event with the last thread; thread and
process objects are destroyed by whoever drops the last reference, often the scheduler
on behalf of some other thread. A request to a device goes down a stack of drivers
through `IoCallDriver`, which holds the mutex of each device on the way; at the bottom
a thread waits for an event that an interrupt handler signals, possibly on another
CPU. FAT32 sits on top of that stack, one request at a time, and makes several writes
to the volume per request. Memory is reserved, committed, mapped and freed in separate
critical sections of four locks. CPUs send each other events: into a list, then an
interrupt request that the local APIC may merge with one that is pending.

**What is hard.** Interleavings of instructions outside any lock; the hand-over of a
lock from one thread to the next across a stack switch; decisions taken from a value
read after the lock that protected it was released; wake-ups racing with going to
sleep; termination of a thread at whatever point it happens to be; references dropped
in any order on several CPUs; creation that fails half-way; operations made of several
critical sections, or of several writes to a disk; rings and lists at their limit.
`PROJECT.json` lists these hazards with the line at which each bites and the
properties that watch it. Hazards of code that is not modelled are in section 7.

## 2. Modules and the code

Each module's variables keep the names of the C fields. A program counter (`pc`,
`layer`, `life`, `step`, ...) says where each CPU or thread is between two steps other
CPUs can see. Definitions marked `Mutant` are wrong versions of the definition that
follows; no specification uses them. They document what each property protects
against.

- **`RwSpinlock`** - `rw_spinlock.c`. One action per interlocked instruction:
  `AnnounceWriter`, `ClaimExclusive` (compare-exchange on {ActiveWriter,
  ActiveReaders}), `RetractWriter`, `ClaimShared` (compare-exchange on the overlapping
  {WaitingWriters, ActiveWriter}), `CountReader`, `Confess`, and the two releases.
  WORDs wrap at `MaxWord`. A failed compare-exchange is a stuttering step.
- **`RecRwSpinlock`** extends it with the holder and depth of `rec_rw_spinlock.c` and
  is shown to implement it (`ImplementsRwSpinlock`, fairness included).
- **`AbstractLock`** - what a LOCK promises: it goes from free to one CPU and back.
- **`Spinlock`** - `spinlock.c` and `monlock.c`, chosen by `MonitorSupport` as in
  `LockSystemInit`. Each CPU has a thread context and an interrupt context that may
  interrupt it whenever the flag allows; every access to `State` and `Holder` is a
  step. Implements `AbstractLock` with `owner <- OwnerIn(pc)`.
- **`Scheduler`** (`MCScheduler` adds the symmetry) - `thread.c`. LOCKs are used as
  `AbstractLock` promises, so taking one is a guard. `saved[t]` says that `ThreadSwitch`
  has stored all of t's context. Yield, block, unblock, exit and terminate, and the
  steps of `_ThreadSchedule`/`ThreadCleanupPostSchedule` between which another CPU can
  see a difference: choose, switch stacks, release `ReadyThreadsLock`, look at the
  previous thread. One waiting list stands for the events and mutexes. `Mortal` and
  `Killable` say which threads may return or be terminated.
- **`ExEvent`** - `ex_event.c`, either event type, chosen by `ExEventInit`. Blocking
  is what `Scheduler` shows it to be: a thread linked under the lock stops until it is
  unlinked and unblocked. `signals` and `returns` are history counters that saturate
  at `MaxCount`.
- **`Mutex`** - `mutex.c`, with the unlocked test of `Holder` as a step of its own and
  threads that may be terminated (`Killable`). `nesting` is history.
- **`Process`** - one process: `ProcessCreate`, `UmApplicationRun`, the process side of
  `ThreadCreateEx` (which may fail after the thread was inserted), exit, notification,
  termination, waiting, destruction of threads and process. `EarlyExit`, `MayFail` and
  `MayTerminate` switch those behaviours on. The thread whose exit status was stored
  stands for the status itself.
- **`Bitmap`**, **`Pmm`**, **`VmReservationSpace`** - the data structures of memory
  management as operators: scans and bit changes; the frames of a memory map, reserved
  and released under `AllocationLock`; the list of reservations with its `Last` entry,
  commit bitmaps and generated addresses under `ReservationLock`.
- **`Memory`** composes them: `VmmAllocRegionEx`, `VmmFreeRegionEx` and
  `VmmSolvePageFault` as one step per critical section (reserve, take frames, map, read
  the file), stacks with their guard page, the frames of process page tables, and the
  zero worker with its list. `op[t]` is where thread t is in a call and what it holds.
- **`Heap`** - `cl_heap.c`: `ClHeapAllocatePoolWithTag` and `ClHeapFreePoolWithTag`, each
  one step because both hold `HeapLock` throughout. Addresses count units from the base
  of the heap; magic numbers and tags are left out. A search that leaves the list, which
  the code does not test for, sets `heapHalted`.
- **`IoInterrupts`** - `IomuRegisterInterrupt` with its steps (`ChooseVector`,
  `InsertEntry`, `Program`, and the routes that have to wait until the APs are awake,
  `AfterApWakeup`), then the way of an interrupt: `TakeInterrupt`, `CallRoutine` for each
  entry of the vector's list, `NotHandled`. The kernel's own routines claim every
  interrupt, those of drivers look at their device. Devices, lines and the APICs are
  external; a device with a line that may be shared is quiet until it is registered.
  Broadcast, polarity and a second I/O APIC are left out.
- **`Smp`** - `smp.c`, `ipc.c`, `event.c` and the interrupt path of `isr.c`: the APs come
  up, threads send events in each `SMP_DESTINATION` mode and may be moved to another CPU
  between two steps, requests merge in the APIC's bit, handlers take one event each.
- **`Storage`** - a read or write from `IoCallDriver` down through volume, disk and ATA:
  the `DeviceLock`s, the checks of each driver, the DMA transfer, `TransferReady` and the
  interrupt handler, on any CPU.
- **`FatVolume`**, **`Fat`** (`MCFat`) - what is on a volume and the searches the driver
  makes there; then open, create, read, write and close with one step per write to the
  volume. Between two steps power may be lost, and each access may fail; the code that
  overwrites a failure with success (`_AddNewClusterToChain`) is a step of its own,
  `AccessFailsUnnoticed`.
- **`Network`** - one card: the calls of `network_interface.c`, which the `DeviceLock`
  serialises, the port driver's two queues and transmit thread, the interrupt handler of
  the 82574L and both descriptor rings; the card itself is external. Frames are numbered
  in the order they enter, so order and loss can be told.
- **`MCExecutive`** (Mutex, ExEvent, Storage), **`MCLifetimes`** (Process, Scheduler),
  **`MCMemory`** (Memory, Heap), **`MCInterrupts`** (Smp, Network, IoInterrupts) put modules side by side that share no state in the
  kernel either: `object` says which of them a behaviour is about while the others rest
  in an initial state, so a run explores the sum of their state spaces, not the product.
  In `MCInterrupts` the two directions of the card are told apart in the same way,
  because their product is out of reach; they meet in the handler, which reads
  one cause register for both, and nowhere else.
- **`RwSpinlockProofs`** (also about `RecRwSpinlock`), **`SpinlockProofs`**,
  **`ExecutiveProofs`** (`Mutex`, `ExEvent` and the composition `MCExecutive`),
  **`SchedulerProofs`** (`Scheduler`, `Process` and the composition `MCLifetimes`),
  **`SmpProofs`** (`Smp`, `IoInterrupts`, `Network` and the composition `MCInterrupts`),
  **`StorageProofs`**, **`MemoryProofs`** (`Memory`, `Heap` and the composition `MCMemory`),
  **`FatProofs`** (`FatVolume` and `Fat`) - the theorems.

Abstractions made on purpose: data that no property tells apart (names, tick
statistics, exit codes, address spaces) is left out; memory is sequentially
consistent, which the interlocked instructions and x86 ordering of the lock words
justify; asserts of the locks and the scheduler appear as properties, never as guards,
except the two recursion limits, which the code leaves to its callers. In `Smp`,
`Storage` and `Network` an assert that fails sets `halted`, which stops the system as
the kernel's `ASSERT` does; callers of `Memory` keep to their side of the contract
(`Quiet`, `Unreserved`): they do not use memory that another thread is allocating or
freeing. What clusters, sectors and frames hold is left out; lengths are in sectors,
addresses in pages.

## 3. Runs

| run | instance | states | shows |
|---|---|---|---|
| `rw_spinlock` | `RecRwSpinlock`, 4 CPUs, depth 2, WORDs wrap at 5 | 1,785 | `Exclusion`, `RecBookkeeping`, `WritersHavePriority`, `ImplementsRwSpinlock` |
| `spinlock` | 3 CPUs, thread and handler on each, monitor flavour | 23,005 | `InterruptSafe`, `ImplementsLock`, `SomeoneGetsIt` |
| `scheduler` | 2 CPUs, 3 threads that yield, wake each other and exit, two of which block and the third may be terminated, symmetry | 1,273,220 | `ResumesSavedContext`, `ThreadsAreInOnePlace` |
| `executive` | mutex: 4 threads, depth 2, two may be terminated; event: 3 waiters, 2 signallers, both types; disk: 2 threads, 2 CPUs, 2 volumes on 4 sectors, the second reaching past the end | 44,023 | `MutexExclusion`, `HandOver`, `AnyWaiterGetsMutex`; `BlockedThreadsAreListed`, `OnePassPerSignal`, `AnyBlockedThreadIsWoken`; `TransferAsserts`, `AnyRequestReturnsUnlessMissed` |
| `lifetimes` | a process with 3 threads, failures and termination; 1 CPU with 3 threads that exit, one may be terminated | 83,562 | `ProcessRefCntExact`, `TerminationIsFinal`, `WaitReturns`, `ProcessIsReclaimed`; `RefCntExact`, `ReadyThreadsRun` |
| `memory` | 2 threads, 2 usable frames, 2 pages (symmetry on threads), 2 list entries, 2 bitmap pages, a file, a process; a heap of 32 units (header 4, entry 2, tail 1), sizes 1, 4 and 7, alignments 2 and 4 | 607,413 | `FramesHaveOnePlace`, `MappedPagesAreCommitted`, `ReservationsAreFoundAndDisjoint`, `FramesAreLostOnlyByRemapping`; `AllocationsAreDisjoint` |
| `interrupts` | 2 CPUs, 2 threads, 2 events; a card with 3 + 3 descriptors, 2 sizes, 3 arrivals, 4 frames sent, one change of link or status; 4 drivers on 2 lines and messages, 1 vector per IRQL | 584,094 | `HandlerFindsEvent`, `EventsOutliveTheirUse`, `WaitMeansHandled`, `WaitReturnsUnlessMerged`; `FramesKeepTheirOrder`, `AcceptedFramesAreTransmitted`, `WaitingReceiverIsWoken`; `InterruptsReachTheirRoutine` |
| `fat` | 6 clusters of 2 sectors, 3 names, 1 handle, offsets to 2, lengths to 3, 2 faults | 1,034,641 | `ChainsEnd`, `FilesAreFound`, `ClaimsAreBacked`, `FilesPersist` |
| `scheduler_exit`, `ex_event_lost`, `process_early`, `fat_shared` | see section 6 | | each ends in a counterexample |

**Why the bounds are enough to be interesting.** Four CPUs allow two readers, an
announced writer and a writer on its way out at the same time. Three CPUs with
handlers give the monitor lock two sleepers and a release. A CPU of the monitor
flavour that has not yet lost its compare-exchange takes exactly the steps of a
spinning one, so the run's safety results cover both flavours. Two CPUs and three
threads are the smallest system in which a thread is woken by one CPU while another
switches away from it and a third thread is waiting to run. Three waiters make the
waiting list long enough for order to matter after one of them is gone. A process's
thread can start another that starts the third, so that the last exit, the last
destruction and the closing of the handle can fall to three different actors. Two
threads and two frames are enough for both to fault on one page, for memory to run out
in the middle of a region, and for a frame to be released, zeroed and reused while the
other thread frees its reservation; two list entries make the list full. The heap holds
several allocations, so that gaps, alignment and the end of the heap all decide where the
next one goes. One vector per IRQL makes the disks and the card share a vector, two of
them a line, and a driver arrives when the vectors have run out. Two CPUs and
two senders give merged requests, senders that move, and mutual waits. Rings of three
descriptors fill, wrap and are refilled with four frames; `MaxChanges` lets the link
fall or the status change once, at any moment. Six clusters let two files grow and the
volume fill up; a request that links two new clusters is interrupted at each of its
writes, and a second fault hits what the first one left.

An eventuality about "any" thread is checked for one of them where the threads are
interchangeable (`AnyWaiterGetsMutex`, `AnyBlockedThreadIsWoken`,
`AnyRequestReturnsUnlessMissed`, `WaitReturnsUnlessMerged`).

Deadlock is checked wherever the system may not stop. `executive`, `lifetimes`,
`memory`, `interrupts` and `fat` switch the check off: a process ends, a terminated
thread may take a mutex with it, callers need not call again within the bounds, and a
failed assert stops the machine.

In `scheduler` threads exit on two CPUs, so the counterexample of `scheduler_exit`
exists there: a thread is dereferenced once too often. The model keeps what the freed
`THREAD` held, so the run shows the other two properties up to a reuse of that memory;
that the count is exact, `RefCntExact`, is checked in `lifetimes`, on one CPU. A thread
that may be terminated does not block in either run: one that is terminated between
linking itself into a waiting list and blocking exits and stays linked, and the assert
of `ThreadUnblock` fails when it is found there.

## 4. Fairness

- `RwSpinlock`, `RecRwSpinlock`, `Spinlock`: a CPU inside the lock code executes its
  next instruction (interrupts are off, nothing takes the CPU away), and critical
  sections end. For the recursive lock "ends" is strong fairness of the last release:
  nesting and un-nesting again and again is not a way to keep the lock for ever.
  Whether a CPU asks for the lock is never assumed. The spinlocks have no queue, and
  no property claims that a *particular* CPU gets one.
- `Scheduler`: CPUs execute the scheduler's steps (weak fairness); the timer interrupt
  stays pending and is taken once interrupts are on often enough (strong fairness of
  `ThreadYield`, the fixed-rate LAPIC timer).
- `ExEvent`: threads inside a call go on. That signals keep coming is an assumption
  about the users of the event and is what `AnyBlockedThreadIsWoken` rests on (strong
  fairness of `Signal`).
- `Mutex`: threads are scheduled (shown in `Scheduler`) and leave their critical
  sections. `AnyWaiterGetsMutex` is conditional on nobody being terminated.
- `Process`: CPUs go on and thread functions return. Nobody has to wait or to close a
  handle. `WaitReturns` and `ProcessIsReclaimed` are conditional on `CreationsFinish`:
  no thread was created by halves.
- `Smp`: handlers run to their end and the APs start (weak fairness). Senders share CPUs
  with each other and with handlers, so their steps come and go; that they are scheduled
  again is strong fairness.
- `Storage`: threads inside a request are scheduled; a mutex that is free again and again
  is acquired (strong fairness, which `HandOver` of `Mutex` justifies); the disk finishes
  a transfer and its interrupt is delivered. Nobody has to make a request.
- `Network`: the caller, the transmit thread and the handler go on; the card transmits
  what it may and reports with a delay. No frame has to arrive and nobody has to call.
- `Memory`, `Heap`, `IoInterrupts` and `Fat` have safety properties only.

## 5. Proofs

All theorems hold for every value of the constants that satisfies the named
assumptions. `CpuAssumption`: finitely many CPUs, not more than a WORD counts.
`SpinlockAssumption`, `MutexAssumption`, `ExEventAssumption`, `ProcessAssumption`: NULL is
not a CPU or thread, flavours are Booleans, limits are positive. `SmpAssumption`: CPUs
and sending threads are finitely many, the BSP is one of the CPUs. `StorageAssumption`:
sizes and offsets are natural numbers, requests name a volume. `PmmAssumption`: the memory
map is not empty, sizes are positive. `MemoryAssumption`: the usable entries lie within
the frames that `NumberOfFrames` counts, as `BitmapClearBits` asserts at boot; generated
addresses are pages; NULL is not a frame or file. `IoInterruptsAssumption`: the kernel's own
interrupts ask for a vector of their own (`smp.c:59`, `lapic_system.c:56`, `iomu.c:397`,
`iomu.c:435`) at levels that no driver asks for, and a line is not at one level both
edge-triggered and level-triggered. `HeapAssumption`: sizes and alignments are positive, the
header is smaller than the heap. `NetworkAssumption`: a ring has at least two descriptors.
`FatAssumption` and `FatBounds`: sizes are positive, and FAT32_UNKNOWN is no cluster and no
count. Where a theorem needs more, that is said below, with
the run or the line that shows why.

- **`RwSpinlockProofs`**. `Exclusion` is not inductive: it does not say what the WORDs
  count. The invariant `RwIInv` does: `WaitingWriters` is the number of CPUs that
  announced themselves and have not retracted, `ActiveReaders` the number of counted
  readers, `ActiveWriter` is 1 exactly while one CPU owns the writer's word (as a writer
  or as a reader that has not confessed yet), and a writer excludes counted readers.
  One lemma says how a cardinality changes when an element comes or goes; there is one
  step per instruction. Theorems: `RwCountsAreExact`, `RwTypeCorrect`, `RwExclusion`,
  `RwAssertsHold`. For `RecRwSpinlock` the invariant `RecIInv` adds that the layers agree:
  `Holder` and the depth describe the CPU that owns the inner lock exclusively, from the
  moment after the inner acquire to the moment before the inner release. Theorems:
  `RecBookkeepingHolds`; `RecImplementsRw`, that each step of the wrapper is an
  instruction of the inner lock or leaves it alone (what `ImplementsRwSpinlock` adds to
  it is fairness); and `RecExclusion`, which follows from the refinement.
- **`SpinlockProofs`**. `SpinlockInv`: `State` is taken exactly while some context owns
  the lock, `Holder` names its CPU exactly between the two writes to it, contexts inside
  the lock code have interrupts off, and a thread under a handler is outside of it.
  Theorems: `SpinlockTypeCorrect`, `SpinlockExclusion`, `SpinlockOwnerExact`,
  `SpinlockInterruptSafe`, and `SpinlockImplementsLock`, the refinement of
  `AbstractLock`: the winning compare-exchange is `Grant`, the exchange that frees the
  lock is `GiveBack`, every other step stutters.
- **`ExecutiveProofs`**, the mutex. `MutexInv`: whoever is inside, leaving or just woken is the
  `Holder`; the depth is what the holder owes, and 1 at a hand-over; the waiting list
  links each thread at most once and only threads that cannot link themselves anywhere
  else; a free mutex has no waiters. Threads may be terminated at any time. Theorems:
  `MutexTypeCorrect`, `MutexIsExclusive`, `MutexDepthExact`, `MutexHandsOver`.
- **`ExecutiveProofs`**, the event. `ExEventInv`: who holds `EventLock` is inside a critical section;
  a thread is in the waiting list exactly from its insertion to its removal, once; the
  returns of a synchronization event and its pending signal together are at most the
  signals sent. Theorems: `EventListIsExact`, `EventPassesOncePerSignal`.
- **`ExecutiveProofs`**, the composition. Every step of `MCExecutive` is a step of one of
  its three objects and leaves the other two alone, so a behaviour of it is one of each:
  the theorems above and `TransferAssertsHold` of `StorageProofs`, instantiated with the
  disk of the run, give `DiskAssertsHold` and `ExecutiveIsSafe`, all the invariants of
  the run `executive`.
- **`SchedulerProofs`**. `SchedulerInv` has a part for each thing two CPUs could disagree
  about: who holds the `ReadyThreadsLock` and each `BlockLock` and until when
  (`LockInv`, `BlockInv`), what a CPU executes and came from (`CpuInv`, `CurrentInv`),
  that no two CPUs are concerned with one thread (`ApartInv`), where a thread of each
  state is (`ReadyInv`, `WaitInv`, `PlaceInv`), and that a thread which may be picked has
  a saved context unless its CPU still holds the lock that keeps it from being loaded
  (`SavedInv`). Theorems: `ContextsAreSaved` and `ThreadsHaveOnePlace`, for any number of
  CPUs and threads, provided that no thread is terminated while it waits
  (`Killable \intersect Waiters = {}`): a terminated waiter stays linked in the list of
  what it waited for, and the module's lists are those of an event, not of a mutex,
  which removes it. `ReferencesAreExactOnOneCpu`: the reference count is exact on one
  CPU; with two, `scheduler_exit` refutes it.
- **`SchedulerProofs`**, the process. `ProcessInv`: which threads have which references and are counted
  in `NumberOfThreads` and `ActiveThreads` at each point of their life, creations by
  halves included (`LivesInv`); the list holds them once (`ListInv`); the process ends
  when the last active one does (`EndInv`). Theorems: `ProcessTerminationIsFinal`, also
  when threads end before `ProcessCreate` returns; `ProcessCountsReferences`, only when
  they do not (`~EarlyExit`), since `process_early` refutes it otherwise. The last
  section of the module shows that `MCLifetimes` implements `Process` and
  `Scheduler`, and so has both (`LifetimesEndForGood`, `LifetimesAreCounted`).
- **`SmpProofs`**. An event is followed to each of its CPUs: still to be inserted, in the
  list, in the function, about to be dereferenced (`Pending`). `SmpInv` says that the
  reference count is the number of these CPUs and the waiter (`RefInv`), that each CPU
  has the event in one place and has run it where it is in none (`PhaseInv`), that the
  signal, the CPU about to give it and the woken waiter exclude each other and mean
  that no CPU is left (`SignalInv`), and that an event that is not allocated is nowhere
  (`NowhereInv`). Theorems: `EventsAreNotFreedInUse`, `WaitersFindItHandled`.
  `ListsAnswerRequests`, the handler's assert, needs another invariant, `FoundInv`: a
  list is at least as long as the requests its CPU has accepted or pending and the
  senders that have inserted and not yet sent; it holds until a sender moves. None of
  these uses fairness: they are stated for `SmpSteps`, `Spec` without it.
- **`SmpProofs`**, device interrupts. That a driver is found when its device interrupts is
  bookkeeping over the three critical sections of a registration: what is on the lists
  (`EntryInv`), what the registration under way has found out (`RegisteringInv`), where
  registered devices lead (`RouteInv`), and that a line leads to the drivers wired to it
  only (`WiredInv`). That every interrupt is claimed, while several CPUs walk one list
  and each routine may serve a device on behalf of another CPU's interrupt, takes a
  count. `RequestInv`: at each position of a list there are no more interrupts at or
  beyond it than drivers from it on that want service, those not taken yet being at the
  first. A routine that claims takes one from both sides; one that does not is no
  claimant, so the bound for the next position is that of its own. A level-triggered
  line has one interrupt at a time, until it is acknowledged. Theorems: `DevicesInvariant`,
  `DevicesAreServed`.
- **`SmpProofs`**, the network card. `FramesKeepTheirOrder` gives each frame its place; that
  it is kept rests on how the indexes of driver and card stand to each other. `NetInv`: the
  done receive descriptors begin at `CurrentDescriptor`, their number is what arrived and is
  neither read nor listed, and the card's head follows them, one short of the ring since the
  tail is before the current one; the filled transmit descriptors begin at the card's head,
  `CurrentTxIndex` follows them, and the tail is there too, or one before it while the
  thread is between filling and handing over. A descriptor's state follows from its offset,
  so no step changes more than one of them. That the ring can be full with the tail on the
  head, as section 6 tells, does no harm to the order. Theorems: `CardInvariant`,
  `FramesStayInOrder`; and `InterruptsAreSafe`, for which a behaviour of `MCInterrupts` is
  shown to be one of `Smp`, one of `Network` and one of `IoInterrupts`.
- **`StorageProofs`**. `StorageInv`: a request inside the ATA driver holds the
  `DeviceLock` of its device, and a started transfer is in one of five stages (busy,
  interrupt pending, handler about to signal, `TransferReady` signaled, back from the
  wait), each with its `CurrentTransfer.State`. Theorem: `TransferAssertsHold`.
- **`MemoryProofs`**. `VmmAllocRegionEx`, `VmmFreeRegionEx` and page faults take the
  `ReservationLock`, the lock of the frame bitmap and the paging lock one after the
  other, so the properties hold only because of what threads between two critical
  sections are about. `MemoryInv` says that: the pages of a call are passed by
  `FreeVirtualAddressPointer` or beyond its reach (`OpInv`), so a generated address is
  never one that is in use; entries in use come before the last mark, have one bit per
  page and share no page (`ListInv`); pages that a call will reserve are in no
  reservation (`ClaimInv`); two calls are about a common page only if both are faults or
  one of them has released it already (`ApartInv`); from its reservation to its
  unmapping a call has a reservation around its pages, committed until they are freed
  (`HomeInv`). `MappedInv` and `OnePlace` are `MappedPagesAreCommitted` and
  `FramesHaveOnePlace` without the walk of the list and without counting. `Moved` says
  what a step may do with one frame (leave it, pass it on, take it when free, release
  it, write over its only page); one proof that every step of every frame is of this
  kind gives both the invariant of the frames and the action property. The searches
  (`_VmFindReservation`, the first free entry, `_BitmapScanInternal`, the end of the
  memory map) are defined as least or greatest elements, and one lemma, `LeastNatural`,
  from the well-foundedness of the natural numbers, does for all of them what induction
  would. Theorems: `MemoryInvariant`, `ReservationsStayApart`, `MappedStaysCommitted`,
  `FramesStayInOnePlace`, `FramesAreNotLost`.
- **`MemoryProofs`**, the heap. `HeapInv`: an entry ends before any later one begins, not
  only the next, so that only the last entry ends at `FreeAddress`; and there is a function
  that adds up what the first entries take, which each insertion and removal changes from
  one place on. That two such functions agree is shown by a least difference. The search for
  a gap takes an argument of its own (`StepOfSearch`): after it passed the head of the list
  `pPreviousHeapEntry` is not the entry before `pCurHeapEntry` but one that lies beyond it,
  so the room computed between them is negative and nothing is placed there. Theorems:
  `HeapInvariant`, `AllocationsStayDisjoint`; and for the composition of the run
  `MemoryBesideHeap`, that it implements both modules, and `MemoryIsSafe`, all its
  properties.
- **`FatProofs`**. `Walk` follows a chain from cluster to cluster, so what it returns for a
  FAT of any size takes induction. The module gets it from the same lemma: if a recursion
  had no solution up to some number, or a walk differed from the path it should be, there
  would be a least such number, and the step before it decides. The first lemmas show that
  `Walk` has a value, that it is the path of clusters from its start, and that a path
  without repetition ends, because there are finitely many clusters. `FatInv` is then about
  the FAT alone: no two clusters lead to the same one and none leads to a first cluster, so
  chains neither join nor close (`ChainInv`); files have first clusters of their own, and
  whatever is marked in use behind `FSI_Nxt_Free` is so because of the request under way
  (`FirstClusterInv`, `MarkInv`); a name occurs once in the directory and the marks FREE_ALL
  come at its end (`DirectoryInv`); while no access failed, a file's chain is at least as
  long as its size (`SizeInv`) and `FSI_Free_Count` counts the free clusters (`CountInv`).
  Each conjunct is followed through every write of open, create, write and close, and
  through a loss of power after any of them. Theorems: `FatIsConsistent`, `ChainsAlwaysEnd`,
  `FilesAreAlwaysFound`, `ClaimsAreAlwaysBacked`, `FilesAlwaysPersist`. The proof needs that
  FAT32_UNKNOWN is out of reach (`FatAssumption`, `FatBounds`): cluster numbers have 28 bits,
  the fields of the FS information sector 32. With as many failed creations as a 32-bit
  number has values `FSI_Nxt_Free` would come round and two files could get one first
  cluster; with a smaller mark a count decremented from it would pass for a real one.

Some properties are proved and no longer checked by a run of their own, since the proof
covers every instance: `RwTypeOK`, `WriterWordIsMine`, `LockExclusion`, `IsOwnerIsExact`
and `DepthIsNesting`.

Model-checked only: liveness and everything that rests on fairness or ENABLED
(`WritersHavePriority`, `SomeoneGetsIt`, `ReadyThreadsRun`, `AnyBlockedThreadIsWoken`,
`AnyWaiterGetsMutex`, `AnyRequestReturnsUnlessMissed`, `WaitReturns`,
`ProcessIsReclaimed`, `WaitReturnsUnlessMerged`, `AcceptedFramesAreTransmitted`,
`WaitingReceiverIsWoken`, and the fairness part of `ImplementsRwSpinlock`). Every safety
property of the passing runs is also proved, under the conditions named above.

## 6. What the checks found

- `scheduler_exit`: `ThreadCleanupPostSchedule` reads the previous thread's `State`
  after it released `ReadyThreadsLock`. A thread that only yielded may by then run on
  another CPU and be in `ThreadExit`; it looks dying, and the reference it still runs on
  is dropped (`thread.c:1062`).
- `ex_event_lost`: `ExEventWaitForSignal` tests `Signaled` before it takes `EventLock`
  and does not look again before it blocks. A signal in between finds nobody, and the
  thread waits on a signaled event (`ex_event.c:97`); for a termination event no other
  signal comes.
- `process_early`: `ProcessCreate` takes the reference for the handle after it started
  the main thread; if that thread is quick the handle is one to a destroyed process
  (`process.c:301`).

- `fat_shared`: extending a file leaves `FSI_Nxt_Free` on the cluster that was just
  appended (`fat_utils.c:450`); creating a file takes `FSI_Nxt_Free` as its first cluster
  without looking at the FAT (`fat_operations.c:1053`). The new file shares the other
  one's last cluster, and clears it.

Other limits of the code show up as conditions of properties that hold:

- A thread that is terminated gives up no mutex and leaves no waiting list
  (`thread.c:474`, `510`): `AnyWaiterGetsMutex` needs that nobody is terminated, and
  `ThreadsAreInOnePlace` that no waiting thread is.
- `ThreadCreateEx` undoes nothing when it fails after inserting the thread
  (`thread.c:351`), nor when its caller is terminated inside it: such a thread keeps its
  process alive for ever, which `CreationsFinish` excludes.
- Two interrupt requests for the IPC vector merge, and the handler takes one event: the
  other event waits for the next interrupt (`smp.c:832`). A sender that is moved after it
  filled the lists may interrupt another set of CPUs (`smp.c:521`). `WaitReturnsUnlessMerged`
  and `HandlerFindsEvent` name both.
- The disk's waiter can miss its wake-up in `ExEventWaitForSignal`, and the handler clears
  the interrupt bit after it woke the thread, so it can clear the bit of the next transfer
  (`ata_operations.c:898`): `AnyRequestReturnsUnlessMissed`.
- Mapping a page that is mapped already loses the frame beneath
  (`vmm.c:802`): `FramesAreLostOnlyByRemapping` says that there is no other way.
- The entry at which the heap's next search restarts may be freed, or be the last of the
  list by then (`cl_heap.c:275`); the search reads the freed entry or goes on from NULL.
  `AllocationsAreDisjoint` holds as long as no search went astray.
- When an IRQL has no vector left, the first one is shared (`iomu.c:875`), also by a device
  with a line of its own, whose line is not routed although the call succeeds (line 908).
  `InterruptsReachTheirRoutine` names this case. Two CPUs in the list of one vector may
  each claim the other's interrupt, and the one left without a taker fails the assert.
  The vector and its routine stay taken when the entry cannot be allocated
  (`iomu.c:911`).
- `_IoApicSystemRetrievePrtEntries` stores the number of its entries in
  `NoOfInterruptOverrides` (`ioapic_system.c:650`): later searches for an override end too
  early or read behind the table. A driver that got a wrong line this way also leaves the
  interrupts of its real line to nobody, so that the assert of `_IsrInterruptHandler` fails:
  the run is too small to show that, the proof of `DevicesAreServed` did, and
  `InterruptsReachTheirRoutine` names both consequences.
- A transmit interrupt that is already raised opens the ring again just after the
  transmit thread closed it (`eth_82574L_operations.c:674`). The thread fills the last
  descriptor, the tail comes round to the head, and to the card the full ring is empty:
  nothing is sent any more, and the next frame fails the assert on `DescriptorDone`
  (line 272). `AcceptedFramesAreTransmitted` names this state, `RingLooksEmpty`.
- `EthChangeDeviceStatus` gives the transmitter the new status of the receiver (line 396),
  so a card may stay silent although `TxEnabled` is set; the property asks for the bit of
  the card, not for `TxEnabled`. A receive call waits with the card's `DeviceLock` held,
  so nobody sends before a frame arrives.
- A search for a free cluster never wraps and never looks at the last sectors of the FAT
  (`fat_utils.c:257`): a request may fail its assert while clusters are free.

## 7. What is not modelled

Hardware access, boot, ACPI, drivers' register programming, logging, the command
interpreter, the kernel's own tests, the PE parser and the user applications: they hold
no shared state of their own that a property could be about, or are I/O only. The
system-call layer dispatches a single call. SwapFS passes reads and writes through to
its volume. In the modelled components: tick statistics, thread priorities (stored,
never used by the scheduler), PIDs and the global process list, command-line parsing,
page-table formats, TLBs (the code invalidates the TLB of the unmapping CPU only,
`vmm.c:1258`), MDLs, device discovery and creation, partition tables, sub-directories,
long names, file attributes and dates, the list of network devices. The executive
timer, the keyboard and the hash table are small enough to model and are in
the plan.

Hazards known from reading, in code outside the modules or outside their assumptions:
`ProcessTerminate` misses threads inserted after its walk (`process.c:399`);
`_ThreadDestroy` of a thread that failed to initialise uses an unset list entry
(`thread.c:809`); `_ProcessDestroy` may block inside the scheduler's clean-up
(`process.c:729`); `ExTimerWait` polls, and misses a stop followed by a start
(`ex_timer.c:90`), and times are compared by a signed difference (`ex_timer.c:114`);
the keyboard's single cell is overwritten by the next interrupt (`keyboard.c:382`);
`FreeBitmapAddress` only grows (`vm_reservation_space.c:364`); a memory region with an
unaligned base gets a frame too many (`pmm.c:359`); master and slave of an ATA channel
share registers (`ata_operations.c:874`); two CPUs that send each other events with
interrupts off wait for ever (`smp.c:536`); `NetworkPortRegisterMiniportDriver` asks for
more than one device where its comment says "at least a device" (`network_port.c:245`);
`NetGetNetworkDevices` calls drivers, and so takes mutexes, inside a reader/writer
spinlock (`network_interface.c:195`).

## 8. Plan

1. Proofs: that a search of the heap only goes astray after the entry it restarts from was
   freed or became the last one; the assert on `DescriptorDone` in `EthSendFrame` under the
   condition that no transmit interrupt comes between closing and filling the ring.
2. A composition of `Scheduler` with `ThreadTerminate` of waiting threads, and an
   abstract thread life cycle that `Scheduler` and `Process` both implement.
3. The timer and the keyboard cell on top of `ExEvent`; sub-directories in `Fat`.
4. `HashTable` as an algorithm with an invariant; device creation and driver loading of
   the I/O manager.
