----------------------------- MODULE Scheduler ------------------------------
(***************************************************************************)
(* The thread scheduler of HAL9000/src/thread.c on several CPUs.           *)
(*                                                                         *)
(* A CPU leaves its thread only through _ThreadSchedule, entered with      *)
(* interrupts off and ReadyThreadsLock held, and the thread it switches to *)
(* ends the switch: ThreadCleanupPostSchedule releases ReadyThreadsLock    *)
(* and then looks at the thread the CPU came from, to release its          *)
(* BlockLock or to drop the reference of a dying thread.  Everything below *)
(* runs with interrupts off, so where a CPU is fits in one program counter *)
(* per CPU; LOCKs are used as AbstractLock promises.                       *)
(*                                                                         *)
(* Threads wait on the WaitingList of an event or a mutex.  The list and   *)
(* its lock appear here as the protocol ex_event.c and mutex.c share: link *)
(* the thread and take its BlockLock under the list's lock, then block.    *)
(***************************************************************************)
EXTENDS Integers, Sequences, FiniteSets, SequencesExt

CONSTANTS CPUs,        \* a CPU also names its idle thread
          Threads,     \* the other threads
          Waiters,     \* the threads that wait on the event or mutex
          Mortal,      \* the threads whose function may return
          Killable,    \* the threads somebody may call ThreadTerminate on
          Nobody       \* NULL: no thread, no lock holder

ASSUME SchedulerAssumption ==
    /\ CPUs \intersect Threads = {}
    /\ Nobody \notin CPUs \union Threads
    /\ Waiters \subseteq Threads
    /\ Mortal \subseteq Threads
    /\ Killable \subseteq Threads

AllThreads == CPUs \union Threads

VARIABLES
    CurrentThread, PreviousThread,  \* PCPU.ThreadData, per CPU
    State,                          \* THREAD.State; "none" before ThreadCreateEx
    Flags,                          \* THREAD.Flags, a set of bits
    RefCnt,                         \* THREAD.RefCnt
    handle,                         \* the creator of the thread still has its handle
    saved,                          \* THREAD.Stack holds the thread's whole context
    ReadyThreadsList, ReadyThreadsLock,
    BlockLock,                      \* THREAD.BlockLock
    WaitingList, WaitLock,          \* one event or mutex
    pc, target                      \* per CPU: program counter, thread to unblock

threadVars == <<State, Flags, RefCnt, handle, saved>>
cpuVars == <<CurrentThread, PreviousThread, pc, target>>
waitVars == <<WaitingList, WaitLock>>
schedVars == <<threadVars, cpuVars, waitVars, ReadyThreadsList, ReadyThreadsLock, BlockLock>>

\* run: the thread's own code, interrupts allowed.  yield: in ThreadYield.
\* link, block: a thread on its way into ThreadBlock.  exit: in ThreadExit.
\* away: wants ReadyThreadsLock for _ThreadSchedule.  schedule, switch,
\* cleanup, reap: _ThreadSchedule and ThreadCleanupPostSchedule.  wake, ready,
\* woken: in ThreadUnblock.
Labels == {"run", "yield", "link", "block", "away", "exit", "schedule", "switch",
           "cleanup", "reap", "wake", "ready", "woken"}

Goto(c, l) == pc' = [pc EXCEPT ![c] = l]
At(c, l) == pc[c] = l
Cur(c) == CurrentThread[c]

\* THREAD_FLAG_FORCE_TERMINATE_PENDING == Flags: set, and no other flag is.
Doomed(t) == Flags[t] = {"TerminatePending"}

\* ThreadSystemInitMainForCurrentCPU and ThreadSystemInitIdleForCurrentCPU: each
\* CPU executes its main thread, and its idle thread waits for its first turn.
ThreadSystemInit ==
    /\ CurrentThread \in {f \in [CPUs -> Threads] : IsInjective(f)}
    /\ PreviousThread = [c \in CPUs |-> Nobody]
    /\ State = [t \in AllThreads |->
                   CASE t \in CPUs -> "Ready"
                     [] t \in Range(CurrentThread) -> "Running"
                     [] OTHER -> "none"]
    /\ Flags = [t \in AllThreads |-> {}]
    /\ RefCnt = [t \in AllThreads |-> IF State[t] = "none" THEN 0 ELSE 1]
    /\ handle = {}
    /\ saved = [t \in AllThreads |-> t \in CPUs]
    /\ ReadyThreadsList = <<>> /\ ReadyThreadsLock = Nobody
    /\ BlockLock = [t \in AllThreads |-> Nobody]
    /\ WaitingList = <<>> /\ WaitLock = Nobody
    /\ pc = [c \in CPUs |-> "run"]
    /\ target = [c \in CPUs |-> Nobody]

-----------------------------------------------------------------------------
(* ThreadCreateEx, ThreadTerminate, ThreadCloseHandle, RfcDereference.     *)

\* _ThreadInit and _ThreadSetupInitialState; ThreadUnblock follows.  The new
\* thread holds one reference to itself, its creator another.
ThreadCreate(c, t) ==
    /\ At(c, "run") /\ Cur(c) \in Threads /\ State[t] = "none"
    /\ State' = [State EXCEPT ![t] = "Blocked"]
    /\ RefCnt' = [RefCnt EXCEPT ![t] = 2]
    /\ handle' = handle \union {t}
    /\ saved' = [saved EXCEPT ![t] = TRUE]
    /\ target' = [target EXCEPT ![c] = t]
    /\ Goto(c, "wake")
    /\ UNCHANGED <<CurrentThread, PreviousThread, Flags, waitVars, ReadyThreadsList,
                   ReadyThreadsLock, BlockLock>>

ThreadTerminate(c, t) ==
    /\ At(c, "run") /\ Cur(c) \in Threads /\ t \in Killable \intersect handle
    /\ Flags' = [Flags EXCEPT ![t] = @ \union {"TerminatePending"}]
    /\ UNCHANGED <<State, RefCnt, handle, saved, cpuVars, waitVars, ReadyThreadsList,
                   ReadyThreadsLock, BlockLock>>

ThreadCloseHandle(c, t) ==
    /\ At(c, "run") /\ Cur(c) \in Threads /\ t \in handle
    /\ handle' = handle \ {t}
    /\ RefCnt' = [RefCnt EXCEPT ![t] = @ - 1]
    /\ UNCHANGED <<State, Flags, saved, cpuVars, waitVars, ReadyThreadsList,
                   ReadyThreadsLock, BlockLock>>

-----------------------------------------------------------------------------
(* ThreadYield, called by the thread or on return from a timer interrupt.  *)

\* ThreadExit by way of _ThreadForcedExit when the thread is doomed.
ThreadYield(c) ==
    /\ At(c, "run")
    /\ IF Doomed(Cur(c))
       THEN /\ Flags' = [Flags EXCEPT ![Cur(c)] = @ \union {"Terminated"}]
            /\ Goto(c, "exit")
       ELSE Goto(c, "yield") /\ UNCHANGED Flags
    /\ UNCHANGED <<State, RefCnt, handle, saved, CurrentThread, PreviousThread, target,
                   waitVars, ReadyThreadsList, ReadyThreadsLock, BlockLock>>

\* Mutant. The yielding thread is queued before ReadyThreadsLock is taken.
YieldEnqueueUnlocked(c) ==
    /\ At(c, "yield")
    /\ ReadyThreadsList' = IF Cur(c) \in CPUs THEN ReadyThreadsList
                           ELSE Append(ReadyThreadsList, Cur(c))
    /\ State' = [State EXCEPT ![Cur(c)] = "Ready"]
    /\ Goto(c, "away")
    /\ UNCHANGED <<Flags, RefCnt, handle, saved, CurrentThread, PreviousThread, target,
                   waitVars, ReadyThreadsLock, BlockLock>>

YieldEnqueue(c) ==
    /\ At(c, "yield") /\ ReadyThreadsLock = Nobody
    /\ ReadyThreadsLock' = c
    /\ ReadyThreadsList' = IF Cur(c) \in CPUs THEN ReadyThreadsList
                           ELSE Append(ReadyThreadsList, Cur(c))
    /\ State' = [State EXCEPT ![Cur(c)] = "Ready"]
    /\ Goto(c, "schedule")
    /\ UNCHANGED <<Flags, RefCnt, handle, saved, CurrentThread, PreviousThread, target,
                   waitVars, BlockLock>>

-----------------------------------------------------------------------------
(* Blocking: the waiting list, ThreadTakeBlockLock, ThreadBlock.           *)

\* InsertTailList under the lock of the event or mutex.
LinkWaiter(c) ==
    /\ At(c, "run") /\ Cur(c) \in Waiters /\ WaitLock = Nobody
    /\ WaitLock' = c
    /\ WaitingList' = Append(WaitingList, Cur(c))
    /\ Goto(c, "link")
    /\ UNCHANGED <<threadVars, CurrentThread, PreviousThread, target, ReadyThreadsList,
                   ReadyThreadsLock, BlockLock>>

\* ThreadTakeBlockLock, then the list's lock is released.
ThreadTakeBlockLock(c) ==
    /\ At(c, "link") /\ BlockLock[Cur(c)] = Nobody
    /\ BlockLock' = [BlockLock EXCEPT ![Cur(c)] = c]
    /\ WaitLock' = Nobody
    /\ Goto(c, "block")
    /\ UNCHANGED <<threadVars, CurrentThread, PreviousThread, target, WaitingList,
                   ReadyThreadsList, ReadyThreadsLock>>

\* One turn of the loop of _IdleThread: it waits for nothing and nobody
\* unblocks it; it is what runs when the ready list is empty.
IdleThread(c) ==
    /\ At(c, "run") /\ Cur(c) = c /\ BlockLock[c] = Nobody
    /\ BlockLock' = [BlockLock EXCEPT ![c] = c]
    /\ Goto(c, "block")
    /\ UNCHANGED <<threadVars, CurrentThread, PreviousThread, target, waitVars,
                   ReadyThreadsList, ReadyThreadsLock>>

ThreadBlock(c) ==
    /\ At(c, "block")
    /\ IF Doomed(Cur(c))
       THEN /\ Flags' = [Flags EXCEPT ![Cur(c)] = @ \union {"Terminated"}]
            /\ Goto(c, "exit") /\ UNCHANGED State
       ELSE /\ State' = [State EXCEPT ![Cur(c)] = "Blocked"]
            /\ Goto(c, "away") /\ UNCHANGED Flags
    /\ UNCHANGED <<RefCnt, handle, saved, CurrentThread, PreviousThread, target,
                   waitVars, ReadyThreadsList, ReadyThreadsLock, BlockLock>>

-----------------------------------------------------------------------------
(* Unblocking: the waker takes a waiter off the list, then ThreadUnblock.  *)

UnlinkWaiter(c) ==
    /\ At(c, "run") /\ WaitLock = Nobody /\ WaitingList # <<>>
    /\ WaitLock' = c
    /\ WaitingList' = Tail(WaitingList)
    /\ target' = [target EXCEPT ![c] = Head(WaitingList)]
    /\ Goto(c, "wake")
    /\ UNCHANGED <<threadVars, CurrentThread, PreviousThread, ReadyThreadsList,
                   ReadyThreadsLock, BlockLock>>

\* Mutant. The waker does not wait for the BlockLock.
UnblockLockless(c) ==
    /\ At(c, "wake")
    /\ Goto(c, "ready")
    /\ UNCHANGED <<threadVars, CurrentThread, PreviousThread, target, waitVars,
                   ReadyThreadsList, ReadyThreadsLock, BlockLock>>

\* ThreadUnblock takes the BlockLock of its target...
UnblockLock(c) ==
    /\ At(c, "wake") /\ BlockLock[target[c]] = Nobody
    /\ BlockLock' = [BlockLock EXCEPT ![target[c]] = c]
    /\ Goto(c, "ready")
    /\ UNCHANGED <<threadVars, CurrentThread, PreviousThread, target, waitVars,
                   ReadyThreadsList, ReadyThreadsLock>>

\* ... queues it under ReadyThreadsLock, which it takes and releases here ...
UnblockQueue(c) ==
    /\ At(c, "ready") /\ ReadyThreadsLock = Nobody
    /\ ReadyThreadsList' = Append(ReadyThreadsList, target[c])
    /\ State' = [State EXCEPT ![target[c]] = "Ready"]
    /\ Goto(c, "woken")
    /\ UNCHANGED <<Flags, RefCnt, handle, saved, CurrentThread, PreviousThread, target,
                   waitVars, ReadyThreadsLock, BlockLock>>

\* ... and releases the BlockLock; its caller then releases the list's lock.
UnblockDone(c) ==
    /\ At(c, "woken")
    /\ BlockLock' = [BlockLock EXCEPT ![target[c]] = Nobody]
    /\ WaitLock' = IF WaitLock = c THEN Nobody ELSE WaitLock
    /\ target' = [target EXCEPT ![c] = Nobody]
    /\ Goto(c, "run")
    /\ UNCHANGED <<threadVars, CurrentThread, PreviousThread, WaitingList,
                   ReadyThreadsList, ReadyThreadsLock>>

-----------------------------------------------------------------------------
(* ThreadExit: the thread function returned, or "exit" from a forced exit. *)
(* The signal of the thread's TerminationEvt is the waking of waiters that *)
(* UnlinkWaiter starts, ProcessNotifyThreadTermination is in Process.      *)

ThreadExit(c) ==
    /\ At(c, "exit") \/ (At(c, "run") /\ Cur(c) \in Mortal)
    /\ BlockLock' = IF BlockLock[Cur(c)] = c THEN [BlockLock EXCEPT ![Cur(c)] = Nobody]
                    ELSE BlockLock
    /\ State' = [State EXCEPT ![Cur(c)] = "Dying"]
    /\ Goto(c, "away")
    /\ UNCHANGED <<Flags, RefCnt, handle, saved, CurrentThread, PreviousThread, target,
                   waitVars, ReadyThreadsList, ReadyThreadsLock>>

-----------------------------------------------------------------------------
(* _ThreadSchedule.                                                        *)

\* LockAcquire(ReadyThreadsLock) at the end of ThreadBlock and ThreadExit.
LockReady(c) ==
    /\ At(c, "away") /\ ReadyThreadsLock = Nobody
    /\ ReadyThreadsLock' = c
    /\ Goto(c, "schedule")
    /\ UNCHANGED <<threadVars, CurrentThread, PreviousThread, target, waitVars,
                   ReadyThreadsList, BlockLock>>

\* Mutant. The newest thread is preferred.
ScheduleLifo(c) ==
    /\ At(c, "schedule")
    /\ PreviousThread' = [PreviousThread EXCEPT ![c] = Cur(c)]
    /\ LET next == IF ReadyThreadsList = <<>> THEN c ELSE Last(ReadyThreadsList)
       IN /\ CurrentThread' = [CurrentThread EXCEPT ![c] = next]
          /\ Goto(c, IF next = Cur(c) THEN "cleanup" ELSE "switch")
    /\ ReadyThreadsList' = IF ReadyThreadsList = <<>> THEN <<>> ELSE Front(ReadyThreadsList)
    /\ UNCHANGED <<threadVars, target, waitVars, ReadyThreadsLock, BlockLock>>

\* _ThreadGetReadyThread picks the head of the ready list, or the CPU's own
\* idle thread; SetCurrentThread precedes the switch of stacks.
Schedule(c) ==
    /\ At(c, "schedule")
    /\ PreviousThread' = [PreviousThread EXCEPT ![c] = Cur(c)]
    /\ LET next == IF ReadyThreadsList = <<>> THEN c ELSE Head(ReadyThreadsList)
       IN /\ CurrentThread' = [CurrentThread EXCEPT ![c] = next]
          /\ Goto(c, IF next = Cur(c) THEN "cleanup" ELSE "switch")
    /\ ReadyThreadsList' = IF ReadyThreadsList = <<>> THEN <<>> ELSE Tail(ReadyThreadsList)
    /\ UNCHANGED <<threadVars, target, waitVars, ReadyThreadsLock, BlockLock>>

\* ThreadSwitch stores the context of the old thread and loads the new one.
ThreadSwitch(c) ==
    /\ At(c, "switch")
    /\ saved' = [saved EXCEPT ![PreviousThread[c]] = TRUE, ![Cur(c)] = FALSE]
    /\ Goto(c, "cleanup")
    /\ UNCHANGED <<State, Flags, RefCnt, handle, CurrentThread, PreviousThread, target,
                   waitVars, ReadyThreadsList, ReadyThreadsLock, BlockLock>>

\* ThreadCleanupPostSchedule, run by the thread that was switched to.
CleanupUnlock(c) ==
    /\ At(c, "cleanup")
    /\ ReadyThreadsLock' = Nobody
    /\ Goto(c, "reap")
    /\ UNCHANGED <<threadVars, CurrentThread, PreviousThread, target, waitVars,
                   ReadyThreadsList, BlockLock>>

\* Mutant. The reference of a dying thread is never dropped.
CleanupPrevKeepsRef(c) ==
    /\ At(c, "reap")
    /\ LET prev == PreviousThread[c] IN
       BlockLock' = IF BlockLock[prev] = c THEN [BlockLock EXCEPT ![prev] = Nobody] ELSE BlockLock
    /\ Goto(c, "run")
    /\ UNCHANGED <<threadVars, CurrentThread, PreviousThread, target, waitVars,
                   ReadyThreadsList, ReadyThreadsLock>>

CleanupPrev(c) ==
    /\ At(c, "reap")
    /\ LET prev == PreviousThread[c] IN
       \/ /\ BlockLock[prev] = c
          /\ BlockLock' = [BlockLock EXCEPT ![prev] = Nobody]
          /\ UNCHANGED <<RefCnt, PreviousThread>>
       \/ /\ BlockLock[prev] # c /\ State[prev] = "Dying"
          /\ RefCnt' = [RefCnt EXCEPT ![prev] = @ - 1]
          /\ PreviousThread' = [PreviousThread EXCEPT ![c] = Nobody]
          /\ UNCHANGED BlockLock
       \/ /\ BlockLock[prev] # c /\ State[prev] # "Dying"
          /\ UNCHANGED <<BlockLock, RefCnt, PreviousThread>>
    /\ Goto(c, "run")
    /\ UNCHANGED <<State, Flags, handle, saved, CurrentThread, target, waitVars,
                   ReadyThreadsList, ReadyThreadsLock>>

-----------------------------------------------------------------------------
\* The scheduler's own steps, which a CPU takes with interrupts off.
SchedulerStep(c) ==
    \/ YieldEnqueue(c) \/ ThreadTakeBlockLock(c) \/ ThreadBlock(c)
    \/ UnblockLock(c) \/ UnblockQueue(c) \/ UnblockDone(c)
    \/ (At(c, "exit") /\ ThreadExit(c)) \/ LockReady(c) \/ Schedule(c)
    \/ ThreadSwitch(c) \/ CleanupUnlock(c) \/ CleanupPrev(c)

\* What the running thread may choose to do.
ThreadStep(c) ==
    \/ \E t \in Threads : ThreadCreate(c, t) \/ ThreadTerminate(c, t) \/ ThreadCloseHandle(c, t)
    \/ LinkWaiter(c) \/ IdleThread(c) \/ UnlinkWaiter(c)
    \/ (At(c, "run") /\ ThreadExit(c))

SchedulerNext == \E c \in CPUs : SchedulerStep(c) \/ ThreadStep(c) \/ ThreadYield(c)

SchedulerSpec == ThreadSystemInit /\ [][SchedulerNext]_schedVars

\* A CPU keeps executing scheduler code, and the timer interrupt, pending from
\* the moment it is raised, is taken whenever interrupts are on again and again.
SchedulerFairSpec ==
    /\ SchedulerSpec
    /\ \A c \in CPUs : WF_schedVars(SchedulerStep(c)) /\ SF_schedVars(ThreadYield(c))

-----------------------------------------------------------------------------
(* Properties.                                                             *)

\* The scheduler's data has its type.  Idle threads never are in the ready list
\* (ThreadYield keeps them off it), nor in a waiting list.  RefCnt may be dropped
\* once too often: see RunningThreadIsReferenced.
SchedulerTypeOK ==
    /\ CurrentThread \in [CPUs -> AllThreads]
    /\ PreviousThread \in [CPUs -> AllThreads \union {Nobody}]
    /\ State \in [AllThreads -> {"none", "Running", "Ready", "Blocked", "Dying"}]
    /\ Flags \in [AllThreads -> SUBSET {"TerminatePending", "Terminated"}]
    /\ RefCnt \in [AllThreads -> Int]
    /\ handle \subseteq Threads
    /\ saved \in [AllThreads -> BOOLEAN]
    /\ ReadyThreadsList \in Seq(Threads)
    /\ WaitingList \in Seq(Threads)
    /\ ReadyThreadsLock \in CPUs \union {Nobody}
    /\ WaitLock \in CPUs \union {Nobody}
    /\ BlockLock \in [AllThreads -> CPUs \union {Nobody}]
    /\ pc \in [CPUs -> Labels]
    /\ target \in [CPUs -> Threads \union {Nobody}]

\* The thread whose stack CPU c is on: the new current thread is set before
\* the stacks are switched.
Executing(c) == IF At(c, "switch") THEN PreviousThread[c] ELSE Cur(c)

\* The BlockLock hand-over of ThreadBlock and ThreadCleanupPostSchedule: the
\* context a CPU is about to load was completely stored by the CPU that ran the
\* thread before, and no thread executes on two CPUs at once, on one stack.
ResumesSavedContext ==
    /\ \A c \in CPUs : At(c, "switch") => saved[Cur(c)]
    /\ \A c, d \in CPUs : Executing(c) = Executing(d) => c = d

\* Where thread t is, as the linked lists and the CPUs see it.
Occurrences(t) ==
    LET in(s) == Cardinality({i \in DOMAIN s : s[i] = t})
    IN in(ReadyThreadsList) + in(WaitingList)
       + Cardinality({c \in CPUs : target[c] = t /\ pc[c] \in {"wake", "ready"}})

\* The ready list and the waiting lists link threads through one and the same
\* LIST_ENTRY, so a thread is never on two lists, nor twice on one.
OneListPerThread == \A t \in Threads : Occurrences(t) <= 1

\* No live thread is forgotten: a thread that does not execute is in the ready
\* list, in a waiting list, or in the hands of the CPU that unblocks it.
NoThreadLost ==
    \A t \in Threads :
        State[t] \in {"Running", "Ready", "Blocked"}
            => Occurrences(t) = 1 \/ \E c \in CPUs : t \in {Cur(c), Executing(c)}

\* The asserts of the scheduler: ThreadUnblock wakes a blocked thread, only
\* ready threads are picked, and the BlockLock a switch leaves behind belongs
\* to a blocked thread or to the idle thread.
SchedulerAsserts ==
    /\ \A c \in CPUs : At(c, "ready") => State[target[c]] = "Blocked"
    /\ \A i \in DOMAIN ReadyThreadsList : State[ReadyThreadsList[i]] = "Ready"
    /\ \A c \in CPUs : LET prev == PreviousThread[c] IN
           At(c, "reap") /\ prev # Nobody /\ BlockLock[prev] = c
               => State[prev] = "Blocked" \/ prev = c

\* ThreadYield, ThreadBlock, ThreadUnblock and _ThreadSchedule move threads from
\* place to place without losing or duplicating one, and find it in the state
\* they assert.
ThreadsAreInOnePlace ==
    SchedulerTypeOK /\ OneListPerThread /\ NoThreadLost /\ SchedulerAsserts

\* References are the creator's handle and the thread's own, dropped once, by
\* the thread scheduled after it: nobody frees a stack a CPU still runs on.
RefCntExact ==
    \A t \in Threads :
        LET leaving == \E c \in CPUs :
                /\ PreviousThread[c] = t
                /\ pc[c] \in {"switch", "cleanup", "reap"}
            alive == \/ State[t] \in {"Running", "Ready", "Blocked"}
                     \/ State[t] = "Dying" /\ (leaving \/ \E c \in CPUs : Cur(c) = t)
        IN RefCnt[t] = (IF t \in handle THEN 1 ELSE 0) + (IF alive THEN 1 ELSE 0)

\* The stack and THREAD of a running thread outlive it: the comment on
\* ThreadStateDying ("the thread has already executed its last quanta").
RunningThreadIsReferenced ==
    \A c \in CPUs : Executing(c) \in Threads => RefCnt[Executing(c)] > 0

\* A ready thread is eventually executed, whatever the other threads do.
ReadyThreadsRun ==
    \A t \in Threads :
        (\E i \in DOMAIN ReadyThreadsList : ReadyThreadsList[i] = t)
            ~> (\E c \in CPUs : Executing(c) = t)
=============================================================================
