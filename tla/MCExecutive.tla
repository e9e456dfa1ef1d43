---------------------------- MODULE MCExecutive -----------------------------
(***************************************************************************)
(* What threads block on, for TLC: a mutex, an event, and the disk, which  *)
(* is behind mutexes and an event.  The three objects share no state, so a *)
(* behaviour is one of one of them: object says which, and the others rest *)
(* in an initial state.                                                    *)
(***************************************************************************)
EXTENDS Mutex

CONSTANTS Waiters, Signallers, MaxCount,          \* of ExEvent
          CPUs, v1, v2                            \* of Storage

VARIABLES object,
          EventType, EventSignaled, EventLock, EventWaitingList, eventPc, signals, returns,
          DeviceLock, th, CurrentTransfer, Signaled, waiting, busy, DMA_IRQ, irq, isr,
          halted, missed

eventVars == <<EventType, EventSignaled, EventLock, EventWaitingList, eventPc, signals, returns>>
diskVars == <<DeviceLock, th, CurrentTransfer, Signaled, waiting, busy, DMA_IRQ, irq, isr,
              halted, missed>>

E == INSTANCE ExEvent WITH Signaled <- EventSignaled, WaitingList <- EventWaitingList,
                           pc <- eventPc

-----------------------------------------------------------------------------
(* Two threads, and two volumes of a disk of four sectors; the second      *)
(* partition reaches past its end.                                         *)

DiskThreads == Threads \ Killable
ARequest(v, o, l, async) == [v |-> v, offset |-> o, length |-> l, async |-> async, aligned |-> TRUE]

\* With and without DMA, past the partition, past the disk, nothing, unaligned.
SomeRequests ==
    {ARequest(v1, 1, 1, TRUE), ARequest(v1, 0, 2, FALSE), ARequest(v2, 0, 1, TRUE),
     ARequest(v1, 1, 2, TRUE), ARequest(v2, 1, 1, TRUE), ARequest(v2, 0, 0, TRUE),
     [ARequest(v2, 0, 1, TRUE) EXCEPT !.aligned = FALSE]}

D == INSTANCE Storage WITH
        Threads <- DiskThreads, Volumes <- {v1, v2},
        OffsetInDisk <- [v \in {v1, v2} |-> IF v = v1 THEN 1 ELSE 3],
        PartitionSize <- [v \in {v1, v2} |-> 2], TotalSectors <- 4,
        Requests <- SomeRequests

ASSUME E!ExEventAssumption /\ D!StorageAssumption

-----------------------------------------------------------------------------
ExecutiveInit ==
    /\ object \in {"mutex", "event", "disk"}
    /\ MutexInit /\ E!ExEventInit /\ D!StorageInit
    /\ object # "event" => EventType = "Notification" /\ ~EventSignaled

ExecutiveNext ==
    /\ UNCHANGED object
    /\ \/ object = "mutex" /\ MutexNext /\ UNCHANGED <<eventVars, diskVars>>
       \/ object = "event" /\ E!ExEventNext /\ UNCHANGED <<mutexVars, diskVars>>
       \/ object = "disk" /\ D!StorageNext /\ UNCHANGED <<mutexVars, eventVars>>

\* The fairness of each module, for the object the behaviour is one of.
Of(o, A) == object = o /\ A

ExecutiveFairness ==
    /\ \A t \in Threads : /\ WF_mutexVars(Of("mutex", MutexStep(t)))
                          /\ SF_mutexVars(Of("mutex", ReleaseStart(t)))
    /\ \A t \in Waiters : WF_eventVars(Of("event", E!WaitStep(t)))
    /\ \A s \in Signallers : WF_eventVars(Of("event", E!SignalStep(s)))
    /\ SF_eventVars(Of("event", \E s \in Signallers : E!Signal(s)))
    /\ \A t \in DiskThreads : /\ WF_diskVars(Of("disk", D!ThreadStep(t)))
                              /\ SF_diskVars(Of("disk", D!Acquire(t)))
    /\ WF_diskVars(Of("disk", D!DeviceDone))
    /\ WF_diskVars(Of("disk", \E c \in CPUs : D!TakeInterrupt(c)))
    /\ \A c \in CPUs : WF_diskVars(Of("disk", D!FinishInterrupt(c)))

ExecutiveSpec ==
    /\ ExecutiveInit
    /\ [][ExecutiveNext]_<<object, mutexVars, eventVars, diskVars>>
    /\ ExecutiveFairness

-----------------------------------------------------------------------------
(* Properties of the three.  The threads an eventuality is about are       *)
(* interchangeable (the mutex's, while none is terminated), so it is       *)
(* checked for one of them.                                                *)

\* MutexRelease: a thread that waits for the mutex gets it, as long as nobody
\* is terminated.
AnyWaiterGetsMutex == WaiterGetsMutex(CHOOSE t \in Threads : TRUE)

\* The waiting list of ex_event.c holds exactly the blocked threads, each once.
BlockedThreadsAreListed == E!BlockedThreadsAreListed

\* One signal of a synchronization event lets at most one thread pass.
OnePassPerSignal == E!OnePassPerSignal

\* ExEventSignal: while signals keep coming every blocked thread is woken.
AnyBlockedThreadIsWoken == E!BlockedThreadIsWoken(CHOOSE t \in Waiters : TRUE)

\* The asserts of ata_operations.c on CurrentTransfer hold, one transfer at a
\* time, each finished by its own interrupt.
TransferAsserts == D!TransferAsserts

\* A request of the disk returns, unless a wake-up or an interrupt was missed.
AnyRequestReturnsUnlessMissed == D!RequestReturns(CHOOSE t \in DiskThreads : TRUE)
=============================================================================
