------------------------------ MODULE Storage -------------------------------
(***************************************************************************)
(* A read or write on its way down the device stack: IoCallDriver of       *)
(* HAL9000/src/io_devices.c, the volume and disk drivers, and the ATA      *)
(* driver with its DMA interrupt, for the file systems of the volumes of   *)
(* one disk.                                                               *)
(*                                                                         *)
(* IoCallDriver holds the DeviceLock of a device, a MUTEX, around its      *)
(* dispatch function, so a request holds the locks of the file system, the *)
(* volume, the disk and the ATA device while it waits for its transfer.    *)
(* The interrupt is edge triggered and goes to any CPU.  TransferReady is  *)
(* a synchronization EX_EVENT, used as ExEvent describes it.               *)
(***************************************************************************)
EXTENDS Integers, Sequences, FiniteSets

CONSTANTS Threads,          \* threads with requests
          CPUs,             \* CPUs that may take the disk's interrupt
          Volumes, OffsetInDisk, PartitionSize,    \* the partition of each volume
          TotalSectors,     \* of the disk
          Requests,         \* the requests threads make, in sectors of their volume
          Nobody            \* no thread

\* What the constants are assumed to be.
StorageAssumption ==
    /\ OffsetInDisk \in [Volumes -> Nat] /\ PartitionSize \in [Volumes -> Nat]
    /\ TotalSectors \in Nat /\ Nobody \notin Threads
    /\ Requests \subseteq [v : Volumes, offset : Nat, length : Nat,
                           async : BOOLEAN, aligned : BOOLEAN]

VARIABLES DeviceLock,       \* who is in the dispatch function of a device
          th,               \* per thread: where its request is
          CurrentTransfer,  \* State, Prdt and sectors of the ATA_CURRENT_TRANSFER
          Signaled, waiting,        \* TransferReady, and the thread in its list
          busy, DMA_IRQ, irq,       \* the device: transferring, its status bit, its interrupt
          isr,              \* per CPU: where it is in _AtaDmaInterrupt
          halted,           \* an ASSERT failed
          missed            \* history: a wake-up or an interrupt went amiss

transferVars == <<CurrentTransfer, Signaled, waiting, busy, DMA_IRQ>>
vars == <<DeviceLock, th, transferVars, irq, isr, halted, missed>>

\* The stack a request of a volume goes down, from the top.
Stack(v) == << <<"fs", v>>, <<"vol", v>>, <<"disk", 0>>, <<"ata", 0>> >>
Devices == UNION {{Stack(v)[i] : i \in 1 .. 4} : v \in Volumes}

Out == [pc |-> "out"]
NoTransfer == [State |-> "Free", Prdt |-> FALSE, sectors |-> {}]

StorageInit ==
    /\ DeviceLock = [d \in Devices |-> Nobody]
    /\ th = [t \in Threads |-> Out]
    /\ CurrentTransfer = NoTransfer /\ Signaled = FALSE /\ waiting = Nobody
    /\ busy = FALSE /\ DMA_IRQ = FALSE /\ irq = FALSE
    /\ isr = [c \in CPUs |-> "out"]
    /\ halted = FALSE /\ missed = FALSE

Goto(t, l) == th' = [th EXCEPT ![t].pc = l]
Span(first, n) == first .. first + n - 1

-----------------------------------------------------------------------------
(* IoCallDriver and the drivers above ATA.                                 *)

\* A request of a file system's user: _IoReadWriteFile.
Request(t, r) ==
    /\ th[t].pc = "out"
    /\ th' = [th EXCEPT ![t] = [pc |-> "fs", v |-> r.v, offset |-> r.offset, length |-> r.length,
                                async |-> r.async, aligned |-> r.aligned,
                                completed |-> 0, status |-> "pending"]]
    /\ UNCHANGED <<DeviceLock, transferVars, irq, isr, halted, missed>>

\* MutexAcquire of the DeviceLock of the i-th device of the stack.
Enter(t, i) ==
    /\ DeviceLock[Stack(th[t].v)[i]] = Nobody
    /\ DeviceLock' = [DeviceLock EXCEPT ![Stack(th[t].v)[i]] = t]

\* IoCompleteIrp, and the IoStatus.
Completed(r, status) == [r EXCEPT !.completed = @ + 1, !.status = status]

\* The file system's dispatch function reads or writes its volume with an IRP
\* of its own; IoCallDriver refuses lengths and offsets that are not aligned,
\* without completing the IRP.
CallFilesystem(t) ==
    /\ th[t].pc = "fs" /\ Enter(t, 1)
    /\ th' = [th EXCEPT ![t] = IF @.aligned THEN [@ EXCEPT !.pc = "vol"]
                               ELSE [@ EXCEPT !.pc = "leave fs", !.status = "refused"]]
    /\ UNCHANGED <<transferVars, irq, isr, halted, missed>>

VolCheckIOParameters(v, offset, length) ==
    offset < PartitionSize[v] /\ PartitionSize[v] - offset >= length

\* VolDispatchReadWrite: check, make the offset relative to the disk.
CallVolume(t) ==
    /\ th[t].pc = "vol" /\ Enter(t, 2)
    /\ th' = [th EXCEPT ![t] =
                IF VolCheckIOParameters(@.v, @.offset, @.length)
                THEN [@ EXCEPT !.pc = "disk", !.offset = th[t].offset + OffsetInDisk[th[t].v]]
                ELSE [Completed(@, "error") EXCEPT !.pc = "leave vol"]]
    /\ UNCHANGED <<transferVars, irq, isr, halted, missed>>

CallDisk(t) ==
    /\ th[t].pc = "disk" /\ Enter(t, 3)
    /\ Goto(t, "ata")
    /\ UNCHANGED <<transferVars, irq, isr, halted, missed>>

\* MutexRelease on the way back up.
Leaving == <<"leave fs", "leave vol", "leave disk", "leave ata">>
Leave(t) ==
    \E i \in 1 .. 4 :
        /\ th[t].pc = Leaving[i]
        /\ DeviceLock' = [DeviceLock EXCEPT ![Stack(th[t].v)[i]] = Nobody]
        /\ th' = [th EXCEPT ![t] = IF i = 1 THEN Out ELSE [@ EXCEPT !.pc = Leaving[i - 1]]]
        /\ UNCHANGED <<transferVars, irq, isr, halted, missed>>

-----------------------------------------------------------------------------
(* AtaDispatchReadWrite and AtaReadWriteSectors.                           *)

\* The checks; then State must be Free.
CallAta(t) ==
    LET r == th[t]
        ok == r.offset < TotalSectors /\ TotalSectors - r.offset >= r.length
    IN  /\ r.pc = "ata" /\ Enter(t, 4)
        /\ IF ok
           THEN /\ halted' = (halted \/ CurrentTransfer.State # "Free")
                /\ CurrentTransfer' = [CurrentTransfer EXCEPT !.State = "InProgress"]
                /\ Goto(t, "prepare")
           ELSE /\ th' = [th EXCEPT ![t] = [Completed(r, "error") EXCEPT !.pc = "leave ata"]]
                /\ UNCHANGED <<CurrentTransfer, halted>>
        /\ UNCHANGED <<Signaled, waiting, busy, DMA_IRQ, irq, isr, missed>>

\* What follows AtaReadWriteSectors: State is set to Free, the IRP completed.
FinishTransfer(t, status) ==
    /\ CurrentTransfer' = NoTransfer
    /\ th' = [th EXCEPT ![t] = [Completed(@, status) EXCEPT !.pc = "leave ata"]]

\* No sectors, or no memory for the MDL or the PRDT.
TransferFails(t) ==
    /\ th[t].pc = "prepare" /\ (th[t].length = 0 \/ th[t].async)
    /\ FinishTransfer(t, "error")
    /\ UNCHANGED <<DeviceLock, Signaled, waiting, busy, DMA_IRQ, irq, isr, halted, missed>>

\* A synchronous transfer: the device's interrupts are off, the CPU moves the data.
SynchronousTransfer(t) ==
    /\ th[t].pc = "prepare" /\ ~th[t].async /\ th[t].length > 0 /\ ~busy
    /\ FinishTransfer(t, "success")
    /\ UNCHANGED <<DeviceLock, Signaled, waiting, busy, DMA_IRQ, irq, isr, halted, missed>>

\* The PRDT, the parameters, the command and the start bit.
StartDma(t) ==
    /\ th[t].pc = "prepare" /\ th[t].async /\ th[t].length > 0 /\ ~busy
    /\ busy' = TRUE
    /\ CurrentTransfer' = [CurrentTransfer EXCEPT !.Prdt = TRUE,
                                                  !.sectors = Span(th[t].offset, th[t].length)]
    /\ Goto(t, "try")
    /\ UNCHANGED <<DeviceLock, Signaled, waiting, DMA_IRQ, irq, isr, halted, missed>>

\* Mutant. TransferReady is a notification event: it stays signaled.
WaitTryNotification(t) ==
    /\ th[t].pc = "try"
    /\ Goto(t, IF Signaled THEN "ready" ELSE "link")
    /\ UNCHANGED <<DeviceLock, CurrentTransfer, Signaled, waiting, busy, DMA_IRQ, irq, isr, halted, missed>>

\* ExEventWaitForSignal(TransferReady): the compare-exchange.
WaitTry(t) ==
    /\ th[t].pc = "try"
    /\ Signaled' = FALSE
    /\ Goto(t, IF Signaled THEN "ready" ELSE "link")
    /\ UNCHANGED <<DeviceLock, CurrentTransfer, waiting, busy, DMA_IRQ, irq, isr, halted, missed>>

\* Into the waiting list and to sleep, whatever happened since the test.
WaitLink(t) ==
    /\ th[t].pc = "link"
    /\ waiting' = t
    /\ Goto(t, "blocked")
    /\ missed' = (missed \/ Signaled)
    /\ UNCHANGED <<DeviceLock, CurrentTransfer, Signaled, busy, DMA_IRQ, irq, isr, halted>>

\* Back from the wait: State must be Finished and the PRDT is freed.
TransferReady(t) ==
    /\ th[t].pc = "ready"
    /\ halted' = (halted \/ CurrentTransfer.State # "Finished" \/ ~CurrentTransfer.Prdt)
    /\ FinishTransfer(t, "success")
    /\ UNCHANGED <<DeviceLock, Signaled, waiting, busy, DMA_IRQ, irq, isr, missed>>

-----------------------------------------------------------------------------
(* The device and _AtaDmaInterrupt.                                        *)

\* The DMA transfer is done: the status bit and the interrupt.
DeviceDone ==
    /\ busy /\ busy' = FALSE
    /\ DMA_IRQ' = TRUE /\ irq' = TRUE
    /\ UNCHANGED <<DeviceLock, th, CurrentTransfer, Signaled, waiting, isr, halted, missed>>

\* The handler finds the bit, stops the bus master and finishes the transfer.
Interrupt(c) ==
    /\ irq /\ isr[c] = "out" /\ DMA_IRQ
    /\ irq' = FALSE
    /\ halted' = (halted \/ CurrentTransfer.State # "InProgress")
    /\ CurrentTransfer' = [CurrentTransfer EXCEPT !.State = "Finished"]
    /\ isr' = [isr EXCEPT ![c] = "signal"]
    /\ UNCHANGED <<DeviceLock, th, Signaled, waiting, busy, DMA_IRQ, missed>>

\* It does not find the bit and takes the interrupt for another device's: the
\* ASSERT_INFO in _IsrInterruptHandler, unless another device shares the line.
InterruptNotHandled(c) ==
    /\ irq /\ isr[c] = "out" /\ ~DMA_IRQ
    /\ irq' = FALSE
    /\ missed' = TRUE
    /\ UNCHANGED <<DeviceLock, th, transferVars, isr, halted>>

\* Mutant. The event is set but the waiting thread is left in the list.
SignalReadyWakesNobody(c) ==
    /\ isr[c] = "signal"
    /\ Signaled' = TRUE
    /\ isr' = [isr EXCEPT ![c] = "clear"]
    /\ UNCHANGED <<DeviceLock, th, waiting, CurrentTransfer, busy, DMA_IRQ, irq, halted, missed>>

\* ExEventSignal: set, and wake the thread in the list.
SignalReady(c) ==
    /\ isr[c] = "signal"
    /\ Signaled' = TRUE /\ waiting' = Nobody
    /\ th' = [t \in Threads |-> IF t = waiting THEN [th[t] EXCEPT !.pc = "try"] ELSE th[t]]
    /\ isr' = [isr EXCEPT ![c] = "clear"]
    /\ UNCHANGED <<DeviceLock, CurrentTransfer, busy, DMA_IRQ, irq, halted, missed>>

\* Only now the status bit is cleared.
ClearInterrupt(c) ==
    /\ isr[c] = "clear"
    /\ DMA_IRQ' = FALSE
    /\ isr' = [isr EXCEPT ![c] = "out"]
    /\ UNCHANGED <<DeviceLock, th, CurrentTransfer, Signaled, waiting, busy, irq, halted, missed>>

-----------------------------------------------------------------------------
ThreadStep(t) ==
    \/ Leave(t) \/ TransferFails(t) \/ SynchronousTransfer(t) \/ StartDma(t)
    \/ WaitTry(t) \/ WaitLink(t) \/ TransferReady(t)
Acquire(t) == CallFilesystem(t) \/ CallVolume(t) \/ CallDisk(t) \/ CallAta(t)
TakeInterrupt(c) == Interrupt(c) \/ InterruptNotHandled(c)
FinishInterrupt(c) == SignalReady(c) \/ ClearInterrupt(c)

StorageNext ==
    \/ \E t \in Threads : Acquire(t) \/ ThreadStep(t)
    \/ \E t \in Threads, r \in Requests : Request(t, r)
    \/ DeviceDone
    \/ \E c \in CPUs : TakeInterrupt(c) \/ FinishInterrupt(c)

\* Threads are scheduled, mutexes hand over to their waiters, the device
\* finishes what it was told to do and its interrupts are delivered.
Fairness ==
    /\ \A t \in Threads : WF_vars(ThreadStep(t)) /\ SF_vars(Acquire(t))
    /\ WF_vars(DeviceDone)
    /\ WF_vars(\E c \in CPUs : TakeInterrupt(c))
    /\ \A c \in CPUs : WF_vars(FinishInterrupt(c))

StorageSpec == StorageInit /\ [][StorageNext]_vars /\ Fairness

-----------------------------------------------------------------------------
(* Properties.                                                             *)

\* The asserts on CurrentTransfer in AtaDispatchReadWrite, AtaReadWriteSectors
\* and _AtaDmaInterrupt hold: one transfer at a time, finished by its own
\* interrupt, however late the handler is.  So does IoCompleteIrp's: no driver
\* of the stack completes an IRP that one below has completed.
TransferAsserts ==
    ~halted /\ \A t \in Threads : th[t].pc # "out" => th[t].completed <= 1

\* Every request comes back, unless TransferReady is signaled between the test
\* and the list of ExEventWaitForSignal, or a handler that clears DMA_IRQ after
\* it has signaled clears the bit of the next transfer: nothing else, and no
\* order of the DeviceLocks, can make a request wait forever.
RequestReturns(t) == th[t].pc # "out" ~> th[t].pc = "out" \/ missed
RequestsReturnUnlessMissed == \A t \in Threads : RequestReturns(t)
=============================================================================
