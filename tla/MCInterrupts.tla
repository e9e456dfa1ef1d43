---------------------------- MODULE MCInterrupts ----------------------------
(***************************************************************************)
(* What interrupts carry, for TLC: inter-processor events and the traffic  *)
(* of a network card; and how device interrupts find their routine.  They  *)
(* share no state, so a behaviour is one of one of them; object says       *)
(* which.  The two directions of the card meet in its handler only, and    *)
(* each has behaviours of its own: without frames to send, before the      *)
(* transmit thread first runs, and without frames or calls to receive.     *)
(* Nothing is claimed of received frames once two CPUs have competed for   *)
(* them, so a behaviour of that direction is not followed beyond that.     *)
(***************************************************************************)
EXTENDS Smp

CONSTANT Objects   \* of which of them a run follows the behaviours
CONSTANTS RxDescriptors, TxDescriptors, FrameSizes, BufferSizes, MaxArrivals, MaxSent, MaxChanges   \* of Network
CONSTANTS Drivers, Asked, VectorsPerIrql, Lines, InterruptOverrides, NoOfPrtEntries, NoVector   \* of IoInterrupts

VARIABLES object, call, LinkUp, RxEnabled, TxEnabled, rxList, rxSignaled, txList, txSignaled,
          DescriptorsAvailable, worker, rxRing, rxCurrent, txRing, txCurrent,
          rxHead, rxTail, txHead, txTail, rxOn, txOn, link, cause, rxTimer, txTimer, handler,
          arrived, taken, sent, wire, changes, missed, cardHalted, competed

VARIABLES InterruptBitmap, m_isrRoutines, RegisteredInterrupts, redirection, MaskInterrupts,
          NoOfInterruptOverrides, message, registering, result, asserted, ioIrr, remoteIrr, ioIsr,
          squeezed, astray, unhandled

\* The tick of the system timer, whose IRQ 0 is line 1, two disks on line 2,
\* and a network card that sends messages, at the level of the disks.
MCAsked ==
    LET R(type, irq, irql, kernel) ==
            [type |-> type, irq |-> irq, Irql |-> irql, Exclusive |-> kernel, kernel |-> kernel]
    IN  [d \in Drivers |-> CASE d = "tick" -> R("legacy", 0, 2, TRUE)
                             [] d \in {"disk 1", "disk 2"} -> R("pci", 2, 1, FALSE)
                             [] OTHER -> R("msi", 0, 1, FALSE)]
MCInterruptOverrides == <<[source |-> 0, destination |-> 1]>>

I == INSTANCE IoInterrupts WITH irr <- ioIrr, isr <- ioIsr

ioVars == <<InterruptBitmap, m_isrRoutines, RegisteredInterrupts, redirection, MaskInterrupts,
            NoOfInterruptOverrides, message, registering, result, asserted, ioIrr, remoteIrr, ioIsr,
            squeezed, astray, unhandled>>

N == INSTANCE Network WITH halted <- cardHalted

cardVars == <<call, LinkUp, RxEnabled, TxEnabled, rxList, rxSignaled, txList, txSignaled,
              DescriptorsAvailable, worker, rxRing, rxCurrent, txRing, txCurrent,
              rxHead, rxTail, txHead, txTail, rxOn, txOn, link, cause, rxTimer, txTimer, handler,
              arrived, taken, sent, wire, changes, missed, cardHalted, competed>>

ASSUME InterruptsAssumption ==
    Objects \subseteq {"smp", "receive", "transmit", "devices"} /\ N!NetworkAssumption /\ I!IoInterruptsAssumption

-----------------------------------------------------------------------------
InterruptsInit ==
    /\ object \in Objects
    /\ SmpInit /\ N!NetworkInit /\ I!IoInterruptsInit
    /\ object \in {"smp", "devices"} => link

\* A step of the card in one direction.
Receives == ~competed /\ sent' = sent /\ worker' = worker /\ call'.pc # "insert"
Transmits == arrived' = arrived /\ call'.pc # "look"

InterruptsNext ==
    /\ UNCHANGED object
    /\ \/ object = "smp" /\ Next /\ UNCHANGED <<cardVars, ioVars>>
       \/ object = "receive" /\ N!NetworkNext /\ Receives /\ UNCHANGED <<vars, ioVars>>
       \/ object = "transmit" /\ N!NetworkNext /\ Transmits /\ UNCHANGED <<vars, ioVars>>
       \/ object = "devices" /\ I!IoInterruptsNext /\ UNCHANGED <<vars, cardVars>>

\* The fairness of each module, for the object the behaviour is one of.
SmpRuns(A) == object = "smp" /\ ~halted /\ A
CardRuns(A) == object \in {"receive", "transmit"} /\ ~cardHalted /\ A

InterruptsFairness ==
    /\ WF_vars(SmpRuns(SmpWakeupAps)) /\ WF_vars(SmpRuns(ApsAreUp \/ ApsAreNotUp))
    /\ \A c \in CPUs : WF_vars(SmpRuns(Handler(c))) /\ WF_vars(SmpRuns(SmpNotifyCpuWakeup(c)))
    /\ \A t \in Threads : SF_vars(SmpRuns(SendSteps(t)))
    /\ WF_call(CardRuns(N!CallStep))
    /\ WF_<<worker, cardHalted>>(CardRuns(object = "transmit" /\ N!WorkerStep))
    /\ WF_<<handler, cause>>(CardRuns(\E c \in CPUs : N!EthGetInterruptReason(c)))
    /\ \A c \in CPUs : WF_<<handler, cardHalted>>(CardRuns(N!HandlerStep(c)))
    /\ WF_txHead(CardRuns(N!CardTransmits)) /\ WF_<<rxTimer, txTimer>>(CardRuns(N!CardReports))

InterruptsSpec ==
    /\ InterruptsInit
    /\ [][InterruptsNext]_<<object, vars, cardVars, ioVars>>
    /\ InterruptsFairness

-----------------------------------------------------------------------------
(* The properties of the card and of device interrupts.                    *)

\* eth_82574L_operations.c and the queues of the port driver: no frame is lost,
\* duplicated or overtaken, in either direction, unless two CPUs were in
\* EthReceiveFrame, which concerns received frames only.
FramesKeepTheirOrder == N!FramesKeepTheirOrder

\* _NetDispatchSendFrame: an accepted frame is transmitted, unless a wake-up was
\* missed, the ring has come round, or the card may not transmit.
AcceptedFramesAreTransmitted == N!AcceptedFramesAreTransmitted

\* _NetDispatchReceiveFrame: a call that waits while a frame is in returns to the
\* list, unless its wake-up was missed or two CPUs were in EthReceiveFrame.
WaitingReceiverIsWoken == N!WaitingReceiverIsWoken

\* IomuRegisterInterrupt and _IsrInterruptHandler: a driver whose registration
\* succeeded is called when its device interrupts, and each interrupt is claimed,
\* unless a driver had to share a vector or got a line from behind the table of
\* overrides.
InterruptsReachTheirRoutine == I!InterruptsReachTheirRoutine
=============================================================================
