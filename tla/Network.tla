------------------------------ MODULE Network -------------------------------
(***************************************************************************)
(* One network card of HAL9000: the calls of network_interface.c, the port *)
(* driver (network_dispatch.c, network_miniport.c) with its two queues and *)
(* its transmit thread, the miniport (eth_82574L_operations.c) with its    *)
(* interrupt handler, and the card as the miniport uses it.                *)
(*                                                                         *)
(* IoCallDriver holds the DeviceLock mutex of the card for the whole call, *)
(* so at most one thread is in a call at any time, even while it waits.    *)
(* One step is one critical section of FramesLock or TxInterruptLock, one  *)
(* access to a register of the card or to Signaled of an event, or one     *)
(* step of the card.  Frames are numbered in the order in which they enter *)
(* the card or the transmit queue.                                         *)
(*                                                                         *)
(* The card's messages go to the CPU of the lowest priority and no lock    *)
(* covers EthHandleInterrupt, so each CPU may be in it for a message of    *)
(* its own; a CPU is not interrupted by a second one at the same level.    *)
(***************************************************************************)
EXTENDS Integers, Sequences

CONSTANTS CPUs,
          RxDescriptors, TxDescriptors,   \* ETH_NO_OF_RX_DESCS, ETH_NO_OF_TX_DESCS
          FrameSizes, BufferSizes,        \* of received frames and of callers' buffers
          MaxArrivals, MaxSent,           \* bounds on the traffic
          MaxChanges                      \* bound on changes of the link or the status

NetworkAssumption ==
    /\ {RxDescriptors, TxDescriptors} \subseteq Nat \ {0, 1}
    /\ FrameSizes \union BufferSizes \subseteq Nat \ {0}
    /\ {MaxArrivals, MaxSent, MaxChanges} \subseteq Nat

VARIABLES
    call,                            \* the call that holds DeviceLock
    LinkUp, RxEnabled, TxEnabled,    \* of the MINIPORT_DEVICE
    rxList, rxSignaled,              \* FramesList and its event, of RxData
    txList, txSignaled,              \* the same of TxData
    DescriptorsAvailable,            \* Signaled of that event
    worker,                          \* the thread in NetPortTransmitFunction
    rxRing, rxCurrent,               \* receive descriptors; CurrentDescriptor
    txRing, txCurrent,               \* transmit descriptors; CurrentTxIndex
    rxHead, rxTail, txHead, txTail,  \* registers of the card
    rxOn, txOn, link,                \* the enable bits and the state of the link
    cause, rxTimer, txTimer,         \* the causes to report, the interrupt delays
    handler,                         \* per CPU: the interrupt handler
    arrived, taken, sent, wire,      \* history: frames in, read, accepted, out
    changes, missed, halted,         \* bound; a wake-up was missed; an ASSERT failed
    competed                         \* history: two CPUs were in EthReceiveFrame

callVars == <<call, taken, sent>>
portVars == <<LinkUp, RxEnabled, TxEnabled>>
rxQueue == <<rxList, rxSignaled>>
txQueue == <<txList, txSignaled>>
rxCard == <<rxRing, rxHead, rxTail, rxOn, rxTimer, arrived>>
txCard == <<txRing, txHead, txTail, txOn, txTimer, wire>>
cardVars == <<rxCard, txCard, link, cause, changes>>
workerVars == <<worker, txCurrent, DescriptorsAvailable>>
handlerVars == <<handler, rxCurrent, competed>>
networkVars == <<callVars, portVars, rxQueue, txQueue, cardVars, workerVars, handlerVars, missed, halted>>

Idle == [pc |-> "idle", size |-> 0]
Empty == [done |-> FALSE, frame |-> [id |-> 0, size |-> 0]]
Out == [pc |-> "out", causes |-> {}, cur |-> 0, up |-> FALSE]
RxNext(i) == (i + 1) % RxDescriptors
TxNext(i) == (i + 1) % TxDescriptors

\* _EthInitializeBuffers, _EthRxInit, _EthTxInit and _NetworkPortDeviceInitTx:
\* the last receive descriptor is held back, transmit descriptors are done.
NetworkInit ==
    /\ call = Idle /\ taken = 0 /\ sent = 0
    /\ link \in BOOLEAN /\ LinkUp = link /\ RxEnabled = TRUE /\ TxEnabled = TRUE
    /\ rxList = <<>> /\ rxSignaled = FALSE
    /\ txList = <<>> /\ txSignaled = FALSE /\ DescriptorsAvailable = TRUE
    /\ worker = [pc |-> "test", frame |-> 0]
    /\ rxRing = [i \in 0 .. RxDescriptors - 1 |-> Empty]
    /\ txRing = [i \in 0 .. TxDescriptors - 1 |-> [done |-> TRUE, frame |-> 0]]
    /\ rxCurrent = 0 /\ txCurrent = 0
    /\ rxHead = 0 /\ rxTail = RxDescriptors - 1 /\ txHead = 0 /\ txTail = 0
    /\ rxOn = TRUE /\ txOn = TRUE /\ cause = {} /\ rxTimer = FALSE /\ txTimer = FALSE
    /\ handler = [c \in CPUs |-> Out] /\ competed = FALSE
    /\ arrived = 0 /\ wire = <<>> /\ changes = 0 /\ missed = FALSE /\ halted = FALSE

-----------------------------------------------------------------------------
(* Calls.  A call that is refused (no such device, no memory, a frame      *)
(* larger than the card's buffers) and the queries change nothing.         *)

Call(pc) == call' = [call EXCEPT !.pc = pc]
Return == call' = Idle

\* NetReceiveFrame with a buffer of that size, into _NetDispatchReceiveFrame.
NetReceiveFrame(size) ==
    /\ call = Idle
    /\ call' = [pc |-> "look", size |-> size]
    /\ UNCHANGED <<taken, sent, portVars, rxQueue, txQueue, cardVars, workerVars, handlerVars, missed, halted>>

\* The event is cleared, under FramesLock, when the list is found empty.
ClearRxSignal ==
    rxSignaled' = (rxSignaled /\ rxList # <<>>)

\* The head of the list is taken if it fits; STATUS_BUFFER_TOO_SMALL leaves it.
ReceiveLook ==
    /\ call.pc = "look"
    /\ ClearRxSignal
    /\ \/ rxList = <<>> /\ Call("status") /\ UNCHANGED <<rxList, taken>>
       \/ /\ rxList # <<>> /\ Head(rxList).size > call.size
          /\ Return /\ UNCHANGED <<rxList, taken>>
       \/ /\ rxList # <<>> /\ Head(rxList).size <= call.size
          /\ rxList' = Tail(rxList) /\ taken' = taken + 1
          /\ Return
    /\ UNCHANGED <<sent, portVars, txQueue, cardVars, workerVars, handlerVars, missed, halted>>

\* An empty list: STATUS_DEVICE_NOT_CONNECTED or STATUS_DEVICE_DISABLED, or wait.
ReceiveCheckStatus ==
    /\ call.pc = "status"
    /\ IF LinkUp /\ RxEnabled THEN Call("test") ELSE Return
    /\ UNCHANGED <<taken, sent, portVars, rxQueue, txQueue, cardVars, workerVars, handlerVars, missed, halted>>

\* ExEventWaitForSignal: the compare-exchange on Signaled ...
ReceiveTest ==
    /\ call.pc = "test"
    /\ Call(IF rxSignaled THEN "look" ELSE "link")
    /\ UNCHANGED <<taken, sent, portVars, rxQueue, txQueue, cardVars, workerVars, handlerVars, missed, halted>>

\* ... and, without a second look at it, the waiting list and ThreadBlock.
ReceiveBlock ==
    /\ call.pc = "link"
    /\ Call("blocked") /\ missed' = (missed \/ rxSignaled)
    /\ UNCHANGED <<taken, sent, portVars, rxQueue, txQueue, cardVars, workerVars, handlerVars, halted>>

\* ExEventSignal of the receive event wakes the call that waits for it.
SignalRx ==
    /\ rxSignaled' = TRUE
    /\ call' = IF call.pc = "blocked" THEN [call EXCEPT !.pc = "look"] ELSE call

\* NetSendFrame into _NetDispatchSendFrame, which tests the link and the status.
NetSendFrame ==
    /\ call = Idle /\ sent < MaxSent
    /\ LinkUp /\ TxEnabled
    /\ Call("insert")
    /\ UNCHANGED <<taken, sent, portVars, rxQueue, txQueue, cardVars, workerVars, handlerVars, missed, halted>>

SendInsertThenTest ==
    /\ call.pc = "insert"
    /\ txList' = Append(txList, sent + 1) /\ sent' = sent + 1
    /\ IF txList' = <<>> THEN Call("signal") ELSE Return
    /\ UNCHANGED <<taken, txSignaled, portVars, rxQueue, cardVars, workerVars, handlerVars, missed, halted>>

\* The frame joins the list under FramesLock ...
SendInsert ==
    /\ call.pc = "insert"
    /\ txList' = Append(txList, sent + 1) /\ sent' = sent + 1
    /\ IF txList = <<>> THEN Call("signal") ELSE Return
    /\ UNCHANGED <<taken, txSignaled, portVars, rxQueue, cardVars, workerVars, handlerVars, missed, halted>>

Wake(w, from, to) == IF w.pc = from THEN [w EXCEPT !.pc = to] ELSE w

\* ... and if it is the first one the event is signaled after the lock is gone.
SendSignal ==
    /\ call.pc = "signal"
    /\ txSignaled' = TRUE /\ worker' = Wake(worker, "blocked", "take")
    /\ Return
    /\ UNCHANGED <<taken, sent, txList, portVars, rxQueue, cardVars, txCurrent, DescriptorsAvailable, handlerVars, missed, halted>>

\* NetChangeDeviceStatus into EthChangeDeviceStatus, which gives the transmit
\* control register the new status of the receiver.
NetChangeDeviceStatus(rx, tx) ==
    /\ call = Idle /\ changes < MaxChanges /\ changes' = changes + 1
    /\ rxOn' = IF rx # RxEnabled THEN rx ELSE rxOn
    /\ txOn' = IF tx # TxEnabled THEN rx ELSE txOn
    /\ RxEnabled' = rx /\ TxEnabled' = tx
    /\ UNCHANGED <<callVars, LinkUp, rxQueue, txQueue, workerVars, handlerVars, missed, halted,
                   rxRing, rxHead, rxTail, rxTimer, arrived, txRing, txHead, txTail, txTimer, wire, link, cause>>

-----------------------------------------------------------------------------
(* NetPortTransmitFunction: the transmit thread.                           *)

Work(pc) == worker' = [worker EXCEPT !.pc = pc]
besidesWorker == <<callVars, portVars, rxQueue, cardVars, handlerVars, halted>>

\* ExEventWaitForSignal on FramesListNotEmptyEvent, as in a receive call.
WaitForFrames ==
    /\ \/ worker.pc = "test" /\ Work(IF txSignaled THEN "take" ELSE "link") /\ UNCHANGED missed
       \/ worker.pc = "link" /\ Work("blocked") /\ missed' = (missed \/ txSignaled)
    /\ UNCHANGED <<besidesWorker, txQueue, txCurrent, DescriptorsAvailable>>

\* The head of the list is taken, or the event of the empty list cleared.
TakeFrame ==
    /\ worker.pc = "take"
    /\ \/ /\ txList = <<>>
          /\ txSignaled' = FALSE /\ Work("test") /\ UNCHANGED txList
       \/ /\ txList # <<>>
          /\ txList' = Tail(txList) /\ worker' = [pc |-> "avail", frame |-> Head(txList)]
          /\ UNCHANGED txSignaled
    /\ UNCHANGED <<besidesWorker, txCurrent, DescriptorsAvailable, missed>>

\* ExEventWaitForSignal on DescriptorsAvailable.
WaitForDescriptor ==
    /\ \/ worker.pc = "avail" /\ Work(IF DescriptorsAvailable THEN "fill" ELSE "avail link") /\ UNCHANGED missed
       \/ worker.pc = "avail link" /\ Work("avail blocked") /\ missed' = (missed \/ DescriptorsAvailable)
    /\ UNCHANGED <<besidesWorker, txQueue, txCurrent, DescriptorsAvailable>>

\* The copy into the buffer and EthSendFrame up to the check for a full queue.
\* The descriptor must be done, which an ASSERT says.
EthSendFrame ==
    /\ worker.pc = "fill"
    /\ txRing' = [txRing EXCEPT ![txCurrent] = [done |-> FALSE, frame |-> worker.frame]]
    /\ IF txRing[txCurrent].done
       THEN txCurrent' = TxNext(txCurrent) /\ Work("full") /\ UNCHANGED halted
       ELSE halted' = TRUE /\ UNCHANGED <<txCurrent, worker>>
    /\ UNCHANGED <<callVars, portVars, rxQueue, txQueue, rxCard, txHead, txTail, txOn, txTimer, wire, link, cause, changes,
                   DescriptorsAvailable, handlerVars, missed>>

QueueIsFull == TxNext(txCurrent) = txHead

\* _EthSignalTxQueueFullIfNecessary: a look without the lock, and one with it.
SignalTxQueueFull ==
    /\ \/ /\ worker.pc = "full" /\ Work(IF QueueIsFull THEN "clear" ELSE "tail")
          /\ UNCHANGED DescriptorsAvailable
       \/ /\ worker.pc = "clear" /\ Work("tail")
          /\ DescriptorsAvailable' = (DescriptorsAvailable /\ ~QueueIsFull)
    /\ UNCHANGED <<besidesWorker, txQueue, txCurrent, missed>>

\* EthSetTxTail hands the descriptor to the card.
EthSetTxTail ==
    /\ worker.pc = "tail"
    /\ txTail' = txCurrent /\ worker' = [pc |-> "test", frame |-> 0]
    /\ UNCHANGED <<callVars, portVars, rxQueue, txQueue, rxCard, txRing, txHead, txOn, txTimer, wire, link, cause, changes,
                   txCurrent, DescriptorsAvailable, handlerVars, missed, halted>>

-----------------------------------------------------------------------------
(* EthHandleInterrupt on CPU c: one branch after the other for the causes  *)
(* that it read.  cur is the local index of EthReceiveFrame, up the link   *)
(* status read for the port driver.                                        *)

Handle(c, pc) == handler' = [handler EXCEPT ![c].pc = pc]

Branch(causes) ==
    IF "rx" \in causes THEN "rx" ELSE IF "tx" \in causes THEN "tx" ELSE IF "link" \in causes THEN "link" ELSE "out"

\* The branch of a cause is done.
Solved(c, x) ==
    LET rest == handler[c].causes \ {x}
    IN  handler' = [handler EXCEPT ![c] = [Out EXCEPT !.pc = Branch(rest), !.causes = rest]]

\* Reading the interrupt cause register clears it.  No branch is for an overrun:
\* with no other cause the interrupt is unsolved, and _IsrInterruptHandler asserts.
EthGetInterruptReason(c) ==
    /\ handler[c].pc = "out" /\ cause # {}
    /\ LET known == cause \ {"overrun"}
       IN  /\ handler' = [handler EXCEPT ![c] = [Out EXCEPT !.pc = Branch(known), !.causes = known]]
           /\ halted' = (known = {})
    /\ cause' = {}
    /\ UNCHANGED <<callVars, portVars, rxQueue, txQueue, rxCard, txCard, link, changes, workerVars, rxCurrent, competed, missed>>

InReceive(c) == handler[c].pc \in {"loop", "signal", "next", "store"}

\* EthReceiveFrame goes on where CurrentDescriptor says ...
EthReceiveFrame(c) ==
    /\ handler[c].pc = "rx"
    /\ handler' = [handler EXCEPT ![c].pc = "loop", ![c].cur = rxCurrent]
    /\ competed' = (competed \/ \E d \in CPUs \ {c} : InReceive(d))
    /\ UNCHANGED <<callVars, portVars, rxQueue, txQueue, cardVars, workerVars, rxCurrent, missed, halted>>

\* ... looks at its descriptor, from which NetworkPortNotifyReceiveBuffer copies
\* the frame into the list.  Without memory for it an ASSERT fails.
NotifyReceiveBuffer(c, memory) ==
    /\ handler[c].pc = "loop"
    /\ LET d == rxRing[handler[c].cur]
       IN  \/ ~d.done /\ Handle(c, "store") /\ UNCHANGED <<rxList, halted>>
           \/ d.done /\ ~memory /\ halted' = TRUE /\ UNCHANGED <<rxList, handler>>
           \/ /\ d.done /\ memory
              /\ rxList' = Append(rxList, d.frame)
              /\ Handle(c, IF rxList = <<>> THEN "signal" ELSE "next")
              /\ UNCHANGED halted
    /\ UNCHANGED <<callVars, portVars, rxSignaled, txQueue, cardVars, workerVars, rxCurrent, competed, missed>>

\* The first frame of the list signals the event, after FramesLock is gone.
ReceiveSignal(c) ==
    /\ handler[c].pc = "signal"
    /\ SignalRx /\ Handle(c, "next")
    /\ UNCHANGED <<taken, sent, rxList, portVars, txQueue, cardVars, workerVars, rxCurrent, competed, missed, halted>>

besidesRing == <<callVars, portVars, rxQueue, txQueue, rxHead, rxOn, rxTimer, arrived, txCard, link, cause, changes,
                 workerVars, rxCurrent, competed, missed, halted>>

GiveBackStillDone(c) ==
    /\ handler[c].pc = "next"
    /\ rxTail' = handler[c].cur
    /\ handler' = [handler EXCEPT ![c].pc = "loop", ![c].cur = RxNext(@)]
    /\ UNCHANGED <<besidesRing, rxRing>>

GiveBackOnce(c) ==
    /\ handler[c].pc = "next"
    /\ rxRing' = [rxRing EXCEPT ![handler[c].cur] = Empty] /\ rxTail' = handler[c].cur
    /\ handler' = [handler EXCEPT ![c].pc = "store", ![c].cur = RxNext(@)]
    /\ UNCHANGED besidesRing

\* The descriptor goes back to the card, EthSetRxTail: its index becomes the tail.
GiveBack(c) ==
    /\ handler[c].pc = "next"
    /\ rxRing' = [rxRing EXCEPT ![handler[c].cur] = Empty] /\ rxTail' = handler[c].cur
    /\ handler' = [handler EXCEPT ![c].pc = "loop", ![c].cur = RxNext(@)]
    /\ UNCHANGED besidesRing

\* After the loop, and only then, CurrentDescriptor gets the local index.
StoreCurrentDescriptor(c) ==
    /\ handler[c].pc = "store"
    /\ rxCurrent' = handler[c].cur /\ Solved(c, "rx")
    /\ UNCHANGED <<callVars, portVars, rxQueue, txQueue, cardVars, workerVars, competed, missed, halted>>

\* TdWrittenBack: NetworkPortNotifyTxDescriptorAvailable under TxInterruptLock.
NotifyTxDescriptorAvailable(c) ==
    /\ handler[c].pc = "tx" /\ Solved(c, "tx")
    /\ DescriptorsAvailable' = TRUE /\ worker' = Wake(worker, "avail blocked", "fill")
    /\ UNCHANGED <<callVars, portVars, rxQueue, txQueue, cardVars, txCurrent, rxCurrent, competed, missed, halted>>

\* LinkStatusChange: EthGetDeviceStatusRegister ...
GetDeviceStatus(c) ==
    /\ handler[c].pc = "link"
    /\ handler' = [handler EXCEPT ![c].pc = "notify", ![c].up = link]
    /\ UNCHANGED <<callVars, portVars, rxQueue, txQueue, cardVars, workerVars, rxCurrent, competed, missed, halted>>

\* ... and NetworkPortNotifyLinkStatusChange.
NotifyLinkStatusChange(c) ==
    /\ handler[c].pc = "notify" /\ Solved(c, "link")
    /\ LinkUp' = handler[c].up
    /\ UNCHANGED <<callVars, RxEnabled, TxEnabled, rxQueue, txQueue, cardVars, workerVars, rxCurrent, competed, missed, halted>>

-----------------------------------------------------------------------------
(* The card: it owns the descriptors from a head up to its tail.  Both     *)
(* directions report with a delay.                                         *)

FrameArrives(size) ==
    /\ link /\ rxOn /\ rxHead # rxTail /\ arrived < MaxArrivals
    /\ rxRing' = [rxRing EXCEPT ![rxHead] = [done |-> TRUE, frame |-> [id |-> arrived + 1, size |-> size]]]
    /\ rxHead' = RxNext(rxHead) /\ arrived' = arrived + 1 /\ rxTimer' = TRUE
    /\ UNCHANGED <<callVars, portVars, rxQueue, txQueue, rxTail, rxOn, txCard, link, cause, changes, workerVars, handlerVars, missed, halted>>

\* A frame that finds no descriptor is dropped, and the overrun is a cause.
FrameOverruns ==
    /\ link /\ rxOn /\ rxHead = rxTail /\ arrived < MaxArrivals
    /\ cause' = cause \union {"overrun"}
    /\ UNCHANGED <<callVars, portVars, rxQueue, txQueue, rxCard, txCard, link, changes, workerVars, handlerVars, missed, halted>>

CardTransmits ==
    /\ link /\ txOn /\ txHead # txTail
    /\ wire' = Append(wire, txRing[txHead].frame)
    /\ txRing' = [txRing EXCEPT ![txHead].done = TRUE]
    /\ txHead' = TxNext(txHead) /\ txTimer' = TRUE
    /\ UNCHANGED <<callVars, portVars, rxQueue, txQueue, rxCard, txTail, txOn, link, cause, changes, workerVars, handlerVars, missed, halted>>

CardReports ==
    /\ \/ rxTimer /\ rxTimer' = FALSE /\ cause' = cause \union {"rx"} /\ UNCHANGED txTimer
       \/ txTimer /\ txTimer' = FALSE /\ cause' = cause \union {"tx"} /\ UNCHANGED rxTimer
    /\ UNCHANGED <<callVars, portVars, rxQueue, txQueue, rxRing, rxHead, rxTail, rxOn, arrived,
                   txRing, txHead, txTail, txOn, wire, link, changes, workerVars, handlerVars, missed, halted>>

LinkChanges ==
    /\ changes < MaxChanges /\ changes' = changes + 1
    /\ link' = ~link /\ cause' = cause \union {"link"}
    /\ UNCHANGED <<callVars, portVars, rxQueue, txQueue, rxCard, txCard, workerVars, handlerVars, missed, halted>>

-----------------------------------------------------------------------------
CallStep ==
    ReceiveLook \/ ReceiveCheckStatus \/ ReceiveTest \/ ReceiveBlock \/ SendInsert \/ SendSignal
WorkerStep ==
    \/ WaitForFrames \/ TakeFrame \/ WaitForDescriptor \/ EthSendFrame
    \/ SignalTxQueueFull \/ EthSetTxTail
HandlerStep(c) ==
    \/ EthReceiveFrame(c) \/ \E memory \in BOOLEAN : NotifyReceiveBuffer(c, memory)
    \/ ReceiveSignal(c) \/ GiveBack(c) \/ StoreCurrentDescriptor(c)
    \/ NotifyTxDescriptorAvailable(c) \/ GetDeviceStatus(c) \/ NotifyLinkStatusChange(c)

NetworkNext ==
    /\ ~halted
    /\ \/ \E size \in BufferSizes : NetReceiveFrame(size)
       \/ \E size \in FrameSizes : FrameArrives(size)
       \/ NetSendFrame
       \/ \E rx, tx \in BOOLEAN : NetChangeDeviceStatus(rx, tx)
       \/ CallStep \/ WorkerStep
       \/ \E c \in CPUs : EthGetInterruptReason(c) \/ HandlerStep(c)
       \/ FrameOverruns \/ CardTransmits \/ CardReports \/ LinkChanges

\* Threads are scheduled, a message reaches some CPU, a handler runs to its end,
\* the card transmits and reports.  Nobody has to call, and no frame has to arrive.
NetworkFairness ==
    /\ WF_networkVars(~halted /\ CallStep) /\ WF_networkVars(~halted /\ WorkerStep)
    /\ WF_networkVars(~halted /\ \E c \in CPUs : EthGetInterruptReason(c))
    /\ \A c \in CPUs : WF_networkVars(~halted /\ HandlerStep(c))
    /\ WF_networkVars(~halted /\ CardTransmits) /\ WF_networkVars(~halted /\ CardReports)

NetworkSpec == NetworkInit /\ [][NetworkNext]_networkVars /\ NetworkFairness

-----------------------------------------------------------------------------
(* Properties.                                                             *)

\* The descriptor that is k places after a given one in the order of the ring.
RxAt(i, k) == rxRing[(i + k) % RxDescriptors]
TxAt(i, k) == txRing[(i + k) % TxDescriptors]

\* Where frames are read from: the index of a handler in EthReceiveFrame, if any.
Receivers == {c \in CPUs : InReceive(c)}
ReadIndex == IF Receivers = {} THEN rxCurrent ELSE handler[CHOOSE c \in Receivers : TRUE].cur

\* A handler has copied its receive descriptor and not given it back; the transmit
\* thread has a frame in its hands.
Copied == IF \E c \in CPUs : handler[c].pc \in {"signal", "next"} THEN 1 ELSE 0
Held == IF worker.pc \in {"avail", "avail link", "avail blocked", "fill"} THEN 1 ELSE 0

\* How many frames must be in each ring, given what is everywhere else.
InRxRing == arrived - taken - Len(rxList)
InTxRing == sent - Len(wire) - Held - Len(txList)

\* Received frames that no call has read are in the list, and behind it in the
\* descriptors that the handler has not copied, which are done without a gap.
ReceivedInOrder ==
    /\ InRxRing \in 0 .. RxDescriptors - Copied
    /\ \A k \in 1 .. Len(rxList) : rxList[k].id = taken + k
    /\ \A k \in 0 .. RxDescriptors - Copied - 1 :
          LET d == RxAt(ReadIndex, Copied + k)
          IN  /\ d.done <=> k < InRxRing
              /\ d.done => d.frame.id = taken + Len(rxList) + k + 1

\* Accepted frames are on the wire, then in the descriptors from the card's head
\* on that are not done, then with the transmit thread, then in the list.
SentInOrder ==
    /\ InTxRing \in 0 .. TxDescriptors
    /\ \A k \in 1 .. Len(wire) : wire[k] = k
    /\ \A k \in 0 .. TxDescriptors - 1 :
          LET d == TxAt(txHead, k)
          IN  /\ ~d.done <=> k < InTxRing
              /\ ~d.done => d.frame = Len(wire) + k + 1
    /\ Held = 1 => worker.frame = sent - Len(txList)
    /\ \A k \in 1 .. Len(txList) : txList[k] = sent - Len(txList) + k

\* EthReceiveFrame, NetPortTransmitFunction and the queues of the port driver:
\* in both directions no frame is lost, duplicated or overtaken, whatever the
\* rings, the handlers and the threads are at, unless two CPUs were in
\* EthReceiveFrame, which concerns received frames only.
FramesKeepTheirOrder == ~halted => SentInOrder /\ (~competed => ReceivedInOrder)

\* What EthReceiveFrame, annotated _No_competing_thread_, counts on; it is so up to
\* the step that sets competed.
NoCompetingThread == \A c, d \in CPUs : InReceive(c) /\ InReceive(d) => c = d

\* A tail that has come round to the head: to the card the full ring is empty.
RingLooksEmpty ==
    /\ txHead = txTail /\ worker.pc \notin {"full", "clear", "tail"}
    /\ \E i \in DOMAIN txRing : ~txRing[i].done

\* _NetDispatchSendFrame: a frame that was accepted is transmitted, unless a
\* wake-up was missed, the ring has come round, or the card may not transmit.
AcceptedFramesAreTransmitted ==
    []<>(Len(wire) = sent \/ missed \/ halted \/ RingLooksEmpty \/ ~link \/ ~txOn)

\* _NetDispatchReceiveFrame: a call that waits while a frame is in returns to
\* the list, unless its wake-up was missed or two CPUs were in EthReceiveFrame.
WaitingReceiverIsWoken ==
    []<>(call.pc # "blocked" \/ arrived = taken \/ missed \/ competed \/ halted)
=============================================================================
