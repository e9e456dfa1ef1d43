-------------------------------- MODULE Smp ---------------------------------
(***************************************************************************)
(* Inter-processor communication of HAL9000: the wake-up of the            *)
(* application processors, SmpSendGenericIpiEx and _SmpIpcIpiIsr of smp.c, *)
(* the reference counted events of ipc.c with the spinning EVENT and       *)
(* REF_COUNT of CommonLib, and the interrupt path of isr.c.                *)
(*                                                                         *)
(* Senders are threads: they run with interrupts on, several may share a   *)
(* CPU, and the scheduler may move one to another CPU between any two      *)
(* steps.  A CPU in its interrupt handler runs no thread.  One step is one *)
(* critical section of an EventListLock or one interlocked instruction.    *)
(* The local APIC keeps one request bit per CPU for the IPC vector, so a   *)
(* request that finds the bit set is merged with it.                       *)
(***************************************************************************)
EXTENDS Integers, FiniteSets, SequencesExt

CONSTANTS CPUs, BSP,
          Threads,           \* threads that call SmpSendGenericIpiEx
          MaxSends           \* bound on the calls that generate an event

ASSUME SmpAssumption ==
    /\ IsFiniteSet(CPUs) /\ BSP \in CPUs /\ IsFiniteSet(Threads)
    /\ MaxSends \in Nat

Events == 1 .. MaxSends
NoEvent == 0

VARIABLES boot,              \* the BSP: "init", "wait" for the APs, "link", "blocked", or "up"
          NoOfActiveCpus, ApStartupEvent,
          starting,          \* APs that got their SIPI and have not reported
          event,             \* the IPC_EVENTs
          sends,             \* how often IpcGenerateEvent was called
          EventList,         \* per CPU; NoOfEventsInList is its length
          irr,               \* per CPU: the APIC's request bit of the vector
          isr,               \* per CPU: where its handler is, with which event
          failed,            \* CPUs in whose handler the function failed
          cpu,               \* per thread: the CPU it runs on
          th,                \* per thread: where it is in its call
          merged,            \* history: a request found the bit set
          moved,             \* history: a sender moved between the list and the IPI
          halted             \* an ASSERT failed

bootVars == <<boot, NoOfActiveCpus, ApStartupEvent, starting>>
vars == <<bootVars, event, sends, EventList, irr, isr, failed, cpu, th, merged, moved, halted>>

NotAllocated == [state |-> "none", ref |-> 0, SignalTermination |-> FALSE,
                 signaled |-> FALSE, targets |-> {}, handled |-> {}]
Freed == [NotAllocated EXCEPT !.state = "freed"]
Out == [pc |-> "out", mode |-> "self", dest |-> {}, wait |-> FALSE, event |-> NoEvent, todo |-> <<>>]
NoInterrupt == [pc |-> "none", event |-> NoEvent]

Modes == {"SendToCpu", "SendToSelf", "SendToAllIncludingSelf", "SendToAllExcludingSelf", "SendToGroup"}

SmpInit ==
    /\ boot = "init" /\ NoOfActiveCpus = 1 /\ ApStartupEvent = FALSE /\ starting = {}
    /\ event = [e \in Events |-> NotAllocated] /\ sends = 0
    /\ EventList = [c \in CPUs |-> <<>>]
    /\ irr = [c \in CPUs |-> FALSE] /\ isr = [c \in CPUs |-> NoInterrupt] /\ failed = {}
    /\ cpu = [t \in Threads |-> BSP] /\ th = [t \in Threads |-> Out]
    /\ merged = FALSE /\ moved = FALSE /\ halted = FALSE

-----------------------------------------------------------------------------
(* Waking the application processors.                                      *)

\* SmpWakeupAps: INIT and SIPI to the others, then wait for ApStartupEvent.
SmpWakeupAps ==
    /\ boot = "init"
    /\ IF Cardinality(CPUs) > 1 THEN boot' = "wait" /\ starting' = CPUs \ {BSP}
                                ELSE boot' = "up" /\ UNCHANGED starting
    /\ UNCHANGED <<NoOfActiveCpus, ApStartupEvent, event, sends, EventList, irr, isr, failed, cpu, th, merged, moved, halted>>

\* SmpNotifyCpuWakeup on an AP: the interlocked increment that reaches the
\* number of CPUs signals the event, which wakes the BSP if it is blocked.
SmpNotifyCpuWakeup(c) ==
    /\ c \in starting
    /\ starting' = starting \ {c}
    /\ NoOfActiveCpus' = NoOfActiveCpus + 1
    /\ IF NoOfActiveCpus' = Cardinality(CPUs)
       THEN ApStartupEvent' = TRUE /\ boot' = (IF boot = "blocked" THEN "wait" ELSE boot)
       ELSE UNCHANGED <<ApStartupEvent, boot>>
    /\ UNCHANGED <<event, sends, EventList, irr, isr, failed, cpu, th, merged, moved, halted>>

\* ExEventWaitForSignal of the BSP: the compare-exchange on Signaled lets it
\* return; threads run on every CPU.
ApsAreUp ==
    /\ boot = "wait" /\ ApStartupEvent
    /\ boot' = "up" /\ ApStartupEvent' = FALSE
    /\ cpu' \in [Threads -> CPUs]
    /\ UNCHANGED <<NoOfActiveCpus, starting, event, sends, EventList, irr, isr, failed, th, merged, moved, halted>>

\* Or it fails, and without a second look the BSP goes on to the waiting list and
\* to ThreadBlock: the only signal, if it comes in between, is missed for ever.
ApsAreNotUp ==
    /\ \/ boot = "wait" /\ ~ApStartupEvent /\ boot' = "link"
       \/ boot = "link" /\ boot' = "blocked"
    /\ UNCHANGED <<NoOfActiveCpus, ApStartupEvent, starting, event, sends, EventList, irr, isr, failed, cpu, th,
                   merged, moved, halted>>

-----------------------------------------------------------------------------
(* SmpSendGenericIpiEx.                                                    *)

\* A thread runs only while its CPU is not in the interrupt handler.
Runs(t) == boot = "up" /\ isr[cpu[t]].pc = "none"

\* The scheduler moves a thread to another CPU before it has sent its IPI; for
\* SendToSelf and SendToAllExcludingSelf that changes who gets it.  Where the
\* thread waits afterwards makes no difference, so later moves are left out.
Migrate(t) ==
    /\ Runs(t) /\ th[t].pc = "insert"
    /\ cpu' \in {[cpu EXCEPT ![t] = c] : c \in CPUs \ {cpu[t]}}
    /\ moved' = (moved \/ th[t].mode \in {"SendToSelf", "SendToAllExcludingSelf"})
    /\ UNCHANGED <<bootVars, event, sends, EventList, irr, isr, failed, th, merged, halted>>

\* _SmpDoesCpuMatchDestination, for the CPU that executes it.
DoesCpuMatchDestination(mode, dest, me) ==
    CASE mode = "SendToSelf" -> {me}
      [] mode = "SendToAllIncludingSelf" -> CPUs
      [] mode = "SendToAllExcludingSelf" -> CPUs \ {me}
      [] mode \in {"SendToCpu", "SendToGroup"} -> dest

\* Mutant. The waiter has no reference of its own.
IpcGenerateEventShort(targets, wait) ==
    [state |-> "alive", SignalTermination |-> wait, signaled |-> FALSE,
     ref |-> Cardinality(targets), targets |-> targets, handled |-> {}]

\* IpcGenerateEvent: a reference for every CPU, one more for a waiter.
IpcGenerateEvent(targets, wait) ==
    [state |-> "alive", SignalTermination |-> wait, signaled |-> FALSE,
     ref |-> 1 + (IF wait THEN Cardinality(targets) ELSE Cardinality(targets) - 1),
     targets |-> targets, handled |-> {}]

\* SmpSendGenericIpiEx up to the lists: _SmpRetrieveMatchingCpus finds the
\* destinations, IpcGenerateEvent allocates the event, or fails and the call
\* with it.  Without a destination the call fails.
SendIpi(t, mode, dest, wait) ==
    LET e == sends + 1
        targets == DoesCpuMatchDestination(mode, dest, cpu[t])
    IN  /\ Runs(t) /\ th[t].pc = "out" /\ sends < MaxSends /\ targets # {}
        /\ sends' = e
        /\ \/ /\ event' = [event EXCEPT ![e] = IpcGenerateEvent(targets, wait)]
              /\ th' = [th EXCEPT ![t] = [pc |-> "insert", mode |-> mode, dest |-> dest, wait |-> wait,
                                          event |-> e, todo |-> SetToSeq(targets)]]
           \/ UNCHANGED <<event, th>>
        /\ UNCHANGED <<bootVars, EventList, irr, isr, failed, cpu, merged, moved, halted>>

\* Insert into the list of the next CPU, under its EventListLock.
Insert(t) ==
    LET c == Head(th[t].todo)
    IN  /\ Runs(t) /\ th[t].pc = "insert" /\ th[t].todo # <<>>
        /\ EventList' = [EventList EXCEPT ![c] = Append(@, th[t].event)]
        /\ th' = [th EXCEPT ![t].todo = Tail(@)]
        /\ UNCHANGED <<bootVars, event, sends, irr, isr, failed, cpu, merged, moved, halted>>

\* Mutant. A broadcast interrupts the sender's CPU too.
SmpSendIpcIpiToSelf(t) ==
    LET to == DoesCpuMatchDestination(th[t].mode, th[t].dest, cpu[t]) \union {cpu[t]}
    IN  /\ Runs(t) /\ th[t].pc = "insert" /\ th[t].todo = <<>>
        /\ irr' = [c \in CPUs |-> irr[c] \/ c \in to]
        /\ merged' = (merged \/ \E c \in to : irr[c])
        /\ th' = [th EXCEPT ![t] = IF th[t].wait THEN [Out EXCEPT !.pc = "wait", !.event = th[t].event] ELSE Out]
        /\ UNCHANGED <<bootVars, event, sends, EventList, isr, failed, cpu, moved, halted>>

\* _SmpSendIpcIpi: the APIC of the CPU that the thread is on by now picks the
\* destinations.  Without WaitForHandling the call returns.
SmpSendIpcIpi(t) ==
    LET to == DoesCpuMatchDestination(th[t].mode, th[t].dest, cpu[t])
    IN  /\ Runs(t) /\ th[t].pc = "insert" /\ th[t].todo = <<>>
        /\ irr' = [c \in CPUs |-> irr[c] \/ c \in to]
        /\ merged' = (merged \/ \E c \in to : irr[c])
        /\ th' = [th EXCEPT ![t] = IF th[t].wait THEN [Out EXCEPT !.pc = "wait", !.event = th[t].event] ELSE Out]
        /\ UNCHANGED <<bootVars, event, sends, EventList, isr, failed, cpu, moved, halted>>

\* RfcDereference: the last reference frees the event.
Dereferenced(ev) == IF ev.ref = 1 THEN Freed ELSE [ev EXCEPT !.ref = @ - 1]

\* EvtWaitForSignal: the compare-exchange that finds the event signaled.
EvtWaitForSignal(t) ==
    /\ Runs(t) /\ th[t].pc = "wait" /\ event[th[t].event].signaled
    /\ event' = [event EXCEPT ![th[t].event].signaled = FALSE]
    /\ th' = [th EXCEPT ![t].pc = "dereference"]
    /\ UNCHANGED <<bootVars, sends, EventList, irr, isr, failed, cpu, merged, moved, halted>>

\* IpcWaitForEventHandling drops the waiter's reference and returns.
WaiterDereference(t) ==
    /\ Runs(t) /\ th[t].pc = "dereference"
    /\ event' = [event EXCEPT ![th[t].event] = Dereferenced(@)]
    /\ th' = [th EXCEPT ![t] = Out]
    /\ UNCHANGED <<bootVars, sends, EventList, irr, isr, failed, cpu, merged, moved, halted>>

-----------------------------------------------------------------------------
(* The interrupt: isr.c, _SmpIpcIpiIsr and IpcProcessEvent.                *)

\* The CPU accepts the request, interrupts are off until the handler ends.
Interrupt(c) ==
    /\ irr[c] /\ isr[c].pc = "none"
    /\ irr' = [irr EXCEPT ![c] = FALSE]
    /\ isr' = [isr EXCEPT ![c].pc = "take"]
    /\ UNCHANGED <<bootVars, event, sends, EventList, failed, cpu, th, merged, moved, halted>>

\* One event is taken off the list; the assert that there is one.
IpcIpiIsr(c) ==
    /\ isr[c].pc = "take"
    /\ IF EventList[c] = <<>>
       THEN halted' = TRUE /\ UNCHANGED <<EventList, isr>>
       ELSE /\ EventList' = [EventList EXCEPT ![c] = Tail(@)]
            /\ isr' = [isr EXCEPT ![c] = [pc |-> "function", event |-> Head(EventList[c])]]
            /\ UNCHANGED halted
    /\ UNCHANGED <<bootVars, event, sends, irr, failed, cpu, th, merged, moved>>

\* Function(Context), which may fail.
RunFunction(c, ok) ==
    /\ isr[c].pc = "function"
    /\ event' = [event EXCEPT ![isr[c].event].handled = @ \union {c}]
    /\ isr' = [isr EXCEPT ![c].pc = "dereference"]
    /\ failed' = IF ok THEN failed ELSE failed \union {c}
    /\ UNCHANGED <<bootVars, sends, EventList, irr, cpu, th, merged, moved, halted>>

\* Mutants. The first handler signals; the last one looks for a count of zero.
IpcDereferenceSignals(c) ==
    /\ isr[c].pc = "dereference"
    /\ event' = [event EXCEPT ![isr[c].event] = Dereferenced(@)]
    /\ isr' = [isr EXCEPT ![c].pc = IF event[isr[c].event].SignalTermination THEN "signal" ELSE "eoi"]
    /\ UNCHANGED <<bootVars, sends, EventList, irr, failed, cpu, th, merged, moved, halted>>
IpcDereferenceZero(c) ==
    LET ev == event[isr[c].event]
    IN  /\ isr[c].pc = "dereference"
        /\ event' = [event EXCEPT ![isr[c].event] = Dereferenced(@)]
        /\ isr' = [isr EXCEPT ![c].pc = IF ev.SignalTermination /\ ev.ref = 1 THEN "signal" ELSE "eoi"]
        /\ UNCHANGED <<bootVars, sends, EventList, irr, failed, cpu, th, merged, moved, halted>>

\* RfcDereference; only a reference count of one means that the others are
\* done and the waiter's reference is left.
IpcDereference(c) ==
    LET ev == event[isr[c].event]
    IN  /\ isr[c].pc = "dereference"
        /\ event' = [event EXCEPT ![isr[c].event] = Dereferenced(@)]
        /\ isr' = [isr EXCEPT ![c].pc = IF ev.SignalTermination /\ ev.ref = 2 THEN "signal" ELSE "eoi"]
        /\ UNCHANGED <<bootVars, sends, EventList, irr, failed, cpu, th, merged, moved, halted>>

EvtSignal(c) ==
    /\ isr[c].pc = "signal"
    /\ event' = [event EXCEPT ![isr[c].event].signaled = TRUE]
    /\ isr' = [isr EXCEPT ![c].pc = "eoi"]
    /\ UNCHANGED <<bootVars, sends, EventList, irr, failed, cpu, th, merged, moved, halted>>

\* IomuAckInterrupt, and the return to the interrupted thread.  If the function
\* failed the handler has returned FALSE, and the assert of _IsrInterruptHandler
\* fails before that.
EndOfInterrupt(c) ==
    /\ isr[c].pc = "eoi"
    /\ IF c \in failed THEN halted' = TRUE /\ UNCHANGED isr
                       ELSE isr' = [isr EXCEPT ![c] = NoInterrupt] /\ UNCHANGED halted
    /\ UNCHANGED <<bootVars, event, sends, EventList, irr, failed, cpu, th, merged, moved>>

-----------------------------------------------------------------------------
SendSteps(t) ==
    \/ Insert(t) \/ SmpSendIpcIpi(t) \/ EvtWaitForSignal(t) \/ WaiterDereference(t)

Handler(c) ==
    \/ Interrupt(c) \/ IpcIpiIsr(c) \/ \E ok \in BOOLEAN : RunFunction(c, ok)
    \/ IpcDereference(c) \/ EvtSignal(c) \/ EndOfInterrupt(c)

Next ==
    /\ ~halted
    /\ \/ SmpWakeupAps \/ ApsAreUp \/ ApsAreNotUp \/ \E c \in CPUs : SmpNotifyCpuWakeup(c)
       \/ \E t \in Threads, mode \in Modes, dest \in SUBSET CPUs, wait \in BOOLEAN :
             /\ mode \notin {"SendToCpu", "SendToGroup"} => dest = {}
             /\ mode = "SendToCpu" => Cardinality(dest) = 1
             /\ mode = "SendToGroup" => Cardinality(dest) > 1
             /\ SendIpi(t, mode, dest, wait)
       \/ \E t \in Threads : SendSteps(t) \/ Migrate(t)
       \/ \E c \in CPUs : Handler(c)

\* The processors run: interrupts are taken and handlers finish, threads that
\* have the CPU go on, the APs start and the BSP waits for them.
Fairness ==
    /\ WF_vars(~halted /\ SmpWakeupAps) /\ WF_vars(~halted /\ (ApsAreUp \/ ApsAreNotUp))
    /\ \A c \in CPUs : WF_vars(~halted /\ Handler(c)) /\ WF_vars(~halted /\ SmpNotifyCpuWakeup(c))
    /\ \A t \in Threads : SF_vars(~halted /\ SendSteps(t))

Spec == SmpInit /\ [][Next]_vars /\ Fairness

-----------------------------------------------------------------------------
(* Properties.                                                             *)

\* The assert of _SmpIpcIpiIsr: a handler that runs finds an event, because
\* every request was preceded by an insertion into the list of the same CPU.
\* Only a sender that moved in between, with a mode that means another CPU
\* by then, can make it fail.
HandlerFindsEvent ==
    ~moved => \A c \in CPUs :
        (IF irr[c] THEN 1 ELSE 0) + (IF isr[c].pc = "take" THEN 1 ELSE 0) <= Len(EventList[c])

\* No list, handler or sender holds an event that was freed, the event that
\* EvtSignal writes after its reference was dropped included; and the last
\* reference goes with the last user.
EventsOutliveTheirUse ==
    /\ \A c \in CPUs : \A e \in ToSet(EventList[c]) : event[e].state = "alive"
    /\ \A c \in CPUs : isr[c].pc \in {"function", "dereference", "signal"} => event[isr[c].event].state = "alive"
    /\ \A t \in Threads : th[t].pc \in {"wait", "dereference"} \/ th[t].todo # <<>> => event[th[t].event].state = "alive"

\* The termination event is signaled, a waiter goes on and the event is freed
\* only when the function has run on every destination CPU.
WaitMeansHandled ==
    [][\A e \in Events :
          \/ event'[e].signaled
          \/ event[e].state = "alive" /\ event'[e].state = "freed"
          => event[e].handled = event[e].targets]_vars

\* A sender that waits gets its answer, unless two requests were merged into
\* one interrupt, which handles one event, or its request went to another CPU
\* than its event.  Senders are interchangeable: this is said of one of them.
WaitReturnsUnlessMerged ==
    LET t == CHOOSE u \in Threads : TRUE
    IN  th[t].pc = "wait" ~> th[t].pc = "out" \/ merged \/ moved \/ halted
=============================================================================
