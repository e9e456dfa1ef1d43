---------------------------- MODULE IoInterrupts ----------------------------
(***************************************************************************)
(* Device interrupts: how IomuRegisterInterrupt gives a vector to a driver *)
(* and routes the device to it, through the I/O APIC (ioapic_system.c) or  *)
(* by a message of the device, and how _IsrInterruptHandler and            *)
(* _IomuGenericInterrupt find the service routine when it arrives.         *)
(*                                                                         *)
(* A registration runs under the GlobalInterruptLock, one at a time, while *)
(* other CPUs take interrupts.  Devices whose interrupt line may be shared *)
(* are quiet until their driver has registered, the others are not; a      *)
(* level-triggered line stays asserted until a routine serves the device,  *)
(* and one CPU may have one request of a vector pending.                   *)
(***************************************************************************)
EXTENDS Integers, Sequences, SequencesExt, FiniteSetsExt

CONSTANTS CPUs,
          Drivers,
          Asked,              \* what a driver asks for: [type, irq, Irql, Exclusive, kernel]
          VectorsPerIrql,
          Lines,              \* inputs of the I/O APIC
          InterruptOverrides, \* the table of ACPI, [source, destination]
          NoOfPrtEntries,
          NoVector

VARIABLES InterruptBitmap,        \* vectors in use
          m_isrRoutines,          \* vectors with a routine
          RegisteredInterrupts,   \* per vector: the list of drivers
          redirection,            \* per line: its vector once written
          MaskInterrupts, NoOfInterruptOverrides,
          message,                \* per driver: the vector its device sends
          registering,            \* the registration under way
          result,                 \* per driver: none, ok or failed
          asserted,               \* devices that want service
          irr,                    \* per CPU: vectors requested
          remoteIrr,              \* level-triggered lines in service
          isr,                    \* per CPU: the vector and where in its list
          squeezed, astray,       \* drivers whose IRQL had no vector left; for whom a wrong line was found
          unhandled               \* the assert of _IsrInterruptHandler failed

routeVars == <<InterruptBitmap, m_isrRoutines, RegisteredInterrupts, redirection, message, registering, result,
               squeezed, astray>>
deviceVars == <<asserted, irr, remoteIrr, isr, unhandled>>
ioInterruptVars == <<routeVars, deviceVars, MaskInterrupts, NoOfInterruptOverrides>>

IRQL_TO_VECTOR(irql) == irql * VectorsPerIrql
VECTOR_TO_IRQL(v) == v \div VectorsPerIrql
Vectors == UNION {IRQL_TO_VECTOR(Asked[d].Irql) .. IRQL_TO_VECTOR(Asked[d].Irql) + VectorsPerIrql - 1 : d \in Drivers}

Nothing == [pc |-> "out"]

\* IomuPreinitSystem, IoApicSystemInit: every line is masked.
IoInterruptsInit ==
    /\ InterruptBitmap = {} /\ m_isrRoutines = {} /\ RegisteredInterrupts = [v \in Vectors |-> <<>>]
    /\ redirection = [l \in Lines |-> NoVector] /\ MaskInterrupts = TRUE
    /\ NoOfInterruptOverrides = Len(InterruptOverrides)
    /\ message = [d \in Drivers |-> NoVector] /\ registering = Nothing
    /\ result = [d \in Drivers |-> "none"]
    /\ asserted = {} /\ irr = [c \in CPUs |-> {}] /\ remoteIrr = {}
    /\ isr = [c \in CPUs |-> Nothing]
    /\ squeezed = {} /\ astray = {} /\ unhandled = FALSE

-----------------------------------------------------------------------------
(* From an IRQ to a line of the I/O APIC.                                  *)

\* The last override of the irq among the first n of the table.
Overridden(irq, n) ==
    LET matches == {i \in DOMAIN InterruptOverrides : i <= n /\ InterruptOverrides[i].source = irq}
    IN  IF matches = {} THEN irq ELSE InterruptOverrides[Max(matches)].destination

\* The line the device of a driver is wired to.
Wire(d) == Overridden(Asked[d].irq, Len(InterruptOverrides))

\* Levels are natural numbers.  The kernel's own routines ask for a vector of
\* their own (Exclusive), at levels no driver asks for; a line at one level is
\* of ISA devices or of PCI devices, since it is edge or level-triggered.
IoInterruptsAssumption ==
    /\ Asked \in [Drivers -> [type : {"legacy", "pci", "msi"}, irq : Nat, Irql : Nat,
                              Exclusive : BOOLEAN, kernel : BOOLEAN]]
    /\ \A d, e \in Drivers : Asked[d].kernel =>
           Asked[d].Exclusive /\ (Asked[e].Irql = Asked[d].Irql => Asked[e].kernel)
    /\ \A d, e \in Drivers : Asked[d].type = "legacy" /\ Asked[e].type = "pci" =>
           Wire(d) # Wire(e) \/ Asked[d].Irql # Asked[e].Irql
    /\ InterruptOverrides \in Seq([source : Nat, destination : Nat])
    /\ VectorsPerIrql \in Nat \ {0} /\ NoOfPrtEntries \in Nat /\ NoVector \notin Nat

\* _IoApicReturnInterruptOverrideForIrq.  _IoApicSystemRetrievePrtEntries has
\* stored the number of its entries as that of the overrides: the search ends
\* early, or goes on in the memory behind the table.
FinalIrqs(irq) ==
    {Overridden(irq, NoOfInterruptOverrides)} \union
    (IF NoOfInterruptOverrides > Len(InterruptOverrides) THEN Lines ELSE {})

UsesIoApic(d) == Asked[d].type # "msi"

\* IoApicSystemGetVectorForIrq finds a vector.
Written(line) == line \in Lines /\ redirection[line] # NoVector

-----------------------------------------------------------------------------
(* IomuRegisterInterrupt.                                                  *)

Fail(d) ==
    /\ result' = [result EXCEPT ![d] = "failed"] /\ registering' = Nothing

\* The kernel's own routines are registered before the APs wake up, those of
\* the drivers after it.
MayRegister(d) ==
    registering = Nothing /\ result[d] = "none" /\ (Asked[d].kernel <=> MaskInterrupts)

\* bIoApicEntryRegistered: the line of the device has a vector already.
HasVector(d, line) == UsesIoApic(d) /\ Written(line)

FreeVectors(d, line) ==
    IF HasVector(d, line) THEN {} ELSE {v \in Vectors \ InterruptBitmap : VECTOR_TO_IRQL(v) = Asked[d].Irql}

\* That of the line, or the first free one of the IRQL, or else the first of the
\* IRQL is shared.
VectorFor(d, line) ==
    IF HasVector(d, line) THEN redirection[line]
    ELSE IF FreeVectors(d, line) # {} THEN Min(FreeVectors(d, line)) ELSE IRQL_TO_VECTOR(Asked[d].Irql)

Acceptable(d, line) ==
    /\ UsesIoApic(d) => line \in Lines
    /\ HasVector(d, line) => VECTOR_TO_IRQL(VectorFor(d, line)) = Asked[d].Irql
    /\ Asked[d].Exclusive => FreeVectors(d, line) # {}

TakeVector(d, line) ==
    /\ InterruptBitmap' = InterruptBitmap \union (IF FreeVectors(d, line) = {} THEN {} ELSE {VectorFor(d, line)})
    /\ squeezed' = IF ~HasVector(d, line) /\ FreeVectors(d, line) = {} THEN squeezed \union {d} ELSE squeezed
    /\ registering' = [pc |-> "insert", driver |-> d, vector |-> VectorFor(d, line), line |-> line,
                       route |-> FALSE, written |-> HasVector(d, line)]
    /\ UNCHANGED result

ChooseVector(d) ==
    /\ MayRegister(d)
    /\ \E line \in IF UsesIoApic(d) THEN FinalIrqs(Asked[d].irq) ELSE {NoVector} :
          /\ astray' = IF UsesIoApic(d) /\ line # Wire(d) THEN astray \union {d} ELSE astray
          /\ \/ Acceptable(d, line) /\ TakeVector(d, line)
             \/ ~Acceptable(d, line) /\ Fail(d) /\ UNCHANGED <<InterruptBitmap, squeezed>>
    /\ UNCHANGED <<m_isrRoutines, RegisteredInterrupts, redirection, message, deviceVars, MaskInterrupts, NoOfInterruptOverrides>>

\* bSetupIoApicRedirEntry.
NeedsRoutePciOnly(d, empty, written) == empty /\ Asked[d].type = "pci" /\ ~written
NeedsRoute(d, empty, written) == empty /\ UsesIoApic(d) /\ ~written

\* IsrInstallEx, if the vector has no routine yet.
Installed(v) == m_isrRoutines \union {v}

\* Under the lock of the list: the first entry of a vector installs its routine.
InsertEntry ==
    LET d == registering.driver
        v == registering.vector
        empty == RegisteredInterrupts[v] = <<>>
    IN  /\ registering.pc = "insert"
        /\ \A c \in CPUs : isr[c] # Nothing => isr[c].vector # v
        /\ m_isrRoutines' = IF empty THEN Installed(v) ELSE m_isrRoutines
        /\ \/ \* IsrInstallEx refuses, or there is no memory for the entry
              Fail(d) /\ UNCHANGED RegisteredInterrupts
           \/ /\ empty => v \notin m_isrRoutines
              /\ RegisteredInterrupts' = [RegisteredInterrupts EXCEPT ![v] = Append(@, d)]
              /\ registering' = [registering EXCEPT !.pc = "program",
                                                    !.route = NeedsRoute(d, empty, registering.written)]
              /\ UNCHANGED result
        /\ UNCHANGED <<InterruptBitmap, redirection, message, squeezed, astray, deviceVars, MaskInterrupts, NoOfInterruptOverrides>>

\* PciDevProgramMsiInterrupt, IoApicSystemSetInterrupt.
Messages(d, v) == [message EXCEPT ![d] = v]
Routed(line, v) == [redirection EXCEPT ![line] = v]

\* _IomuProgramPciInterrupt or IoApicSystemSetInterrupt.
Program ==
    LET d == registering.driver
        v == registering.vector
    IN  /\ registering.pc = "program"
        /\ message' = IF UsesIoApic(d) THEN message ELSE Messages(d, v)
        /\ redirection' = IF registering.route THEN Routed(registering.line, v) ELSE redirection
        /\ result' = [result EXCEPT ![d] = "ok"] /\ registering' = Nothing
        /\ UNCHANGED <<InterruptBitmap, m_isrRoutines, RegisteredInterrupts, squeezed, astray, deviceVars,
                       MaskInterrupts, NoOfInterruptOverrides>>

\* _IoApicSystemRetrievePrtEntries counts its entries in the wrong variable.
PrtEntriesRetrieved == NoOfInterruptOverrides' = NoOfPrtEntries

\* IomuInitSystemAfterApWakeup; the lines written so far are unmasked.
AfterApWakeup ==
    /\ MaskInterrupts /\ \A d \in Drivers : Asked[d].kernel => result[d] = "ok"
    /\ MaskInterrupts' = FALSE /\ PrtEntriesRetrieved
    /\ UNCHANGED <<routeVars, deviceVars>>

-----------------------------------------------------------------------------
(* Devices and the APICs: external.                                        *)

\* A CPU gets a request.  Lowest-priority delivery may choose any.
Request(v) == \E c \in CPUs : irr' = [irr EXCEPT ![c] = @ \union {v}]

\* An edge or a message is sent once.
Edge(d) ==
    /\ d \notin asserted
    /\ LET v == IF UsesIoApic(d) THEN (IF MaskInterrupts \/ Wire(d) \notin Lines THEN NoVector ELSE redirection[Wire(d)])
                ELSE message[d]
       IN  Asked[d].type # "pci" /\ v # NoVector /\ Request(v)
    /\ Asked[d].kernel \/ result[d] = "ok" \/ ~UsesIoApic(d)
    /\ asserted' = IF Asked[d].kernel THEN asserted ELSE asserted \union {d}
    /\ UNCHANGED <<routeVars, remoteIrr, isr, unhandled, MaskInterrupts, NoOfInterruptOverrides>>

Level(d) ==
    /\ Asked[d].type = "pci" /\ result[d] = "ok" /\ d \notin asserted
    /\ asserted' = asserted \union {d}
    /\ UNCHANGED <<routeVars, irr, remoteIrr, isr, unhandled, MaskInterrupts, NoOfInterruptOverrides>>

\* A level-triggered line is delivered until it is acknowledged.
Deliver(l) ==
    /\ ~MaskInterrupts /\ redirection[l] # NoVector /\ l \notin remoteIrr
    /\ \E d \in asserted : Asked[d].type = "pci" /\ Wire(d) = l
    /\ remoteIrr' = remoteIrr \union {l} /\ Request(redirection[l])
    /\ UNCHANGED <<routeVars, asserted, isr, unhandled, MaskInterrupts, NoOfInterruptOverrides>>

-----------------------------------------------------------------------------
(* _IsrInterruptHandler and _IomuGenericInterrupt.                         *)

\* IomuAckInterrupt, which also ends the service of the vector's lines.
Acknowledge(c, v) ==
    /\ isr' = [isr EXCEPT ![c] = Nothing]
    /\ remoteIrr' = {l \in remoteIrr : redirection[l] # v}

TakeInterrupt(c) ==
    \E v \in irr[c] :
        /\ isr[c] = Nothing /\ irr' = [irr EXCEPT ![c] = @ \ {v}]
        /\ unhandled' = (v \notin m_isrRoutines)
        /\ isr' = IF v \in m_isrRoutines THEN [isr EXCEPT ![c] = [pc |-> "walk", vector |-> v, at |-> 1]] ELSE isr
        /\ UNCHANGED <<routeVars, asserted, remoteIrr, MaskInterrupts, NoOfInterruptOverrides>>

\* A service routine: the kernel's claim every interrupt, a driver's only when
\* its device wants service.  The first that claims it is the last one called.
CallRoutine(c) ==
    LET v == isr[c].vector
        list == RegisteredInterrupts[v]
    IN  /\ isr[c].pc = "walk" /\ isr[c].at <= Len(list)
        /\ LET d == list[isr[c].at] IN
           \/ (Asked[d].kernel \/ d \in asserted) /\ asserted' = asserted \ {d} /\ Acknowledge(c, v)
           \/ /\ ~Asked[d].kernel /\ d \notin asserted
              /\ isr' = [isr EXCEPT ![c].at = @ + 1] /\ UNCHANGED <<asserted, remoteIrr>>
        /\ UNCHANGED <<routeVars, irr, unhandled, MaskInterrupts, NoOfInterruptOverrides>>

\* Nobody claimed it, and it is none of the spurious ones of the PIC.
NotHandled(c) ==
    /\ isr[c].pc = "walk" /\ isr[c].at > Len(RegisteredInterrupts[isr[c].vector])
    /\ unhandled' = TRUE
    /\ UNCHANGED <<routeVars, asserted, irr, remoteIrr, isr, MaskInterrupts, NoOfInterruptOverrides>>

IoInterruptsNext ==
    /\ ~unhandled
    /\ \/ \E d \in Drivers : ChooseVector(d) \/ Edge(d) \/ Level(d)
       \/ InsertEntry \/ Program \/ AfterApWakeup
       \/ \E l \in Lines : Deliver(l)
       \/ \E c \in CPUs : TakeInterrupt(c) \/ CallRoutine(c) \/ NotHandled(c)

IoInterruptsSpec == IoInterruptsInit /\ [][IoInterruptsNext]_ioInterruptVars
-----------------------------------------------------------------------------
(* Properties.                                                             *)

\* The vector that the device of a driver causes.
Sent(d) == IF UsesIoApic(d) THEN redirection[Wire(d)] ELSE message[d]

\* IomuRegisterInterrupt, _IsrInterruptHandler: a driver whose registration
\* succeeded is called when its device interrupts: the vector leads to a list
\* with its entry and no routine before it claims what is not its own; and the
\* assert that somebody claims each interrupt holds.  A driver that had to
\* share a vector with another line or message is the exception: its line is
\* not routed, and two CPUs in one list may claim each other's interrupts.  So
\* is one for which the memory behind the table of overrides named a line.
InterruptsReachTheirRoutine ==
    /\ \A d \in Drivers \ (squeezed \union astray) : result[d] = "ok" =>
          \E v \in m_isrRoutines \intersect {Sent(d)} : \E i \in DOMAIN RegisteredInterrupts[v] :
              /\ RegisteredInterrupts[v][i] = d
              /\ \A j \in 1 .. i - 1 : ~Asked[RegisteredInterrupts[v][j]].kernel
    /\ unhandled => squeezed \union astray # {}
=============================================================================
