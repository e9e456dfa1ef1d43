------------------------------ MODULE Spinlock ------------------------------
(***************************************************************************)
(* The LOCK of CommonLib: spinlock.c and monlock.c behind the function     *)
(* pointers lock_common.c fills in.  Both flavours keep the same two words *)
(* (State and Holder) and differ only in how a CPU waits: _mm_pause, or    *)
(* _mm_monitor / _mm_mwait on the cache line of the lock.                  *)
(*                                                                         *)
(* Each CPU runs a thread and, while its interrupt flag allows it, an      *)
(* interrupt handler on top of it; both contexts take the same lock.       *)
(* Every access to State and Holder is a step of its own.                  *)
(***************************************************************************)
EXTENDS Naturals, FiniteSets

CONSTANTS CPUs,
          NoCpu,           \* a NULL Holder
          MonitorSupport   \* the parameter of LockSystemInit

SpinlockAssumption ==
    /\ NoCpu \notin CPUs
    /\ MonitorSupport \in BOOLEAN

VARIABLES State, Holder,   \* the SPINLOCK (FunctionWhichTookLock moves with Holder)
          intr,            \* the interrupt flag of each CPU
          ctx,             \* which context each CPU executes
          pc,              \* pc[c][x]: where context x of CPU c is
          IntrState,       \* IntrState[c][x]: what CpuIntrDisable returned there
          armed            \* the CPUs whose monitored line was not written since

lockVars == <<State, Holder, intr, ctx, pc, IntrState, armed>>

Contexts == {"thread", "isr"}

\* out: elsewhere.  cas: about to compare-exchange.  mwait: lost it and about
\* to wait.  asleep: inside mwait.  claim: won it, Holder not yet written.
\* held: LockAcquire returned.  free: Holder cleared, State not yet.
\* restore: State freed, interrupt flag not yet restored.
Labels == {"out", "cas", "mwait", "asleep", "claim", "held", "free", "restore"}

\* From the winning compare-exchange to the exchange that frees State.
Owning == {"claim", "held", "free"}

At(c, x, from) == ctx[c] = x /\ pc[c][x] = from
Goto(c, x, to) == pc' = [pc EXCEPT ![c][x] = to]

SpinlockInit ==
    /\ State = "free" /\ Holder = NoCpu
    /\ intr = [c \in CPUs |-> TRUE]
    /\ ctx = [c \in CPUs |-> "thread"]
    /\ pc = [c \in CPUs |-> [x \in Contexts |-> "out"]]
    /\ IntrState = [c \in CPUs |-> [x \in Contexts |-> FALSE]]
    /\ armed = {}

-----------------------------------------------------------------------------
(* The hardware: interrupts.  A handler starts with the flag clear and its *)
(* iret sets the flag again.                                               *)

Interrupt(c) ==
    /\ intr[c] /\ ctx[c] = "thread"
    /\ ctx' = [ctx EXCEPT ![c] = "isr"]
    /\ intr' = [intr EXCEPT ![c] = FALSE]
    /\ UNCHANGED <<State, Holder, pc, IntrState, armed>>

InterruptReturn(c) ==
    /\ At(c, "isr", "out")
    /\ ctx' = [ctx EXCEPT ![c] = "thread"]
    /\ intr' = [intr EXCEPT ![c] = TRUE]
    /\ UNCHANGED <<State, Holder, pc, IntrState, armed>>

-----------------------------------------------------------------------------
(* SpinlockAcquire, MonitorLockAcquire.                                    *)

\* Mutant. The lock is taken with interrupts left on.
AcquireIntrOn(c, x) ==
    /\ At(c, x, "out")
    /\ Goto(c, x, "cas")
    /\ IntrState' = [IntrState EXCEPT ![c][x] = intr[c]]
    /\ armed' = IF MonitorSupport THEN armed \union {c} ELSE armed
    /\ UNCHANGED <<State, Holder, intr, ctx>>

\* CpuIntrDisable, the assert that this CPU is not the Holder (its own
\* property below) and, in the monitor flavour, the first _mm_monitor.
Acquire(c, x) ==
    /\ At(c, x, "out")
    /\ Goto(c, x, "cas")
    /\ IntrState' = [IntrState EXCEPT ![c][x] = intr[c]]
    /\ intr' = [intr EXCEPT ![c] = FALSE]
    /\ armed' = IF MonitorSupport THEN armed \union {c} ELSE armed
    /\ UNCHANGED <<State, Holder, ctx>>

\* Mutant. Test and set in two steps: the compare-exchange is not one.
CompareExchangeBlind(c, x) ==
    /\ At(c, x, "cas")
    /\ State' = "taken" /\ armed' = {}
    /\ Goto(c, x, "claim")
    /\ UNCHANGED <<Holder, intr, ctx, IntrState>>

\* The compare-exchange.  Losing it sends a spinning CPU back to try again
\* and a monitoring CPU on to _mm_mwait.  The lock cycle writes the line.
CompareExchange(c, x) ==
    /\ At(c, x, "cas")
    /\ \/ /\ State = "free"
          /\ State' = "taken" /\ armed' = {}
          /\ Goto(c, x, "claim")
       \/ /\ State = "taken" /\ MonitorSupport
          /\ Goto(c, x, "mwait")
          /\ UNCHANGED <<State, armed>>
    /\ UNCHANGED <<Holder, intr, ctx, IntrState>>

\* Mutant. The line is armed only when the CPU goes to sleep on it.
MwaitLateMonitor(c, x) ==
    /\ At(c, x, "mwait")
    /\ armed' = armed \union {c}
    /\ Goto(c, x, "asleep")
    /\ UNCHANGED <<State, Holder, intr, ctx, IntrState>>

\* _mm_mwait falls through when the armed line has been written already.
Mwait(c, x) ==
    /\ At(c, x, "mwait")
    /\ Goto(c, x, "asleep")
    /\ UNCHANGED <<State, Holder, intr, ctx, IntrState, armed>>

\* A write to the line ends the wait; the loop arms the monitor again.
MonitorWake(c, x) ==
    /\ At(c, x, "asleep") /\ c \notin armed
    /\ armed' = armed \union {c}
    /\ Goto(c, x, "cas")
    /\ UNCHANGED <<State, Holder, intr, ctx, IntrState>>

Claim(c, x) ==
    /\ At(c, x, "claim")
    /\ Holder' = c /\ armed' = {}
    /\ Goto(c, x, "held")
    /\ UNCHANGED <<State, intr, ctx, IntrState>>

\* SpinlockTryAcquire, MonitorLockTryAcquire: one compare-exchange; the flag
\* is restored at once when it is lost.
TryAcquire(c, x) ==
    /\ At(c, x, "out")
    /\ \/ /\ State = "free"
          /\ State' = "taken" /\ armed' = {}
          /\ IntrState' = [IntrState EXCEPT ![c][x] = intr[c]]
          /\ intr' = [intr EXCEPT ![c] = FALSE]
          /\ Goto(c, x, "claim")
       \/ /\ State = "taken"
          /\ UNCHANGED <<State, armed, IntrState, intr, pc>>
    /\ UNCHANGED <<Holder, ctx>>

-----------------------------------------------------------------------------
(* SpinlockRelease, MonitorLockRelease.                                    *)

Unclaim(c, x) ==
    /\ At(c, x, "held")
    /\ Holder' = NoCpu /\ armed' = {}
    /\ Goto(c, x, "free")
    /\ UNCHANGED <<State, intr, ctx, IntrState>>

Free(c, x) ==
    /\ At(c, x, "free")
    /\ State' = "free" /\ armed' = {}
    /\ Goto(c, x, "restore")
    /\ UNCHANGED <<Holder, intr, ctx, IntrState>>

Restore(c, x) ==
    /\ At(c, x, "restore")
    /\ intr' = [intr EXCEPT ![c] = IntrState[c][x]]
    /\ Goto(c, x, "out")
    /\ UNCHANGED <<State, Holder, ctx, IntrState, armed>>

-----------------------------------------------------------------------------
\* The steps that get a CPU out of the lock code once it is in it.
Progress(c, x) ==
    \/ CompareExchange(c, x) \/ Mwait(c, x) \/ MonitorWake(c, x) \/ Claim(c, x)
    \/ Unclaim(c, x) \/ Free(c, x) \/ Restore(c, x)

SpinlockNext ==
    \E c \in CPUs :
        \/ Interrupt(c) \/ InterruptReturn(c)
        \/ \E x \in Contexts :
               Acquire(c, x) \/ TryAcquire(c, x) \/ Progress(c, x)

SpinlockSpec == SpinlockInit /\ [][SpinlockNext]_lockVars

\* A CPU inside the lock code keeps executing, and critical sections end.
SpinlockFairSpec ==
    SpinlockSpec /\ \A c \in CPUs, x \in Contexts : WF_lockVars(Progress(c, x))

-----------------------------------------------------------------------------
(* Properties.                                                             *)

\* State, Holder and what the CPUs keep in LockAcquire and LockRelease have their
\* types: Holder is the CPU that CpuGetCurrent returned, or NULL.
SpinlockTypeOK ==
    /\ State \in {"free", "taken"}
    /\ Holder \in CPUs \union {NoCpu}
    /\ intr \in [CPUs -> BOOLEAN]
    /\ ctx \in [CPUs -> Contexts]
    /\ pc \in [CPUs -> [Contexts -> Labels]]
    /\ IntrState \in [CPUs -> [Contexts -> BOOLEAN]]
    /\ armed \subseteq CPUs

\* At most one context of one CPU is between its winning compare-exchange and
\* the exchange that frees the lock, whatever interrupts arrive meanwhile.
LockExclusion ==
    \A c, d \in CPUs : \A x, y \in Contexts :
        pc[c][x] \in Owning /\ pc[d][y] \in Owning => c = d /\ x = y

\* SpinlockIsOwner, a plain read of Holder that thread.c bases decisions on,
\* answers TRUE exactly on the CPU that is inside its critical section.
IsOwnerIsExact ==
    \A c \in CPUs : Holder = c <=> \E x \in Contexts : pc[c][x] = "held"

\* The assert that opens LockAcquire: the lock is never requested by the CPU
\* that already holds it, so no handler spins on the thread it interrupted.
NoSelfDeadlock ==
    \A c \in CPUs, x \in Contexts :
        pc[c][x] = "cas" => \A y \in Contexts : pc[c][y] \notin Owning

\* The assert in LockRelease: the lock code runs with interrupts off, and an
\* interrupt handler never has them switched on under it by a release.
IntrOffInside ==
    \A c \in CPUs :
        /\ ctx[c] = "isr" => ~intr[c]
        /\ \A x \in Contexts : pc[c][x] # "out" => ~intr[c]

\* LockAcquire and LockRelease are safe to use from interrupt handlers.
InterruptSafe == NoSelfDeadlock /\ IntrOffInside

\* The CPU that owns the lock when the program counters are p.
OwnerIn(p) ==
    IF \E c \in CPUs : \E x \in Contexts : p[c][x] \in Owning
    THEN CHOOSE c \in CPUs : \E x \in Contexts : p[c][x] \in Owning
    ELSE NoCpu

Abstract == INSTANCE AbstractLock WITH owner <- OwnerIn(pc)

\* Every execution of the lock code is one of the lock AbstractLock promises:
\* it goes from free to one CPU and from that CPU back to free.
ImplementsLock == Abstract!LockSpec

\* A requested lock does not stay free: some CPU gets it.  (Which one is not
\* promised: neither flavour queues its waiters.)
SomeoneGetsIt ==
    (\E c \in CPUs, x \in Contexts : pc[c][x] \in {"cas", "mwait", "asleep"})
        ~> (\E c \in CPUs, x \in Contexts : pc[c][x] = "held")
=============================================================================
