------------------------------ MODULE MCLocks -------------------------------
(***************************************************************************)
(* What CPUs spin on, for TLC: the recursive reader/writer spinlock and    *)
(* the LOCK.  They share no state, so a behaviour is one of one of them:   *)
(* object says which, and the other rests in its initial state.            *)
(***************************************************************************)
EXTENDS RecRwSpinlock

CONSTANTS LockCPUs, MonitorSupport   \* of Spinlock

VARIABLES object, State, lockHolder, intr, ctx, lockPc, IntrState, armed

lockVars == <<State, lockHolder, intr, ctx, lockPc, IntrState, armed>>

L == INSTANCE Spinlock WITH CPUs <- LockCPUs, pc <- lockPc, Holder <- lockHolder

ASSUME L!SpinlockAssumption

-----------------------------------------------------------------------------
LocksInit ==
    /\ object \in {"rw spinlock", "lock"}
    /\ RecInit /\ L!SpinlockInit

LocksNext ==
    /\ UNCHANGED object
    /\ \/ object = "rw spinlock" /\ RecNext /\ UNCHANGED lockVars
       \/ object = "lock" /\ L!SpinlockNext /\ UNCHANGED recVars

\* The fairness of each module, for the object the behaviour is one of.
Of(o, A) == object = o /\ A

LocksFairness ==
    /\ \A c \in CPUs :
           /\ WF_recVars(Of("rw spinlock", RwAcquireStep(c))) /\ WF_recVars(Of("rw spinlock", TakeOwnership(c)))
           /\ WF_recVars(Of("rw spinlock", ReleaseNested(c))) /\ SF_recVars(Of("rw spinlock", BeginRelease(c)))
           /\ WF_recVars(Of("rw spinlock", EndRelease(c)))
    /\ \A c \in LockCPUs, x \in L!Contexts : WF_lockVars(Of("lock", L!Progress(c, x)))

LocksSpec == LocksInit /\ [][LocksNext]_<<object, recVars, lockVars>> /\ LocksFairness

-----------------------------------------------------------------------------
(* The properties of the LOCK.                                             *)

\* LockAcquire and LockRelease are safe to use from interrupt handlers.
InterruptSafe == L!InterruptSafe

\* spinlock.c and monlock.c: the lock goes from free to one CPU and back.
ImplementsLock == L!ImplementsLock

\* A requested LOCK does not stay free: some CPU gets it, asleep in mwait or not.
SomeoneGetsIt == L!SomeoneGetsIt
=============================================================================
