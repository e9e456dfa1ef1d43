---------------------------- MODULE RecRwSpinlock ---------------------------
(***************************************************************************)
(* The recursive reader/writer spinlock of                                 *)
(* CommonLib/src/rec_rw_spinlock.c: a holder and a depth kept on top of    *)
(* the RW_SPINLOCK of RwSpinlock, and written without any lock of their    *)
(* own.  Only the exclusive mode is recursive.                             *)
(***************************************************************************)
EXTENDS RwSpinlock

CONSTANTS NoCpu,               \* the NULL Holder
          MaxRecursivityDepth  \* given to RecRwSpinlockInit, or 2

ASSUME RecAssumption == NoCpu \notin CPUs /\ MaxRecursivityDepth \in Nat \ {0}

VARIABLES Holder, CurrentRecursivityDepth,
          layer    \* where each CPU is in the wrapper around the RW_SPINLOCK

recVars == <<rwVars, Holder, CurrentRecursivityDepth, layer>>
wrapper == <<Holder, CurrentRecursivityDepth, layer>>

\* entering: in RecRwSpinlockAcquire; inside: the lock is held;
\* leaving: in RecRwSpinlockRelease, about to call RwSpinlockRelease.
Layers == {"outside", "entering", "inside", "leaving"}

RecInit ==
    /\ RwInit
    /\ Holder = NoCpu
    /\ CurrentRecursivityDepth = 0
    /\ layer = [c \in CPUs |-> "outside"]

EnterLayer(c, from, to) == layer[c] = from /\ layer' = [layer EXCEPT ![c] = to]

-----------------------------------------------------------------------------
\* RecRwSpinlockAcquire up to RwSpinlockAcquire, whose first instruction is
\* taken with it.  A CPU that is not the holder takes the slow path.
BeginAcquire(c) ==
    /\ Holder # c
    /\ EnterLayer(c, "outside", "entering")
    /\ AnnounceWriter(c) \/ ClaimShared(c)
    /\ UNCHANGED <<Holder, CurrentRecursivityDepth>>

\* The instructions of RwSpinlockAcquire.
RwAcquireStep(c) ==
    /\ layer[c] = "entering"
    /\ ClaimExclusive(c) \/ RetractWriter(c) \/ CountReader(c) \/ Confess(c)
    /\ UNCHANGED wrapper

\* RwSpinlockAcquire has returned: the asserts, then depth and holder.
TakeOwnership(c) ==
    /\ EnterLayer(c, "entering", "inside")
    /\ pc[c] \in {"exclusive", "shared"}
    /\ IF pc[c] = "exclusive"
       THEN CurrentRecursivityDepth' = 1 /\ Holder' = c
       ELSE UNCHANGED <<CurrentRecursivityDepth, Holder>>
    /\ UNCHANGED rwVars

\* The early return: the holder asks for exclusive ownership again.
AcquireAgain(c) ==
    /\ layer[c] = "inside" /\ pc[c] = "exclusive" /\ Holder = c
    /\ CurrentRecursivityDepth < MaxRecursivityDepth
    /\ CurrentRecursivityDepth' = CurrentRecursivityDepth + 1
    /\ UNCHANGED <<rwVars, Holder, layer>>

\* RecRwSpinlockRelease of a nested acquire: only the depth changes.
ReleaseNested(c) ==
    /\ layer[c] = "inside" /\ pc[c] = "exclusive"
    /\ CurrentRecursivityDepth > 1
    /\ CurrentRecursivityDepth' = CurrentRecursivityDepth - 1
    /\ UNCHANGED <<rwVars, Holder, layer>>

\* Mutant.  The holder is left behind by the last exclusive release.
BeginReleaseKeepsHolder(c) ==
    /\ EnterLayer(c, "inside", "leaving")
    /\ \/ pc[c] = "shared" /\ UNCHANGED CurrentRecursivityDepth
       \/ /\ pc[c] = "exclusive" /\ CurrentRecursivityDepth = 1
          /\ CurrentRecursivityDepth' = 0
    /\ UNCHANGED <<rwVars, Holder>>

\* RecRwSpinlockRelease down to its call of RwSpinlockRelease: the last
\* exclusive release, or any shared one, clears the holder.
BeginRelease(c) ==
    /\ EnterLayer(c, "inside", "leaving")
    /\ \/ pc[c] = "shared" /\ UNCHANGED CurrentRecursivityDepth
       \/ /\ pc[c] = "exclusive" /\ CurrentRecursivityDepth = 1
          /\ CurrentRecursivityDepth' = 0
    /\ Holder' = NoCpu
    /\ UNCHANGED rwVars

\* Mutant.  The mode is not passed on: the inner lock is released as shared.
EndReleaseWrongMode(c) ==
    /\ EnterLayer(c, "leaving", "outside")
    /\ pc' = [pc EXCEPT ![c] = "out"]
    /\ ActiveReaders' = Dec16(ActiveReaders)
    /\ UNCHANGED <<WaitingWriters, ActiveWriter, Holder, CurrentRecursivityDepth>>

EndRelease(c) ==
    /\ EnterLayer(c, "leaving", "outside")
    /\ ReleaseExclusive(c) \/ ReleaseShared(c)
    /\ UNCHANGED <<Holder, CurrentRecursivityDepth>>

RecNext ==
    \E c \in CPUs :
        \/ BeginAcquire(c) \/ RwAcquireStep(c) \/ TakeOwnership(c)
        \/ AcquireAgain(c) \/ ReleaseNested(c)
        \/ BeginRelease(c) \/ EndRelease(c)

RecSpec == RecInit /\ [][RecNext]_recVars

\* A CPU inside the lock code keeps executing, and critical sections end: a
\* holder does not nest for ever (weak fairness) and, each time it is back at
\* depth 1, does not go on nesting again and again (strong fairness).
RecFairSpec ==
    /\ RecSpec
    /\ \A c \in CPUs :
           /\ WF_recVars(RwAcquireStep(c)) /\ WF_recVars(TakeOwnership(c))
           /\ WF_recVars(ReleaseNested(c)) /\ SF_recVars(BeginRelease(c))
           /\ WF_recVars(EndRelease(c))

-----------------------------------------------------------------------------
\* The REC_RW_SPINLOCK has its type: RecRwSpinlockAcquire and Release keep the
\* depth between 0 and MaxRecursivityDepth.
RecTypeOK ==
    /\ Holder \in CPUs \cup {NoCpu}
    /\ CurrentRecursivityDepth \in 0..MaxRecursivityDepth
    /\ layer \in [CPUs -> Layers]

\* ASSERT( NULL == Spinlock->Holder ) and
\* ASSERT( 0 == Spinlock->CurrentRecursivityDepth ) in RecRwSpinlockAcquire,
\* which a CPU evaluates in either mode as soon as RwSpinlockAcquire returns,
\* while other CPUs may still be on their way out of the lock.
FreshlyAcquiredIsUnowned ==
    \A c \in CPUs :
        layer[c] = "entering" /\ pc[c] \in {"exclusive", "shared"}
            => Holder = NoCpu /\ CurrentRecursivityDepth = 0

\* ASSERT(pCurrentCpu == Spinlock->Holder) in RecRwSpinlockRelease: a CPU
\* inside the lock exclusively is the recorded holder with a positive
\* depth, so the unsynchronised test at the top of RecRwSpinlockAcquire can
\* only ever recognise the CPU that really owns the lock.
HolderIsOwner ==
    \A c \in CPUs :
        (Holder = c) <=> (layer[c] = "inside" /\ pc[c] = "exclusive")

\* RecRwSpinlockAcquire and Release keep Holder and CurrentRecursivityDepth, which
\* no lock protects, such that every assert on them holds.
RecBookkeeping == RecTypeOK /\ FreshlyAcquiredIsUnowned /\ HolderIsOwner

\* The wrapper adds recursion and nothing else: seen from the RW_SPINLOCK,
\* every step of RecRwSpinlockAcquire and Release is one of its own, and a CPU
\* that nests and un-nests still goes on through the RW_SPINLOCK.
ImplementsRwSpinlock == RwFairSpec
=============================================================================
