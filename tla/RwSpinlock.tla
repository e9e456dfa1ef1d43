----------------------------- MODULE RwSpinlock -----------------------------
(***************************************************************************)
(* The reader/writer spinlock of CommonLib/src/rw_spinlock.c.              *)
(*                                                                         *)
(* The lock is three adjacent WORDs.  A writer compare-exchanges the DWORD *)
(* {ActiveWriter, ActiveReaders}; a reader compare-exchanges the           *)
(* overlapping DWORD {WaitingWriters, ActiveWriter}, pretending to be the  *)
(* writer until it has counted itself and "confesses".  Every interlocked  *)
(* instruction of the code is one action, so all their interleavings on    *)
(* several CPUs are covered.  A failed compare-exchange changes nothing    *)
(* and is retried: it is a stuttering step.                                *)
(***************************************************************************)
EXTENDS Naturals, FiniteSets

CONSTANTS CPUs,      \* the processors, each with interrupts off inside the lock code
          MaxWord    \* the largest value of a WORD (0xFFFF in the build)

\* There are never more CPUs than a WORD can count: APIC ids are BYTEs.
ASSUME CpuAssumption ==
    /\ IsFiniteSet(CPUs)
    /\ MaxWord \in Nat
    /\ Cardinality(CPUs) <= MaxWord

VARIABLES WaitingWriters, ActiveWriter, ActiveReaders,  \* the RW_SPINLOCK
          pc                                            \* where each CPU is

rwVars == <<WaitingWriters, ActiveWriter, ActiveReaders, pc>>

\* out: does not use the lock.  ex_wait, ex_claim: inside an exclusive
\* acquire, before and after its compare-exchange.  sh_count, sh_confess:
\* inside a shared acquire, before ActiveReaders++ and before ActiveWriter--.
Labels == {"out", "ex_wait", "ex_claim", "exclusive",
           "sh_count", "sh_confess", "shared"}

Goto(c, from, to) == pc[c] = from /\ pc' = [pc EXCEPT ![c] = to]

\* _InterlockedIncrement16 and _InterlockedDecrement16 wrap around.
Inc16(w) == IF w = MaxWord THEN 0 ELSE w + 1
Dec16(w) == IF w = 0 THEN MaxWord ELSE w - 1

RwInit ==
    /\ WaitingWriters = 0 /\ ActiveWriter = 0 /\ ActiveReaders = 0
    /\ pc = [c \in CPUs |-> "out"]

-----------------------------------------------------------------------------
(* RwSpinlockAcquire with Exclusive = TRUE.                                *)

AnnounceWriter(c) ==
    /\ Goto(c, "out", "ex_wait")
    /\ WaitingWriters' = Inc16(WaitingWriters)
    /\ UNCHANGED <<ActiveWriter, ActiveReaders>>

\* Mutant. A WORD-sized compare-exchange: the writer overlooks the active readers.
ClaimExclusiveWordCas(c) ==
    /\ Goto(c, "ex_wait", "ex_claim")
    /\ ActiveWriter = 0
    /\ ActiveWriter' = 1
    /\ UNCHANGED <<WaitingWriters, ActiveReaders>>

ClaimExclusive(c) ==
    /\ Goto(c, "ex_wait", "ex_claim")
    /\ ActiveWriter = 0 /\ ActiveReaders = 0
    /\ ActiveWriter' = 1
    /\ UNCHANGED <<WaitingWriters, ActiveReaders>>

RetractWriter(c) ==
    /\ Goto(c, "ex_claim", "exclusive")
    /\ WaitingWriters' = Dec16(WaitingWriters)
    /\ UNCHANGED <<ActiveWriter, ActiveReaders>>

(* RwSpinlockAcquire with Exclusive = FALSE.                               *)

\* Mutant. The same mistake on the reader's side: waiting writers are overlooked.
ClaimSharedNoPriority(c) ==
    /\ Goto(c, "out", "sh_count")
    /\ ActiveWriter = 0
    /\ ActiveWriter' = 1
    /\ UNCHANGED <<WaitingWriters, ActiveReaders>>

ClaimShared(c) ==
    /\ Goto(c, "out", "sh_count")
    /\ WaitingWriters = 0 /\ ActiveWriter = 0
    /\ ActiveWriter' = 1
    /\ UNCHANGED <<WaitingWriters, ActiveReaders>>

CountReader(c) ==
    /\ Goto(c, "sh_count", "sh_confess")
    /\ ActiveReaders' = Inc16(ActiveReaders)
    /\ UNCHANGED <<WaitingWriters, ActiveWriter>>

Confess(c) ==
    /\ Goto(c, "sh_confess", "shared")
    /\ ActiveWriter' = Dec16(ActiveWriter)
    /\ UNCHANGED <<WaitingWriters, ActiveReaders>>

(* RwSpinlockRelease.                                                      *)

ReleaseExclusive(c) ==
    /\ Goto(c, "exclusive", "out")
    /\ ActiveWriter' = Dec16(ActiveWriter)
    /\ UNCHANGED <<WaitingWriters, ActiveReaders>>

ReleaseShared(c) ==
    /\ Goto(c, "shared", "out")
    /\ ActiveReaders' = Dec16(ActiveReaders)
    /\ UNCHANGED <<WaitingWriters, ActiveWriter>>

-----------------------------------------------------------------------------
\* The steps of one CPU that has started an acquire or holds the lock.
Progress(c) ==
    \/ ClaimExclusive(c) \/ RetractWriter(c)
    \/ CountReader(c) \/ Confess(c)
    \/ ReleaseExclusive(c) \/ ReleaseShared(c)

RwNext == \E c \in CPUs : AnnounceWriter(c) \/ ClaimShared(c) \/ Progress(c)

RwSpec == RwInit /\ [][RwNext]_rwVars

\* A CPU executes its next instruction sooner or later and leaves the
\* critical section; whether it ever asks for the lock is up to it.
RwFairSpec == RwSpec /\ \A c \in CPUs : WF_rwVars(Progress(c))

-----------------------------------------------------------------------------
\* The three WORDs of the RW_SPINLOCK never wrap: RwSpinlockAcquire and Release
\* count at most all the CPUs in the first and last of them, and at most one in
\* ActiveWriter; no decrement finds a zero.
RwTypeOK ==
    /\ WaitingWriters \in 0..Cardinality(CPUs)
    /\ ActiveReaders \in 0..Cardinality(CPUs)
    /\ ActiveWriter \in 0..1
    /\ pc \in [CPUs -> Labels]

\* What the lock is for (REQUIRES_EXCL_LOCK / REQUIRES_SHARED_LOCK in
\* rw_spinlock.h): while RwSpinlockAcquire has given one CPU exclusive
\* ownership no other CPU has the lock in either mode.
Exclusion ==
    \A c, d \in CPUs :
        pc[c] = "exclusive" /\ c # d => pc[d] \notin {"exclusive", "shared"}

\* ASSERT( 1 == Spinlock->ActiveWriter ) just before a reader confesses and
\* at the start of an exclusive release: nobody else may have touched it.
WriterWordIsMine ==
    \A c \in CPUs : pc[c] \in {"sh_confess", "exclusive"} => ActiveWriter = 1

\* "check WaitingWriters and ActiveWriter (so writers will have priority)":
\* readers that keep coming cannot starve a lone announced writer.
WritersHavePriority ==
    \A c \in CPUs :
        [](\A d \in CPUs \ {c} : pc[d] \notin {"ex_wait", "ex_claim", "exclusive"})
            => (pc[c] = "ex_wait" ~> pc[c] = "exclusive")

=============================================================================
