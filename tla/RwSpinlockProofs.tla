-------------------------- MODULE RwSpinlockProofs --------------------------
(***************************************************************************)
(* TLAPS proofs about RwSpinlock and RecRwSpinlock, for every finite set   *)
(* of CPUs, and about MCLocks, which puts the latter beside a LOCK.        *)
(*                                                                         *)
(* The three WORDs only mean something if they count what the CPUs are     *)
(* doing; RwIInv says exactly what each of them counts.  From that the     *)
(* wrap-around of a WORD is unreachable and exclusion is arithmetic.       *)
(***************************************************************************)
EXTENDS MCLocks, FiniteSetTheorems, TLAPS

\* The CPUs at one of the program points P.
At(P) == {c \in CPUs : pc[c] \in P}

Announced == At({"ex_wait", "ex_claim"})
Readers == At({"sh_confess", "shared"})
WriterWord == At({"ex_claim", "exclusive", "sh_count", "sh_confess"})

\* The values the variables can take at all, with WORDs that wrap.
WordTypes ==
    /\ WaitingWriters \in 0..MaxWord
    /\ ActiveWriter \in 0..MaxWord
    /\ ActiveReaders \in 0..MaxWord
    /\ pc \in [CPUs -> Labels]

\* The inductive invariant: WaitingWriters counts the announced writers,
\* ActiveReaders the counted readers, ActiveWriter the (at most one) CPU
\* that is or pretends to be the writer, and a real writer excludes readers.
RwIInv ==
    /\ WordTypes
    /\ WaitingWriters = Cardinality(Announced)
    /\ ActiveReaders = Cardinality(Readers)
    /\ ActiveWriter = (IF WriterWord = {} THEN 0 ELSE 1)
    /\ \A c, d \in WriterWord : c = d
    /\ \A c \in CPUs : pc[c] \in {"ex_claim", "exclusive"} => Readers = {}
-----------------------------------------------------------------------------
\* What counting a CPU in or out does to a cardinality, and that no count
\* exceeds the largest WORD.
LEMMA CountBound ==
    ASSUME NEW S \in SUBSET CPUs
    PROVE  /\ IsFiniteSet(S)
           /\ Cardinality(S) \in 0..MaxWord
           /\ Cardinality(S) \in 0..Cardinality(CPUs)
<1>1. IsFiniteSet(CPUs) /\ MaxWord \in Nat /\ Cardinality(CPUs) <= MaxWord
  BY CpuAssumption
<1>2. IsFiniteSet(S) /\ Cardinality(S) <= Cardinality(CPUs)
  BY <1>1, FS_Subset
<1>3. Cardinality(S) \in Nat /\ Cardinality(CPUs) \in Nat
  BY <1>1, <1>2, FS_CardinalityType
<1> QED
  BY <1>1, <1>2, <1>3

\* Interlocked increments and decrements follow a CPU that joins or leaves
\* the set a WORD counts.
LEMMA CountStep ==
    ASSUME NEW S \in SUBSET CPUs, NEW c \in CPUs
    PROVE  /\ c \notin S => Cardinality(S \cup {c}) = Inc16(Cardinality(S))
           /\ c \in S => Cardinality(S \ {c}) = Dec16(Cardinality(S))
<1>1. IsFiniteSet(S) /\ Cardinality(S) \in 0..MaxWord
  BY CountBound
<1>2. ASSUME c \notin S PROVE Cardinality(S \cup {c}) = Inc16(Cardinality(S))
  <2>1. Cardinality(S \cup {c}) = Cardinality(S) + 1
    BY <1>1, <1>2, FS_AddElement
  <2>2. Cardinality(S \cup {c}) \in 0..MaxWord
    BY CountBound
  <2> QED
    BY <1>1, <2>1, <2>2, CpuAssumption DEF Inc16
<1>3. ASSUME c \in S PROVE Cardinality(S \ {c}) = Dec16(Cardinality(S))
  <2>1. Cardinality(S \ {c}) = Cardinality(S) - 1
    BY <1>1, <1>3, FS_RemoveElement
  <2>2. Cardinality(S \ {c}) \in 0..MaxWord
    BY CountBound
  <2> QED
    BY <1>1, <2>1, <2>2, CpuAssumption DEF Dec16
<1> QED
  BY <1>2, <1>3

\* A WORD that reads zero counts nobody.
LEMMA CountZero ==
    ASSUME NEW S \in SUBSET CPUs, Cardinality(S) = 0
    PROVE  S = {}
BY CountBound, FS_EmptySet

\* The initial state satisfies the inductive invariant.
LEMMA RwInitIInv == RwInit => RwIInv
<1> SUFFICES ASSUME RwInit PROVE RwIInv
  OBVIOUS
<1>1. WordTypes
  BY CpuAssumption DEF RwInit, WordTypes, Labels
<1>2. Announced = {} /\ Readers = {} /\ WriterWord = {}
  BY DEF RwInit, Announced, Readers, WriterWord, At
<1>3. Cardinality({}) = 0
  BY FS_EmptySet
<1> QED
  BY <1>1, <1>2, <1>3 DEF RwInit, RwIInv

\* Every interlocked instruction preserves the inductive invariant.
LEMMA RwStepIInv == RwIInv /\ [RwNext]_rwVars => RwIInv'
<1> SUFFICES ASSUME RwIInv, [RwNext]_rwVars PROVE RwIInv'
  OBVIOUS
<1> USE DEF RwIInv
<1>0. /\ Announced \in SUBSET CPUs /\ Readers \in SUBSET CPUs
      /\ WriterWord \in SUBSET CPUs
  BY DEF Announced, Readers, WriterWord, At
<1>w. MaxWord \in Nat /\ (CPUs # {} => 1 <= MaxWord)
  <2>1. CPUs # {} => Cardinality(CPUs) # 0
    BY CountZero
  <2> QED
    BY <2>1, CpuAssumption, FS_CardinalityType
<1>1. ASSUME NEW c \in CPUs, AnnounceWriter(c) PROVE RwIInv'
  <2> USE <1>1 DEF AnnounceWriter, Goto, WordTypes
  <2>1. c \notin Announced /\ Announced' = Announced \cup {c}
    BY DEF Announced, At
  <2>2. Readers' = Readers /\ WriterWord' = WriterWord
    BY DEF Readers, WriterWord, At
  <2>3. WaitingWriters' = Cardinality(Announced')
    BY <1>0, <2>1, CountStep
  <2>4. WordTypes'
    BY <1>w DEF Inc16, Labels
  <2>5. \A d \in CPUs : pc'[d] \in {"ex_claim", "exclusive"} => Readers' = {}
    BY <2>2
  <2> QED
    BY <2>2, <2>3, <2>4, <2>5
<1>2. ASSUME NEW c \in CPUs, ClaimExclusive(c) PROVE RwIInv'
  <2> USE <1>2 DEF ClaimExclusive, Goto, WordTypes
  <2>1. Announced' = Announced /\ Readers' = Readers
    BY DEF Announced, Readers, At
  <2>2. WriterWord = {} /\ WriterWord' = {c}
    BY DEF WriterWord, At
  <2>3. Readers = {}
    BY <1>0, CountZero
  <2>4. WordTypes'
    BY <1>w DEF Labels
  <2> QED
    BY <2>1, <2>2, <2>3, <2>4
<1>3. ASSUME NEW c \in CPUs, RetractWriter(c) PROVE RwIInv'
  <2> USE <1>3 DEF RetractWriter, Goto, WordTypes
  <2>1. c \in Announced /\ Announced' = Announced \ {c}
    BY DEF Announced, At
  <2>2. Readers' = Readers /\ WriterWord' = WriterWord
    BY DEF Readers, WriterWord, At
  <2>3. WaitingWriters' = Cardinality(Announced')
    BY <1>0, <2>1, CountStep
  <2>4. WordTypes'
    BY <1>w DEF Dec16, Labels
  <2>5. \A d \in CPUs : pc'[d] \in {"ex_claim", "exclusive"} => Readers' = {}
    BY <2>2
  <2> QED
    BY <2>2, <2>3, <2>4, <2>5
<1>4. ASSUME NEW c \in CPUs, ClaimShared(c) PROVE RwIInv'
  <2> USE <1>4 DEF ClaimShared, Goto, WordTypes
  <2>1. Announced' = Announced /\ Readers' = Readers
    BY DEF Announced, Readers, At
  <2>2. WriterWord = {} /\ WriterWord' = {c}
    BY DEF WriterWord, At
  <2>3. WordTypes'
    BY <1>w DEF Labels
  <2>4. \A d \in CPUs : pc'[d] \in {"ex_claim", "exclusive"} => FALSE
    BY <2>2 DEF WriterWord, At
  <2> QED
    BY <2>1, <2>2, <2>3, <2>4
<1>5. ASSUME NEW c \in CPUs, CountReader(c) PROVE RwIInv'
  <2> USE <1>5 DEF CountReader, Goto, WordTypes
  <2>1. c \notin Readers /\ Readers' = Readers \cup {c}
    BY DEF Readers, At
  <2>2. Announced' = Announced /\ WriterWord' = WriterWord
    BY DEF Announced, WriterWord, At
  <2>3. ActiveReaders' = Cardinality(Readers')
    BY <1>0, <2>1, CountStep
  <2>4. WordTypes'
    BY <1>w DEF Inc16, Labels
  <2>5. \A d \in CPUs : pc'[d] \in {"ex_claim", "exclusive"} => FALSE
    BY DEF WriterWord, At
  <2> QED
    BY <2>2, <2>3, <2>4, <2>5
<1>6. ASSUME NEW c \in CPUs, Confess(c) PROVE RwIInv'
  <2> USE <1>6 DEF Confess, Goto, WordTypes
  <2>1. Announced' = Announced /\ Readers' = Readers
    BY DEF Announced, Readers, At
  <2>2. ActiveWriter = 1 /\ WriterWord' = {}
    BY DEF WriterWord, At
  <2>3. ActiveWriter' = 0
    BY <2>2 DEF Dec16
  <2>4. WordTypes'
    BY <1>w, <2>3 DEF Labels
  <2>5. \A d \in CPUs : pc'[d] \in {"ex_claim", "exclusive"} => FALSE
    BY <2>2 DEF WriterWord, At
  <2> QED
    BY <2>1, <2>2, <2>3, <2>4, <2>5
<1>7. ASSUME NEW c \in CPUs, ReleaseExclusive(c) PROVE RwIInv'
  <2> USE <1>7 DEF ReleaseExclusive, Goto, WordTypes
  <2>1. Announced' = Announced /\ Readers' = Readers
    BY DEF Announced, Readers, At
  <2>2. ActiveWriter = 1 /\ WriterWord' = {}
    BY DEF WriterWord, At
  <2>3. ActiveWriter' = 0
    BY <2>2 DEF Dec16
  <2>4. WordTypes'
    BY <1>w, <2>3 DEF Labels
  <2>5. \A d \in CPUs : pc'[d] \in {"ex_claim", "exclusive"} => FALSE
    BY <2>2 DEF WriterWord, At
  <2> QED
    BY <2>1, <2>2, <2>3, <2>4, <2>5
<1>8. ASSUME NEW c \in CPUs, ReleaseShared(c) PROVE RwIInv'
  <2> USE <1>8 DEF ReleaseShared, Goto, WordTypes
  <2>1. c \in Readers /\ Readers' = Readers \ {c}
    BY DEF Readers, At
  <2>2. Announced' = Announced /\ WriterWord' = WriterWord
    BY DEF Announced, WriterWord, At
  <2>3. ActiveReaders' = Cardinality(Readers')
    BY <1>0, <2>1, CountStep
  <2>4. WordTypes'
    BY <1>w DEF Dec16, Labels
  <2>5. \A d \in CPUs : pc'[d] \in {"ex_claim", "exclusive"} => Readers' = {}
    BY <2>1
  <2> QED
    BY <2>2, <2>3, <2>4, <2>5
<1>9. CASE UNCHANGED rwVars
  <2>1. /\ Announced' = Announced /\ Readers' = Readers
        /\ WriterWord' = WriterWord
    BY <1>9 DEF rwVars, Announced, Readers, WriterWord, At
  <2>2. WordTypes'
    BY <1>9 DEF rwVars, WordTypes
  <2> QED
    BY <1>9, <2>1, <2>2 DEF rwVars
<1> QED
  BY <1>1, <1>2, <1>3, <1>4, <1>5, <1>6, <1>7, <1>8, <1>9
     DEF RwNext, Progress

\* The inductive invariant holds in every reachable state, whatever the
\* number of CPUs.
THEOREM RwCountsAreExact == RwSpec => []RwIInv
<1>1. RwInit => RwIInv
  BY RwInitIInv
<1>2. RwIInv /\ [RwNext]_rwVars => RwIInv'
  BY RwStepIInv
<1> QED
  BY <1>1, <1>2, PTL DEF RwSpec

\* RwSpinlockAcquire and RwSpinlockRelease keep the three WORDs in range:
\* none of them ever wraps around.
THEOREM RwTypeCorrect == RwSpec => []RwTypeOK
<1>1. RwIInv => RwTypeOK
  <2> SUFFICES ASSUME RwIInv PROVE RwTypeOK
    OBVIOUS
  <2>1. Announced \in SUBSET CPUs /\ Readers \in SUBSET CPUs
    BY DEF Announced, Readers, At
  <2>2. Cardinality(Announced) \in 0..Cardinality(CPUs)
    BY <2>1, CountBound
  <2>3. Cardinality(Readers) \in 0..Cardinality(CPUs)
    BY <2>1, CountBound
  <2>4. ActiveWriter \in 0..1
    BY DEF RwIInv
  <2> QED
    BY <2>2, <2>3, <2>4 DEF RwIInv, WordTypes, RwTypeOK
<1> QED
  BY <1>1, RwCountsAreExact, PTL

\* While one CPU holds the lock exclusively no other CPU holds it at all.
THEOREM RwExclusion == RwSpec => []Exclusion
<1>1. RwIInv => Exclusion
  BY DEF RwIInv, Exclusion, WriterWord, Readers, At
<1> QED
  BY <1>1, RwCountsAreExact, PTL

\* The two asserts on ActiveWriter in rw_spinlock.c cannot fail.
THEOREM RwAssertsHold == RwSpec => []WriterWordIsMine
<1>1. RwIInv => WriterWordIsMine
  BY DEF RwIInv, WriterWordIsMine, WriterWord, At
<1> QED
  BY <1>1, RwCountsAreExact, PTL

-----------------------------------------------------------------------------
(* RecRwSpinlock.                                                          *)

\* The wrapper and the RW_SPINLOCK agree on where a CPU is.
LayersAgree ==
    \A c \in CPUs :
        /\ layer[c] = "outside" <=> pc[c] = "out"
        /\ layer[c] \in {"inside", "leaving"} => pc[c] \in {"exclusive", "shared"}

\* The depth is positive exactly while there is a holder.
DepthHasHolder == Holder = NoCpu <=> CurrentRecursivityDepth = 0

\* The inductive invariant: what the WORDs count, and the bookkeeping on top.
RecIInv == RwIInv /\ RecTypeOK /\ LayersAgree /\ DepthHasHolder /\ HolderIsOwner

\* Each step of the wrapper is an instruction of the RW_SPINLOCK or leaves it alone.
LEMMA RecStepIsRwStep == [RecNext]_recVars => [RwNext]_rwVars
BY DEF RecNext, recVars, BeginAcquire, RwAcquireStep, TakeOwnership, AcquireAgain,
       ReleaseNested, BeginRelease, EndRelease, RwNext, Progress

\* RecRwSpinlockInit establishes the invariant.
LEMMA RecInitIInv == RecInit => RecIInv
<1> SUFFICES ASSUME RecInit PROVE RecIInv
  OBVIOUS
<1>1. RwIInv
  BY RwInitIInv DEF RecInit
<1> QED
  BY <1>1, RecAssumption
  DEF RecInit, RwInit, RecIInv, RecTypeOK, LayersAgree, DepthHasHolder, HolderIsOwner, Layers

\* A CPU that has the lock exclusively shares it with nobody.
LEMMA IInvExcludes == RwIInv => Exclusion
BY DEF RwIInv, Exclusion, WriterWord, Readers, At

\* Every step of RecRwSpinlockAcquire and RecRwSpinlockRelease keeps it.
LEMMA RecStepIInv == RecIInv /\ [RecNext]_recVars => RecIInv'
<1> SUFFICES ASSUME RecIInv, [RecNext]_recVars PROVE RecIInv'
  OBVIOUS
<1>0. RwIInv'
  BY RecStepIsRwStep, RwStepIInv DEF RecIInv
<1>e. Exclusion /\ pc \in [CPUs -> Labels]
  BY IInvExcludes DEF RecIInv, RwIInv, WordTypes
<1> DEFINE Bookkeeping == RecTypeOK /\ LayersAgree /\ DepthHasHolder /\ HolderIsOwner
<1> USE RecAssumption DEF RecIInv, RecTypeOK, LayersAgree, DepthHasHolder, HolderIsOwner, Layers
<1>1. ASSUME NEW c \in CPUs, BeginAcquire(c) PROVE Bookkeeping'
  BY <1>1, <1>e DEF BeginAcquire, EnterLayer, AnnounceWriter, ClaimShared, Goto
<1>2. ASSUME NEW c \in CPUs, RwAcquireStep(c) PROVE Bookkeeping'
  BY <1>2, <1>e DEF RwAcquireStep, wrapper, ClaimExclusive, RetractWriter, CountReader, Confess, Goto
<1>3. ASSUME NEW c \in CPUs, TakeOwnership(c) PROVE Bookkeeping'
  BY <1>3, <1>e DEF TakeOwnership, EnterLayer, Exclusion, rwVars
<1>4. ASSUME NEW c \in CPUs, AcquireAgain(c) PROVE Bookkeeping'
  BY <1>4, <1>e DEF AcquireAgain, rwVars
<1>5. ASSUME NEW c \in CPUs, ReleaseNested(c) PROVE Bookkeeping'
  BY <1>5, <1>e DEF ReleaseNested, rwVars
<1>6. ASSUME NEW c \in CPUs, BeginRelease(c) PROVE Bookkeeping'
  BY <1>6, <1>e DEF BeginRelease, EnterLayer, Exclusion, rwVars
<1>7. ASSUME NEW c \in CPUs, EndRelease(c) PROVE Bookkeeping'
  BY <1>7, <1>e DEF EndRelease, EnterLayer, ReleaseExclusive, ReleaseShared, Goto
<1>8. CASE UNCHANGED recVars
  BY <1>8, <1>e, <1>0 DEF recVars, rwVars
<1> QED
  BY <1>0, <1>1, <1>2, <1>3, <1>4, <1>5, <1>6, <1>7, <1>8 DEF RecNext

\* Holder and depth of the REC_RW_SPINLOCK, written without a lock of their
\* own, agree with the RW_SPINLOCK beneath at every step.
THEOREM RecInvariant == RecSpec => []RecIInv
BY RecInitIInv, RecStepIInv, PTL DEF RecSpec

\* The asserts of RecRwSpinlockAcquire and RecRwSpinlockRelease on Holder and
\* CurrentRecursivityDepth hold in either mode, on every CPU.
THEOREM RecBookkeepingHolds == RecSpec => []RecBookkeeping
<1>1. RecIInv => RecBookkeeping
  <2> SUFFICES ASSUME RecIInv PROVE FreshlyAcquiredIsUnowned
    BY DEF RecIInv, RecBookkeeping
  <2>1. Exclusion
    BY IInvExcludes DEF RecIInv
  <2> QED
    BY <2>1 DEF RecIInv, RecTypeOK, HolderIsOwner, DepthHasHolder, Exclusion, FreshlyAcquiredIsUnowned
<1> QED
  BY <1>1, RecInvariant, PTL

\* The recursive lock implements the plain one: the safety part of
\* ImplementsRwSpinlock, for every number of CPUs and every depth.
THEOREM RecImplementsRw == RecSpec => RwSpec
<1>1. RecInit => RwInit
  BY DEF RecInit
<1>2. [RecNext]_recVars => [RwNext]_rwVars
  BY RecStepIsRwStep
<1> QED
  BY <1>1, <1>2, PTL DEF RecSpec, RwSpec

\* So the recursive lock excludes as the plain one does.
THEOREM RecExclusion == RecSpec => []Exclusion
BY RecImplementsRw, RwExclusion, PTL

-----------------------------------------------------------------------------
(* The two locks together.                                                 *)

\* The constants and the variables of the LOCK are those of MCLocks's L.
LP == INSTANCE SpinlockProofs WITH CPUs <- LockCPUs, pc <- lockPc, Holder <- lockHolder

\* A behaviour of the two is one of the recursive reader/writer spinlock ...
LEMMA LocksImplementRec == LocksSpec => RecSpec
<1>1. [LocksNext]_<<object, recVars, lockVars>> => [RecNext]_recVars
  BY DEF LocksNext
<1> QED
  BY <1>1, PTL DEF LocksSpec, LocksInit, RecSpec

\* ... and one of the LOCK.
LEMMA LocksImplementSpinlock == LocksSpec => LP!SpinlockSpec
<1>1. L!SpinlockInit => LP!SpinlockInit
  BY DEF L!SpinlockInit, LP!SpinlockInit, L!Contexts, LP!Contexts
<1>2. L!SpinlockNext => LP!SpinlockNext
  <2> USE DEF L!At, LP!At, L!Goto, LP!Goto, L!Contexts, LP!Contexts
  <2>1. ASSUME NEW c \in LockCPUs, L!Interrupt(c) \/ L!InterruptReturn(c)
        PROVE  LP!Interrupt(c) \/ LP!InterruptReturn(c)
    BY <2>1 DEF L!Interrupt, LP!Interrupt, L!InterruptReturn, LP!InterruptReturn
  <2>2. ASSUME NEW c \in LockCPUs, NEW x \in L!Contexts, L!Acquire(c, x) \/ L!TryAcquire(c, x)
        PROVE  LP!Acquire(c, x) \/ LP!TryAcquire(c, x)
    BY <2>2 DEF L!Acquire, LP!Acquire, L!TryAcquire, LP!TryAcquire
  <2>3. ASSUME NEW c \in LockCPUs, NEW x \in L!Contexts, L!Progress(c, x)
        PROVE  LP!Progress(c, x)
    BY <2>3 DEF L!Progress, LP!Progress, L!CompareExchange, LP!CompareExchange, L!Mwait, LP!Mwait,
                L!MonitorWake, LP!MonitorWake, L!Claim, LP!Claim, L!Unclaim, LP!Unclaim,
                L!Free, LP!Free, L!Restore, LP!Restore
  <2> QED
    BY <2>1, <2>2, <2>3 DEF L!SpinlockNext, LP!SpinlockNext
<1>3. [LocksNext]_<<object, recVars, lockVars>> => [LP!SpinlockNext]_LP!lockVars
  BY <1>2 DEF LocksNext, lockVars, LP!lockVars
<1> QED
  BY <1>1, <1>3, PTL DEF LocksSpec, LocksInit, LP!SpinlockSpec

\* What MCLocks's run checks of the two in every state: owners of the
\* reader/writer spinlock exclude each other, the bookkeeping of the recursive one
\* is right, and handlers may take a LOCK.
THEOREM LocksAreSafe ==
    ASSUME L!SpinlockAssumption
    PROVE  LocksSpec => [](Exclusion /\ RecBookkeeping /\ InterruptSafe)
<1>1. LP!SpinlockAssumption
  BY DEF L!SpinlockAssumption, LP!SpinlockAssumption
<1>2. LP!SpinlockSpec => []LP!InterruptSafe
  BY <1>1, LP!SpinlockInterruptSafe
<1>3. LP!InterruptSafe => InterruptSafe
  BY DEF LP!InterruptSafe, InterruptSafe, L!InterruptSafe, LP!NoSelfDeadlock, L!NoSelfDeadlock,
         LP!IntrOffInside, L!IntrOffInside, LP!Owning, L!Owning, LP!Contexts, L!Contexts
<1> QED
  BY <1>2, <1>3, LocksImplementRec, LocksImplementSpinlock, RecExclusion, RecBookkeepingHolds, PTL

\* ... and that the LOCK of MCLocks is the lock of AbstractLock: spinlock.c and
\* monlock.c give it to one CPU at a time, whatever the number of CPUs.
THEOREM LocksImplementLock ==
    ASSUME L!SpinlockAssumption PROVE LocksSpec => ImplementsLock
<1>1. LP!SpinlockAssumption
  BY DEF L!SpinlockAssumption, LP!SpinlockAssumption
<1>2. LP!SpinlockSpec => LP!ImplementsLock
  BY <1>1, LP!SpinlockImplementsLock
<1>3. LP!OwnerIn(lockPc) = L!OwnerIn(lockPc) /\ LP!OwnerIn(lockPc') = L!OwnerIn(lockPc')
  BY DEF LP!OwnerIn, L!OwnerIn, LP!Owning, L!Owning, LP!Contexts, L!Contexts
<1>4. LP!Abstract!LockInit => L!Abstract!LockInit
  BY <1>3 DEF LP!Abstract!LockInit, L!Abstract!LockInit
<1>5. [LP!Abstract!LockNext]_(LP!OwnerIn(lockPc)) => [L!Abstract!LockNext]_(L!OwnerIn(lockPc))
  BY <1>3 DEF LP!Abstract!LockNext, L!Abstract!LockNext, LP!Abstract!Grant, L!Abstract!Grant,
              LP!Abstract!GiveBack, L!Abstract!GiveBack
<1> QED
  BY <1>2, <1>4, <1>5, LocksImplementSpinlock, PTL
  DEF LP!ImplementsLock, ImplementsLock, L!ImplementsLock, LP!Abstract!LockSpec, L!Abstract!LockSpec
=============================================================================
