--------------------------- MODULE ExecutiveProofs --------------------------
(***************************************************************************)
(* Proofs about what threads block on, as MCExecutive puts it together.    *)
(* Mutex is proved for any set of threads, any recursion limit and with    *)
(* threads that may be terminated at any moment; ExEvent, the E of         *)
(* MCExecutive, for either type of event and any sets of waiters and       *)
(* signallers; Storage, its D, has a proof module of its own, whose result *)
(* is taken over here.                                                     *)
(***************************************************************************)
EXTENDS MCExecutive, TLAPS

-----------------------------------------------------------------------------
(* The mutex.                                                              *)

\* Whoever is inside, leaving or just woken is the one Holder.
OwnerInv ==
    \A t \in Threads : pc[t] \in {"in", "unlock", "woken"} => Holder = t

\* The depth agrees with what the holder owes; a hand-over leaves it at 1.
DepthInv ==
    \A t \in Threads :
        /\ pc[t] = "in" => nesting[t] >= 1 /\ CurrentRecursivityDepth = nesting[t]
        /\ pc[t] = "woken" => CurrentRecursivityDepth = 1

\* The waiting list links, once each, only threads that cannot link themselves
\* anywhere else; a free mutex has no waiters.
QueueInv ==
    /\ \A i \in 1..Len(WaitingList) : pc[WaitingList[i]] \in {"blocked", "dead"}
    /\ \A i, j \in 1..Len(WaitingList) : WaitingList[i] = WaitingList[j] => i = j
    /\ FreeOnlyWithoutWaiters

\* The inductive invariant.
MutexInv == MutexTypeOK /\ OwnerInv /\ DepthInv /\ QueueInv

\* MutexInit establishes the inductive invariant.
LEMMA MutexInitInv == MutexInit => MutexInv
BY MutexAssumption
DEF MutexInit, MutexInv, MutexTypeOK, OwnerInv, DepthInv, QueueInv,
    FreeOnlyWithoutWaiters, Labels

\* Every step of MutexAcquire, MutexRelease and of a terminated thread keeps it.
LEMMA MutexStepInv == MutexInv /\ [MutexNext]_mutexVars => MutexInv'
<1> SUFFICES ASSUME MutexInv, [MutexNext]_mutexVars
             PROVE  MutexInv'
  OBVIOUS
<1> USE MutexAssumption
<1> USE DEF MutexInv, MutexTypeOK, OwnerInv, DepthInv, QueueInv,
            FreeOnlyWithoutWaiters, Labels, Goto
<1>1. ASSUME NEW t \in Threads, AcquireAgain(t) PROVE MutexInv'
  BY <1>1 DEF AcquireAgain
<1>2. ASSUME NEW t \in Threads, AcquireStart(t) PROVE MutexInv'
  BY <1>2 DEF AcquireStart
<1>3. ASSUME NEW t \in Threads, AcquireFree(t) PROVE MutexInv'
  BY <1>3 DEF AcquireFree
<1>4. ASSUME NEW t \in Threads, AcquireWait(t) PROVE MutexInv'
  <2>1. \A i \in 1..Len(WaitingList) : WaitingList[i] # t
    BY <1>4 DEF AcquireWait
  <2>2. /\ WaitingList' \in Seq(Threads)
        /\ Len(WaitingList') = Len(WaitingList) + 1
        /\ \A i \in 1..Len(WaitingList) : WaitingList'[i] = WaitingList[i]
        /\ WaitingList'[Len(WaitingList) + 1] = t
    BY <1>4 DEF AcquireWait
  <2>3. QueueInv'
    BY <1>4, <2>1, <2>2 DEF AcquireWait
  <2>4. MutexTypeOK' /\ OwnerInv' /\ DepthInv'
    BY <1>4, <2>2 DEF AcquireWait
  <2> QED
    BY <2>3, <2>4
<1>5. ASSUME NEW t \in Threads, AcquireHanded(t) PROVE MutexInv'
  BY <1>5 DEF AcquireHanded
<1>6. ASSUME NEW t \in Threads, ReleaseNested(t) PROVE MutexInv'
  BY <1>6 DEF ReleaseNested
<1>7. ASSUME NEW t \in Threads, ReleaseStart(t) PROVE MutexInv'
  BY <1>7 DEF ReleaseStart
<1>8. ASSUME NEW t \in Threads, ReleaseHand(t) PROVE MutexInv'
  <2> DEFINE next == Head(WaitingList)
  <2>1. /\ next = WaitingList[1] /\ next \in Threads
        /\ pc[next] \in {"blocked", "dead"} /\ next # t
    BY <1>8 DEF ReleaseHand
  <2>2. /\ WaitingList' \in Seq(Threads)
        /\ Len(WaitingList') = Len(WaitingList) - 1
        /\ \A i \in 1..Len(WaitingList') : WaitingList'[i] = WaitingList[i + 1]
    BY <1>8 DEF ReleaseHand
  <2>3. \A i \in 1..Len(WaitingList') : WaitingList'[i] # next /\ WaitingList'[i] # t
    BY <1>8, <2>1, <2>2 DEF ReleaseHand
  <2>4. Holder = t
    BY <1>8 DEF ReleaseHand
  <2>5. /\ pc' \in [Threads -> Labels]
        /\ \A u \in Threads :
               pc'[u] = IF u = t THEN "out"
                        ELSE IF u = next /\ pc[u] = "blocked" THEN "woken" ELSE pc[u]
    BY <1>8, <2>1 DEF ReleaseHand
  <2>6. Holder' = next /\ CurrentRecursivityDepth' = 1 /\ UNCHANGED <<nesting, doomed>>
    BY <1>8 DEF ReleaseHand
  <2> HIDE DEF next
  <2>7. MutexTypeOK'
    BY <2>1, <2>2, <2>5, <2>6
  <2>8. OwnerInv'
    BY <2>1, <2>4, <2>5, <2>6
  <2>9. DepthInv'
    BY <2>1, <2>4, <2>5, <2>6
  <2>10. QueueInv'
    <3>1. \A i \in 1..Len(WaitingList') : i + 1 \in 1..Len(WaitingList)
      BY <2>2
    <3>2. \A i \in 1..Len(WaitingList') : pc'[WaitingList'[i]] = pc[WaitingList[i + 1]]
      BY <2>2, <2>3, <2>5, <3>1
    <3>3. \A i, j \in 1..Len(WaitingList') : WaitingList'[i] = WaitingList'[j] => i = j
      <4> SUFFICES ASSUME NEW i \in 1..Len(WaitingList'), NEW j \in 1..Len(WaitingList'),
                          WaitingList'[i] = WaitingList'[j]
                   PROVE  i = j
        OBVIOUS
      <4>1. WaitingList[i + 1] = WaitingList[j + 1]
        BY <2>2
      <4>2. i + 1 = j + 1
        BY <3>1, <4>1
      <4>3. i \in Nat /\ j \in Nat
        BY <2>2
      <4> QED
        BY <4>2, <4>3
    <3>4. Holder' # Nobody
      BY <2>1, <2>6
    <3> QED
      BY <3>1, <3>2, <3>3, <3>4
  <2> QED
    BY <2>7, <2>8, <2>9, <2>10
<1>9. ASSUME NEW t \in Threads, ReleaseFree(t) PROVE MutexInv'
  BY <1>9 DEF ReleaseFree
<1>10. ASSUME NEW t \in Threads, ThreadTerminate(t) PROVE MutexInv'
  BY <1>10 DEF ThreadTerminate
<1>11. ASSUME NEW t \in Threads, ForcedExit(t) PROVE MutexInv'
  BY <1>11 DEF ForcedExit
<1>12. CASE UNCHANGED mutexVars
  BY <1>12 DEF mutexVars
<1> QED
  BY <1>1, <1>2, <1>3, <1>4, <1>5, <1>6, <1>7, <1>8, <1>9, <1>10, <1>11, <1>12
  DEF MutexNext, MutexStep

\* Holder, depth, waiting list and threads stay consistent at every step of
\* mutex.c, terminated threads included.
THEOREM MutexInvariant == MutexSpec => []MutexInv
BY MutexInitInv, MutexStepInv, PTL DEF MutexSpec

\* MutexTypeOK holds; in particular the BYTE that counts the depth never
\* exceeds MaxRecursivityDepth.
THEOREM MutexTypeCorrect == MutexSpec => []MutexTypeOK
BY MutexInvariant, PTL DEF MutexInv

\* Mutual exclusion.
THEOREM MutexIsExclusive == MutexSpec => []MutexExclusion
<1>1. MutexInv => MutexExclusion
  BY DEF MutexInv, OwnerInv, MutexExclusion
<1> QED
  BY <1>1, MutexInvariant, PTL

\* The depth, changed outside the MutexLock, is exact.
THEOREM MutexDepthExact == MutexSpec => []DepthIsNesting
<1>1. MutexInv => DepthIsNesting
  BY DEF MutexInv, OwnerInv, DepthInv, DepthIsNesting
<1> QED
  BY <1>1, MutexInvariant, PTL

\* The mutex goes from one holder straight to the next: no newcomer takes it in
\* front of a waiter, and MutexAcquire blocks at most once per call.
THEOREM MutexHandsOver == MutexSpec => []HandOver
<1>1. MutexInv => FreeOnlyWithoutWaiters
  BY DEF MutexInv, QueueInv
<1>2. MutexInv => WokenThreadIsHolder
  BY DEF MutexInv, OwnerInv, WokenThreadIsHolder
<1> QED
  BY <1>1, <1>2, MutexInvariant, PTL DEF HandOver

-----------------------------------------------------------------------------
(* The event.                                                              *)

\* Waiters and signallers are in their own functions, and the signaller inside
\* the critical section of ExEventSignal is the owner of the EventLock.
RolesInv ==
    /\ \A t \in Waiters : eventPc[t] \in {"out", "try", "link", "blocked", "woken"}
    /\ \A s \in Signallers : /\ eventPc[s] \in {"out", "wake", "unlock"}
                             /\ eventPc[s] # "out" <=> EventLock = s

\* The list holds the blocked threads, each once.
ListInv ==
    /\ \A i \in 1 .. Len(EventWaitingList) : eventPc[EventWaitingList[i]] = "blocked"
    /\ \A t \in Waiters : eventPc[t] = "blocked" => \E i \in 1 .. Len(EventWaitingList) : EventWaitingList[i] = t
    /\ \A i, j \in 1 .. Len(EventWaitingList) : EventWaitingList[i] = EventWaitingList[j] => i = j

\* The inductive invariant.
ExEventInv == E!ExEventTypeOK /\ RolesInv /\ ListInv /\ E!OnePassPerSignal

\* ExEventInit establishes the invariant, signaled or not.
LEMMA ExEventInitInv ==
    ASSUME E!ExEventAssumption PROVE E!ExEventInit => ExEventInv
BY DEF E!ExEventAssumption, E!ExEventInit, ExEventInv, E!ExEventTypeOK, RolesInv, ListInv,
       E!OnePassPerSignal, E!Labels, E!EventTypes, E!Count

\* Every step of ExEventWaitForSignal, ExEventSignal and ExEventClearSignal
\* keeps it.
LEMMA ExEventStepInv ==
    ASSUME E!ExEventAssumption PROVE ExEventInv /\ [E!ExEventNext]_E!eventVars => ExEventInv'
<1> SUFFICES ASSUME ExEventInv, [E!ExEventNext]_E!eventVars PROVE ExEventInv'
  OBVIOUS
<1> USE E!ExEventAssumption
<1> USE DEF E!ExEventAssumption, ExEventInv, E!ExEventTypeOK, RolesInv, ListInv, E!OnePassPerSignal,
            E!Labels, E!EventTypes, E!Count, E!Goto
<1>1. ASSUME NEW t \in Waiters, E!WaitStart(t) PROVE ExEventInv'
  BY <1>1 DEF E!WaitStart
<1>2. ASSUME NEW t \in Waiters, E!WaitTry(t) PROVE ExEventInv'
  <2>1. UNCHANGED <<EventType, EventLock, EventWaitingList, signals>> /\ eventPc[t] = "try"
    BY <1>2 DEF E!WaitTry
  <2>2. CASE EventSignaled
    <3>1. (EventSignaled' <=> EventType = "Notification") /\ EventSignaled' \in BOOLEAN
      BY <1>2, <2>2, Zenon DEF E!WaitTry
    <3>2. eventPc' = [eventPc EXCEPT ![t] = "out"] /\ returns' = E!Count(returns)
      BY <1>2, <2>2 DEF E!WaitTry
    <3>3. E!ExEventTypeOK' /\ RolesInv' /\ ListInv'
      BY <2>1, <3>1, <3>2
    <3>4. E!OnePassPerSignal'
      BY <2>1, <2>2, <3>1, <3>2
    <3> QED
      BY <3>3, <3>4
  <2>3. CASE ~EventSignaled
    <3>1. eventPc' = [eventPc EXCEPT ![t] = "link"] /\ UNCHANGED <<EventSignaled, returns>>
      BY <1>2, <2>3 DEF E!WaitTry
    <3> QED
      BY <2>1, <3>1
  <2> QED
    BY <2>2, <2>3
<1>3. ASSUME NEW t \in Waiters, E!WaitLink(t) PROVE ExEventInv'
  <2>1. \A i \in 1 .. Len(EventWaitingList) : EventWaitingList[i] # t
    BY <1>3 DEF E!WaitLink
  <2>2. /\ EventWaitingList' \in Seq(Waiters)
        /\ Len(EventWaitingList') = Len(EventWaitingList) + 1
        /\ \A i \in 1 .. Len(EventWaitingList) : EventWaitingList'[i] = EventWaitingList[i]
        /\ EventWaitingList'[Len(EventWaitingList) + 1] = t
    BY <1>3 DEF E!WaitLink
  <2>3. E!ExEventTypeOK' /\ RolesInv' /\ E!OnePassPerSignal'
    BY <1>3, <2>2 DEF E!WaitLink
  <2>4. ListInv'
    BY <1>3, <2>1, <2>2 DEF E!WaitLink
  <2> QED
    BY <2>3, <2>4
<1>4. ASSUME NEW t \in Waiters, E!WaitWoken(t) PROVE ExEventInv'
  BY <1>4 DEF E!WaitWoken
<1>5. ASSUME NEW s \in Signallers, E!Signal(s) PROVE ExEventInv'
  BY <1>5 DEF E!Signal
<1>6. ASSUME NEW s \in Signallers, E!SignalWake(s) PROVE ExEventInv'
  <2> DEFINE first == Head(EventWaitingList)
  <2>1. first = EventWaitingList[1] /\ first \in Waiters /\ first # s /\ eventPc[first] = "blocked"
    BY <1>6 DEF E!SignalWake
  <2>2. /\ EventWaitingList' \in Seq(Waiters)
        /\ Len(EventWaitingList') = Len(EventWaitingList) - 1
        /\ \A i \in 1 .. Len(EventWaitingList') : EventWaitingList'[i] = EventWaitingList[i + 1]
    BY <1>6 DEF E!SignalWake
  <2>3. /\ eventPc' \in [Waiters \union Signallers -> E!Labels]
        /\ \A p \in Waiters \union Signallers :
               eventPc'[p] = IF p = first THEN "woken"
                        ELSE IF p = s THEN (IF EventType = "Synchronization" THEN "unlock" ELSE "wake")
                        ELSE eventPc[p]
    BY <1>6, <2>1 DEF E!SignalWake
  <2>4. UNCHANGED <<EventType, EventSignaled, EventLock, signals, returns>> /\ eventPc[s] = "wake"
    BY <1>6 DEF E!SignalWake
  <2> HIDE DEF first
  <2>5. E!ExEventTypeOK' /\ RolesInv' /\ E!OnePassPerSignal'
    BY <2>1, <2>2, <2>3, <2>4
  <2>6. ListInv'
    <3>1. \A i \in 1 .. Len(EventWaitingList') :
              i \in Nat /\ i + 1 \in 1 .. Len(EventWaitingList) /\ EventWaitingList'[i] # first
      BY <2>1, <2>2
    <3>2. \A i \in 1 .. Len(EventWaitingList') : eventPc'[EventWaitingList'[i]] = "blocked"
      BY <2>2, <2>3, <3>1
    <3>3. ASSUME NEW u \in Waiters, eventPc'[u] = "blocked"
          PROVE  \E i \in 1 .. Len(EventWaitingList') : EventWaitingList'[i] = u
      <4>1. u # first /\ eventPc[u] = "blocked"
        BY <2>3, <3>3
      <4>2. PICK i \in 1 .. Len(EventWaitingList) : EventWaitingList[i] = u
        BY <4>1
      <4>3. i - 1 \in 1 .. Len(EventWaitingList') /\ EventWaitingList'[i - 1] = u
        BY <2>1, <2>2, <4>1, <4>2
      <4> QED
        BY <4>3
    <3>4. ASSUME NEW i \in 1 .. Len(EventWaitingList'), NEW j \in 1 .. Len(EventWaitingList'),
                 EventWaitingList'[i] = EventWaitingList'[j]
          PROVE  i = j
      <4>1. EventWaitingList[i + 1] = EventWaitingList[j + 1]
        BY <2>2, <3>4
      <4>2. i + 1 = j + 1
        BY <3>1, <4>1
      <4> QED
        BY <3>1, <4>2
    <3> QED
      BY <3>2, <3>3, <3>4
  <2> QED
    BY <2>5, <2>6
<1>7. ASSUME NEW s \in Signallers, E!SignalUnlock(s) PROVE ExEventInv'
  BY <1>7 DEF E!SignalUnlock
<1>8. ASSUME NEW s \in Signallers, E!ExEventClearSignal(s) PROVE ExEventInv'
  <2>1. E!ExEventTypeOK' /\ RolesInv' /\ ListInv'
    BY <1>8 DEF E!ExEventClearSignal
  <2>2. E!OnePassPerSignal'
    BY <1>8 DEF E!ExEventClearSignal
  <2> QED
    BY <2>1, <2>2
<1>9. CASE UNCHANGED E!eventVars
  BY <1>9 DEF E!eventVars
<1> QED
  BY <1>1, <1>2, <1>3, <1>4, <1>5, <1>6, <1>7, <1>8, <1>9 
  DEF E!ExEventNext, E!WaitStep, E!SignalStep

\* The EX_EVENT, its lock, its list and its threads stay consistent at every
\* step of ex_event.c.
THEOREM ExEventInvariant ==
    ASSUME E!ExEventAssumption PROVE E!ExEventSpec => []ExEventInv
BY ExEventInitInv, ExEventStepInv, PTL DEF E!ExEventSpec

\* No thread stays blocked off the waiting list of ex_event.c, none is linked
\* twice, and the EventLock is never left to a thread that goes to sleep.
THEOREM EventListIsExact ==
    ASSUME E!ExEventAssumption PROVE E!ExEventSpec => []BlockedThreadsAreListed
<1>1. ExEventInv => BlockedThreadsAreListed
  BY DEF ExEventInv, E!ExEventTypeOK, ListInv, BlockedThreadsAreListed, E!BlockedThreadsAreListed,
         E!IsInjective
<1> QED
  BY <1>1, ExEventInvariant, PTL

\* One call of ExEventSignal lets at most one thread through a synchronization
\* event, whichever of the passers-by and the woken wins the compare-exchange.
THEOREM EventPassesOncePerSignal ==
    ASSUME E!ExEventAssumption PROVE E!ExEventSpec => []OnePassPerSignal
<1>1. ExEventInv => OnePassPerSignal
  BY DEF ExEventInv, OnePassPerSignal
<1> QED
  BY <1>1, ExEventInvariant, PTL

-----------------------------------------------------------------------------
(* The three together.                                                     *)

\* The constants and the variables of the disk are those of MCExecutive's D.
DP == INSTANCE StorageProofs WITH
        Threads <- DiskThreads, Volumes <- {v1, v2},
        OffsetInDisk <- [v \in {v1, v2} |-> IF v = v1 THEN 1 ELSE 3],
        PartitionSize <- [v \in {v1, v2} |-> 2], TotalSectors <- 4,
        Requests <- SomeRequests

\* A behaviour of the system is one of its mutex and one of its event.
LEMMA ExecutiveImplementsMutexAndEvent == ExecutiveSpec => MutexSpec /\ E!ExEventSpec
<1>1. ExecutiveInit => MutexInit /\ E!ExEventInit
  BY DEF ExecutiveInit
<1>2. [ExecutiveNext]_<<object, mutexVars, eventVars, diskVars>> => [MutexNext]_mutexVars
  BY DEF ExecutiveNext
<1>3. [ExecutiveNext]_<<object, mutexVars, eventVars, diskVars>> => [E!ExEventNext]_E!eventVars
  BY DEF ExecutiveNext, eventVars, E!eventVars
<1> QED
  BY <1>1, <1>2, <1>3, PTL DEF ExecutiveSpec, MutexSpec, E!ExEventSpec

\* ... and one of its disk.
LEMMA ExecutiveImplementsDisk ==
    ExecutiveSpec => DP!StorageInit /\ [][DP!StorageNext]_DP!vars
<1>1. ExecutiveInit => DP!StorageInit
  BY DEF ExecutiveInit, D!StorageInit, DP!StorageInit, D!Devices, DP!Devices, D!Stack, DP!Stack,
         D!Out, DP!Out, D!NoTransfer, DP!NoTransfer
<1>2. D!StorageNext => DP!StorageNext
  <2> USE DEF D!Goto, DP!Goto, D!Stack, DP!Stack, D!Span, DP!Span, D!Out, DP!Out, D!NoTransfer,
              DP!NoTransfer, D!Enter, DP!Enter, D!Completed, DP!Completed,
              D!VolCheckIOParameters, DP!VolCheckIOParameters, D!Leaving, DP!Leaving,
              D!transferVars, DP!transferVars, D!FinishTransfer, DP!FinishTransfer
  <2>1. ASSUME NEW t \in DiskThreads, NEW r \in SomeRequests, D!Request(t, r)
        PROVE  DP!Request(t, r)
    BY <2>1 DEF D!Request, DP!Request
  <2>2. ASSUME NEW t \in DiskThreads, D!Acquire(t) PROVE DP!Acquire(t)
    BY <2>2 DEF D!Acquire, DP!Acquire, D!CallFilesystem, DP!CallFilesystem, D!CallVolume,
                DP!CallVolume, D!CallDisk, DP!CallDisk, D!CallAta, DP!CallAta
  <2>3. ASSUME NEW t \in DiskThreads, D!ThreadStep(t) PROVE DP!ThreadStep(t)
    BY <2>3 DEF D!ThreadStep, DP!ThreadStep, D!Leave, DP!Leave, D!TransferFails, DP!TransferFails,
                D!SynchronousTransfer, DP!SynchronousTransfer, D!StartDma, DP!StartDma,
                D!WaitTry, DP!WaitTry, D!WaitLink, DP!WaitLink, D!TransferReady, DP!TransferReady
  <2>4. ASSUME NEW c \in CPUs, D!TakeInterrupt(c) \/ D!FinishInterrupt(c)
        PROVE  DP!TakeInterrupt(c) \/ DP!FinishInterrupt(c)
    BY <2>4 DEF D!TakeInterrupt, DP!TakeInterrupt, D!FinishInterrupt, DP!FinishInterrupt,
                D!Interrupt, DP!Interrupt, D!InterruptNotHandled, DP!InterruptNotHandled,
                D!SignalReady, DP!SignalReady, D!ClearInterrupt, DP!ClearInterrupt
  <2>5. D!DeviceDone => DP!DeviceDone
    BY DEF D!DeviceDone, DP!DeviceDone
  <2> QED
    BY <2>1, <2>2, <2>3, <2>4, <2>5 DEF D!StorageNext, DP!StorageNext
<1>3. [ExecutiveNext]_<<object, mutexVars, eventVars, diskVars>> => [DP!StorageNext]_DP!vars
  BY <1>2 DEF ExecutiveNext, diskVars, DP!vars, DP!transferVars
<1> QED
  BY <1>1, <1>3, PTL DEF ExecutiveSpec

\* The asserts of ata_operations.c hold of the disk of MCExecutive, as they do
\* of any other.
THEOREM DiskAssertsHold ==
    ASSUME D!StorageAssumption PROVE ExecutiveSpec => []TransferAsserts
<1>1. DP!StorageAssumption
  BY DEF D!StorageAssumption, DP!StorageAssumption
<1>2. DP!StorageInit /\ [][DP!StorageNext]_DP!vars => []DP!TransferAsserts
  BY <1>1, DP!TransferAssertsHold
<1>3. DP!TransferAsserts => TransferAsserts
  BY DEF DP!TransferAsserts, TransferAsserts, D!TransferAsserts
<1> QED
  BY <1>2, <1>3, ExecutiveImplementsDisk, PTL

\* What MCExecutive's run checks of the three in every state: whatever threads
\* block on, it keeps its order.
THEOREM ExecutiveIsSafe ==
    ASSUME E!ExEventAssumption, D!StorageAssumption
    PROVE  ExecutiveSpec => [](/\ MutexExclusion /\ HandOver
                               /\ BlockedThreadsAreListed /\ OnePassPerSignal
                               /\ TransferAsserts)
BY MutexIsExclusive, MutexHandsOver, EventListIsExact, EventPassesOncePerSignal, DiskAssertsHold,
   ExecutiveImplementsMutexAndEvent, PTL
=============================================================================
