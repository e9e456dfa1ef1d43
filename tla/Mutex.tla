------------------------------- MODULE Mutex --------------------------------
(***************************************************************************)
(* The mutex of HAL9000/src/mutex.c.                                       *)
(*                                                                         *)
(* Holder and CurrentRecursivityDepth are read, and the depth is changed,  *)
(* outside the MutexLock by a thread that finds itself the Holder; all     *)
(* else happens under the MutexLock, which is released only around         *)
(* ThreadBlock.  A release hands the mutex to the first waiter.            *)
(*                                                                         *)
(* ThreadTerminate dooms a thread; it exits at its next ThreadBlock or at  *)
(* the end of its time slice, wherever that finds it.                      *)
(***************************************************************************)
EXTENDS Naturals, Sequences, FiniteSets, SequencesExt

CONSTANTS Threads,
          Nobody,               \* a NULL Holder
          MaxRecursivityDepth,  \* 1, or MAX_BYTE for a recursive mutex
          Killable              \* the threads somebody may terminate

ASSUME MutexAssumption ==
    /\ Nobody \notin Threads
    /\ MaxRecursivityDepth \in Nat \ {0}
    /\ Killable \subseteq Threads

VARIABLES Holder, CurrentRecursivityDepth, WaitingList,  \* the MUTEX
          pc,        \* where each thread is
          nesting,   \* history: acquires each thread has not released yet
          doomed     \* the threads with THREAD_FLAG_FORCE_TERMINATE_PENDING

mutexVars == <<Holder, CurrentRecursivityDepth, WaitingList, pc, nesting, doomed>>

\* out: does not hold the mutex.  lock: found another Holder and goes for the
\* MutexLock.  blocked, woken: in ThreadBlock and back from it.  in: holds the
\* mutex.  unlock: on its way to give it up.  dead: exited.
Labels == {"out", "lock", "blocked", "woken", "in", "unlock", "dead"}

Goto(t, l) == pc' = [pc EXCEPT ![t] = l]

MutexInit ==
    /\ Holder = Nobody /\ CurrentRecursivityDepth = 0 /\ WaitingList = <<>>
    /\ pc = [t \in Threads |-> "out"]
    /\ nesting = [t \in Threads |-> 0]
    /\ doomed = {}

-----------------------------------------------------------------------------
(* MutexAcquire.                                                           *)

\* The unlocked test of Holder.  A thread acquires again only as deep as the
\* mutex allows: the assert in the code makes that the caller's duty.
AcquireAgain(t) ==
    /\ pc[t] = "in" /\ Holder = t /\ CurrentRecursivityDepth < MaxRecursivityDepth
    /\ CurrentRecursivityDepth' = CurrentRecursivityDepth + 1
    /\ nesting' = [nesting EXCEPT ![t] = @ + 1]
    /\ UNCHANGED <<Holder, WaitingList, pc, doomed>>

AcquireStart(t) ==
    /\ pc[t] = "out" /\ Holder # t
    /\ Goto(t, "lock")
    /\ UNCHANGED <<Holder, CurrentRecursivityDepth, WaitingList, nesting, doomed>>

\* Mutant. The mutex is taken without looking who has it.
AcquireFreeBlind(t) ==
    /\ pc[t] = "lock"
    /\ Holder' = t /\ CurrentRecursivityDepth' = 1
    /\ nesting' = [nesting EXCEPT ![t] = 1]
    /\ Goto(t, "in")
    /\ UNCHANGED <<WaitingList, doomed>>

AcquireFree(t) ==
    /\ pc[t] = "lock" /\ Holder = Nobody
    /\ Holder' = t /\ CurrentRecursivityDepth' = 1
    /\ nesting' = [nesting EXCEPT ![t] = 1]
    /\ Goto(t, "in")
    /\ UNCHANGED <<WaitingList, doomed>>

\* Mutant. The newcomer goes to the head of the waiting list.
AcquireWaitFirst(t) ==
    /\ pc[t] \in {"lock", "woken"} /\ Holder \notin {Nobody, t}
    /\ WaitingList' = <<t>> \o WaitingList
    /\ Goto(t, "blocked")
    /\ UNCHANGED <<Holder, CurrentRecursivityDepth, nesting, doomed>>

\* The body of the while loop, up to ThreadBlock, where a doomed thread dies
\* instead of waiting - already linked in the waiting list.
AcquireWait(t) ==
    /\ \/ pc[t] = "lock" /\ Holder \notin {Nobody, t}
       \/ pc[t] = "woken" /\ Holder # t
    /\ WaitingList' = Append(WaitingList, t)
    /\ Goto(t, IF t \in doomed THEN "dead" ELSE "blocked")
    /\ UNCHANGED <<Holder, CurrentRecursivityDepth, nesting, doomed>>

\* Back from ThreadBlock as the Holder.
AcquireHanded(t) ==
    /\ pc[t] = "woken" /\ Holder = t
    /\ nesting' = [nesting EXCEPT ![t] = 1]
    /\ Goto(t, "in")
    /\ UNCHANGED <<Holder, CurrentRecursivityDepth, WaitingList, doomed>>

-----------------------------------------------------------------------------
(* MutexRelease.                                                           *)

ReleaseNested(t) ==
    /\ pc[t] = "in" /\ CurrentRecursivityDepth > 1
    /\ CurrentRecursivityDepth' = CurrentRecursivityDepth - 1
    /\ nesting' = [nesting EXCEPT ![t] = @ - 1]
    /\ UNCHANGED <<Holder, WaitingList, pc, doomed>>

ReleaseStart(t) ==
    /\ pc[t] = "in" /\ CurrentRecursivityDepth <= 1
    /\ nesting' = [nesting EXCEPT ![t] = @ - 1]
    /\ Goto(t, "unlock")
    /\ UNCHANGED <<Holder, CurrentRecursivityDepth, WaitingList, doomed>>

\* Mutant. The waiter is woken but the mutex is left free for anybody.
ReleaseHandBarging(t) ==
    /\ pc[t] = "unlock" /\ WaitingList # <<>>
    /\ Holder' = Nobody
    /\ WaitingList' = Tail(WaitingList)
    /\ pc' = [pc EXCEPT ![t] = "out", ![Head(WaitingList)] = "woken"]
    /\ UNCHANGED <<CurrentRecursivityDepth, nesting, doomed>>

\* The first waiter becomes the Holder and is unblocked.  A dead one stays dead,
\* holding the mutex (a checked build stops at the assert in ThreadUnblock).
ReleaseHand(t) ==
    /\ pc[t] = "unlock" /\ WaitingList # <<>>
    /\ LET next == Head(WaitingList) IN
       /\ Holder' = next
       /\ pc' = [pc EXCEPT ![t] = "out", ![next] = IF @ = "blocked" THEN "woken" ELSE @]
    /\ CurrentRecursivityDepth' = 1
    /\ WaitingList' = Tail(WaitingList)
    /\ UNCHANGED <<nesting, doomed>>

ReleaseFree(t) ==
    /\ pc[t] = "unlock" /\ WaitingList = <<>>
    /\ Holder' = Nobody
    /\ Goto(t, "out")
    /\ UNCHANGED <<CurrentRecursivityDepth, WaitingList, nesting, doomed>>

-----------------------------------------------------------------------------
(* Termination from outside.                                               *)

ThreadTerminate(t) ==
    /\ t \in Killable /\ pc[t] # "dead"
    /\ doomed' = doomed \union {t}
    /\ UNCHANGED <<Holder, CurrentRecursivityDepth, WaitingList, pc, nesting>>

\* _ThreadForcedExit out of ThreadYield, called when a timer interrupt returns:
\* anywhere but in the part of MutexAcquire that runs with interrupts off.
ForcedExit(t) ==
    /\ t \in doomed /\ pc[t] \in {"out", "lock", "in", "unlock"}
    /\ Goto(t, "dead")
    /\ UNCHANGED <<Holder, CurrentRecursivityDepth, WaitingList, nesting, doomed>>

-----------------------------------------------------------------------------
\* The steps a thread inside MutexAcquire or MutexRelease, or holding the
\* mutex, sooner or later takes.
MutexStep(t) ==
    \/ AcquireFree(t) \/ AcquireWait(t) \/ AcquireHanded(t)
    \/ ReleaseNested(t) \/ ReleaseStart(t) \/ ReleaseHand(t) \/ ReleaseFree(t)

MutexNext ==
    \E t \in Threads :
        \/ AcquireStart(t) \/ AcquireAgain(t) \/ MutexStep(t)
        \/ ThreadTerminate(t) \/ ForcedExit(t)

MutexSpec == MutexInit /\ [][MutexNext]_mutexVars

\* Threads are scheduled (Scheduler shows that ready threads run) and leave
\* their critical sections.
MutexFairSpec ==
    /\ MutexSpec
    /\ \A t \in Threads : WF_mutexVars(MutexStep(t)) /\ SF_mutexVars(ReleaseStart(t))

-----------------------------------------------------------------------------
(* Properties.                                                             *)

\* The MUTEX has its type, and the depth that MutexAcquire counts in a BYTE never
\* exceeds MaxRecursivityDepth.
MutexTypeOK ==
    /\ Holder \in Threads \union {Nobody}
    /\ CurrentRecursivityDepth \in 0..MaxRecursivityDepth
    /\ WaitingList \in Seq(Threads)
    /\ pc \in [Threads -> Labels]
    /\ nesting \in [Threads -> 0..MaxRecursivityDepth]
    /\ doomed \subseteq Killable

\* Two threads are never between acquire and release at once.
MutexExclusion ==
    \A t, u \in Threads :
        pc[t] \in {"in", "unlock"} /\ pc[u] \in {"in", "unlock"} => t = u

\* The depth kept in the mutex, though changed without the MutexLock, is the
\* number of acquires its holder still has to release.
DepthIsNesting ==
    \A t \in Threads : pc[t] = "in" => Holder = t /\ CurrentRecursivityDepth = nesting[t]

\* "this will ensure fairness": the mutex is free only when nobody waits for
\* it, so no newcomer takes it in front of a waiter.
FreeOnlyWithoutWaiters == Holder = Nobody => WaitingList = <<>>

\* A woken thread finds itself the Holder: the while loop of MutexAcquire never
\* goes round a second time.
WokenThreadIsHolder == \A t \in Threads : pc[t] = "woken" => Holder = t

\* MutexRelease hands the mutex over: from one holder straight to the next.
HandOver == FreeOnlyWithoutWaiters /\ WokenThreadIsHolder

\* MutexRelease hands the mutex on: a thread that waits for it gets it, as long
\* as nobody is terminated - a forced exit gives up no mutex and leaves no list.
WaiterGetsMutex(t) == [](doomed = {}) => (pc[t] = "blocked" ~> pc[t] = "in")
WaitersGetMutex == \A t \in Threads : WaiterGetsMutex(t)
=============================================================================
