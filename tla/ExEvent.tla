------------------------------ MODULE ExEvent -------------------------------
(***************************************************************************)
(* The executive event of HAL9000/src/ex_event.c.                          *)
(*                                                                         *)
(* Waiters test and consume Signaled with a compare-exchange outside the   *)
(* EventLock; the waiting list is under the EventLock.  A signaller sets   *)
(* Signaled and empties the list (one thread for a synchronization event)  *)
(* under the EventLock.  ThreadBlock and ThreadUnblock are used as what    *)
(* Scheduler shows them to be: a thread linked under the EventLock stops   *)
(* and goes on only after somebody takes it off the list and unblocks it.  *)
(***************************************************************************)
EXTENDS Naturals, Sequences, FiniteSets, SequencesExt

CONSTANTS Waiters,       \* threads that call ExEventWaitForSignal
          Signallers,    \* threads and interrupt handlers that signal or clear
          Nobody,        \* no owner of the EventLock
          MaxCount       \* where the two history counters saturate

\* What the constants are assumed to be.
ExEventAssumption ==
    /\ Waiters \intersect Signallers = {} /\ Nobody \notin Waiters \union Signallers
    /\ MaxCount \in Nat

EventTypes == {"Notification", "Synchronization"}

VARIABLES EventType, Signaled, EventLock, WaitingList,   \* the EX_EVENT
          pc,                                 \* where each waiter and signaller is
          signals, returns                    \* history: Signal calls, finished waits

eventVars == <<EventType, Signaled, EventLock, WaitingList, pc, signals, returns>>

\* Waiters: out, try (at the compare-exchange), link (lost it), blocked, woken.
\* Signallers: out, wake (Signaled set, emptying the list), unlock.
Labels == {"out", "try", "link", "blocked", "woken", "wake", "unlock"}

Count(n) == IF n < MaxCount THEN n + 1 ELSE n
Goto(p, l) == pc' = [pc EXCEPT ![p] = l]

ExEventInit ==
    /\ EventType \in EventTypes
    /\ Signaled \in BOOLEAN /\ EventLock = Nobody /\ WaitingList = <<>>
    /\ pc = [p \in Waiters \union Signallers |-> "out"]
    /\ signals = (IF Signaled THEN Count(0) ELSE 0) /\ returns = 0

-----------------------------------------------------------------------------
(* ExEventWaitForSignal.                                                   *)

WaitStart(t) ==
    /\ pc[t] = "out" /\ Goto(t, "try")
    /\ UNCHANGED <<EventType, Signaled, EventLock, WaitingList, signals, returns>>

\* The compare-exchange: a set signal lets the thread pass and stays set only
\* for a notification event.
WaitTry(t) ==
    /\ pc[t] = "try"
    /\ \/ /\ Signaled
          /\ Signaled' = (EventType = "Notification")
          /\ returns' = Count(returns)
          /\ Goto(t, "out")
       \/ /\ ~Signaled /\ Goto(t, "link")
          /\ UNCHANGED <<Signaled, returns>>
    /\ UNCHANGED <<EventType, EventLock, WaitingList, signals>>

\* Link the thread, take its BlockLock, release the EventLock, ThreadBlock.
WaitLink(t) ==
    /\ pc[t] = "link" /\ EventLock = Nobody
    /\ WaitingList' = Append(WaitingList, t)
    /\ Goto(t, "blocked")
    /\ UNCHANGED <<EventType, Signaled, EventLock, signals, returns>>

\* Mutant. A woken thread passes whatever the type of the event.
WaitWokenPasses(t) ==
    /\ pc[t] = "woken"
    /\ Goto(t, "out") /\ returns' = Count(returns)
    /\ UNCHANGED <<EventType, Signaled, EventLock, WaitingList, signals>>

\* ThreadBlock returned: done for a notification event, else try again.
WaitWoken(t) ==
    /\ pc[t] = "woken"
    /\ \/ EventType = "Notification" /\ Goto(t, "out") /\ returns' = Count(returns)
       \/ EventType = "Synchronization" /\ Goto(t, "try") /\ UNCHANGED returns
    /\ UNCHANGED <<EventType, Signaled, EventLock, WaitingList, signals>>

-----------------------------------------------------------------------------
(* ExEventSignal and ExEventClearSignal.                                   *)

Signal(s) ==
    /\ pc[s] = "out" /\ EventLock = Nobody
    /\ EventLock' = s
    /\ Signaled' = TRUE
    /\ signals' = Count(signals)
    /\ Goto(s, "wake")
    /\ UNCHANGED <<EventType, WaitingList, returns>>

\* Mutant. The list is read but its head is not removed.
SignalWakePeek(s) ==
    /\ pc[s] = "wake" /\ WaitingList # <<>>
    /\ pc' = [pc EXCEPT ![Head(WaitingList)] = "woken", ![s] = "unlock"]
    /\ UNCHANGED <<EventType, Signaled, EventLock, WaitingList, signals, returns>>

\* Mutant. Only the last thread to arrive is woken.
SignalWakeLast(s) ==
    /\ pc[s] = "wake" /\ WaitingList # <<>>
    /\ WaitingList' = Front(WaitingList)
    /\ pc' = [pc EXCEPT ![Last(WaitingList)] = "woken", ![s] = "unlock"]
    /\ UNCHANGED <<EventType, Signaled, EventLock, signals, returns>>

\* RemoveHeadList and ThreadUnblock; a synchronization event stops after one.
SignalWake(s) ==
    /\ pc[s] = "wake" /\ WaitingList # <<>>
    /\ WaitingList' = Tail(WaitingList)
    /\ pc' = [pc EXCEPT ![Head(WaitingList)] = "woken",
                        ![s] = IF EventType = "Synchronization" THEN "unlock" ELSE "wake"]
    /\ UNCHANGED <<EventType, Signaled, EventLock, signals, returns>>

SignalUnlock(s) ==
    /\ pc[s] = "unlock" \/ (pc[s] = "wake" /\ WaitingList = <<>>)
    /\ EventLock' = Nobody
    /\ Goto(s, "out")
    /\ UNCHANGED <<EventType, Signaled, WaitingList, signals, returns>>

ExEventClearSignal(s) ==
    /\ pc[s] = "out" /\ Signaled' = FALSE
    /\ UNCHANGED <<EventType, EventLock, WaitingList, pc, signals, returns>>

-----------------------------------------------------------------------------
WaitStep(t) == WaitTry(t) \/ WaitLink(t) \/ WaitWoken(t)
SignalStep(s) == SignalWake(s) \/ SignalUnlock(s)

ExEventNext ==
    \/ \E t \in Waiters : WaitStart(t) \/ WaitStep(t)
    \/ \E s \in Signallers : Signal(s) \/ SignalStep(s) \/ ExEventClearSignal(s)

ExEventSpec == ExEventInit /\ [][ExEventNext]_eventVars

\* Threads inside a call go on.  The last conjunct is an assumption about the
\* users of the event, not about its code: signals keep coming.
ExEventFairSpec ==
    /\ ExEventSpec
    /\ \A t \in Waiters : WF_eventVars(WaitStep(t))
    /\ \A s \in Signallers : WF_eventVars(SignalStep(s))
    /\ SF_eventVars(\E s \in Signallers : Signal(s))

-----------------------------------------------------------------------------
(* Properties.                                                             *)

\* The EX_EVENT has its type: EventLock is only ever left held by a signaller,
\* never by a thread that goes to block in ExEventWaitForSignal.
ExEventTypeOK ==
    /\ EventType \in EventTypes
    /\ Signaled \in BOOLEAN
    /\ EventLock \in Signallers \union {Nobody}
    /\ WaitingList \in Seq(Waiters)
    /\ pc \in [Waiters \union Signallers -> Labels]
    /\ signals \in 0..MaxCount /\ returns \in 0..MaxCount

\* The waiting list holds exactly the blocked threads, each once: nobody stays
\* blocked off the list, nobody is linked twice through its one LIST_ENTRY.
BlockedThreadsAreListed ==
    /\ ExEventTypeOK
    /\ \A t \in Waiters :
           pc[t] = "blocked" <=> \E i \in DOMAIN WaitingList : WaitingList[i] = t
    /\ IsInjective(WaitingList)

\* One signal of a synchronization event lets at most one thread pass, however
\* the compare-exchange of passers-by and the wake-ups interleave.
OnePassPerSignal ==
    EventType = "Synchronization" /\ signals < MaxCount
        => returns + (IF Signaled THEN 1 ELSE 0) <= signals

\* As long as signals keep coming every blocked thread is woken, in spite of
\* threads that take the signal without waiting.
BlockedThreadIsWoken(t) == pc[t] = "blocked" ~> pc[t] = "woken"
BlockedThreadsAreWoken == \A t \in Waiters : BlockedThreadIsWoken(t)

\* "If the event is not signaled the calling thread will be placed in a waiting
\* list": once a signaller is done, nobody waits on a signaled notification event.
NobodyWaitsOnSignaledEvent ==
    EventType = "Notification" /\ Signaled /\ EventLock = Nobody => WaitingList = <<>>
=============================================================================
