------------------------------ MODULE Process -------------------------------
(***************************************************************************)
(* The life of one user process: process.c, UmApplicationRun of            *)
(* um_application.c, and the parts of thread.c that insert threads into    *)
(* the process, end them and destroy them.                                 *)
(*                                                                         *)
(* The PROCESS keeps two counters.  ActiveThreads falls when a thread      *)
(* exits, and at zero the process has terminated.  NumberOfThreads falls   *)
(* when a thread object is destroyed, which the scheduler or whoever       *)
(* closes the last handle does later; at zero the process gives up the     *)
(* reference it was born with.                                             *)
(*                                                                         *)
(* ProcessCreate starts the main thread; ThreadCreateEx, which takes any   *)
(* process, may start more from within.  The ThreadListLock makes          *)
(* inserting, removing and the walk of ProcessTerminate atomic.            *)
(***************************************************************************)
EXTENDS Naturals, FiniteSets

CONSTANTS Threads, Main,   \* threads of the process, and the first of them
          Creator,         \* the thread of another process in ProcessCreate
          Nobody,
          Spawners,        \* the threads that may start others
          EarlyExit,       \* may the threads end before ProcessCreate returns?
          MayFail,         \* may memory or the file system let a creation down?
          MayTerminate     \* may ProcessTerminate be called?

ProcessAssumption ==
    /\ IsFiniteSet(Threads) /\ Main \in Threads /\ Spawners \subseteq Threads
    /\ Creator \notin Threads /\ Nobody \notin Threads \union {Creator}
    /\ {EarlyExit, MayFail, MayTerminate} \subseteq BOOLEAN

Actors == Threads \union {Creator}

VARIABLES
    RefCnt, NumberOfThreads, ActiveThreads, ThreadList,  \* the PROCESS;
    TerminationEvt, TerminationStatus,  \* the status: the thread it is from
    destroyed,        \* how often _ProcessDestroy has run
    life,             \* where each thread is
    threadRefs,       \* THREAD.RefCnt
    step, making,     \* where in ThreadCreateEx an actor is, and for which thread
    creator,          \* where the Creator is
    doomed,           \* threads with THREAD_FLAG_FORCE_TERMINATE_PENDING
    result,           \* what ProcessWaitForTermination returned
    lastExit,         \* history: the last thread to exit,
    missed            \* and that the Creator blocked after the signal

countVars == <<RefCnt, NumberOfThreads, ActiveThreads, ThreadList, destroyed>>
endVars == <<TerminationEvt, TerminationStatus, result, lastExit, missed>>
procVars == <<countVars, endVars, life, threadRefs, step, making, creator, doomed>>

\* setup: in ThreadCreateEx, not unblocked.  notify, last, signal: in ThreadExit
\* and ProcessNotifyThreadTermination.  dead: switched away from for good.
\* zombie: only a handle is left.  destroy, orphan: in _ThreadDestroy.
Lives == {"none", "setup", "run", "notify", "last", "signal", "dead", "zombie",
          "destroy", "orphan", "gone"}
Steps == {"idle", "setup", "close", "reap"}
\* waiting, link, blocked: in ExEventWaitForSignal.  status: it has returned.
Waiting == {"waiting", "link", "blocked", "status"}
CreatorStates == {"load", "abort", "failed", "created", "open", "waited", "closed"} \union Waiting

HasHandle == creator \in {"open", "waited"} \union Waiting

Live(t, l) == life' = [life EXCEPT ![t] = l]

\* RfcDereference, with _ProcessDestroy as its free function.
ProcessDereference ==
    /\ RefCnt' = RefCnt - 1
    /\ destroyed' = IF RefCnt = 1 THEN destroyed + 1 ELSE destroyed

ProcessInit ==
    /\ RefCnt = 1 /\ NumberOfThreads = 0 /\ ActiveThreads = 0 /\ ThreadList = {}
    /\ TerminationEvt = FALSE /\ TerminationStatus = Nobody /\ destroyed = 0
    /\ life = [t \in Threads |-> "none"] /\ threadRefs = [t \in Threads |-> 0]
    /\ step = [a \in Actors |-> "idle"] /\ making = [a \in Actors |-> Nobody]
    /\ creator = "load" /\ doomed = {} /\ result = Nobody /\ lastExit = Nobody
    /\ missed = FALSE

-----------------------------------------------------------------------------
(* ThreadCreateEx, and UmApplicationRun, which closes the handle it gets.  *)

Executes(a) == IF a = Creator THEN creator = "load" ELSE a \in Spawners /\ life[a] = "run"

\* _ThreadInit and ProcessInsertThreadInList, and the reference for the handle.
ProcessInsertThreadInList(a, t) ==
    /\ Executes(a) /\ step[a] = "idle" /\ life[t] = "none"
    /\ (a = Creator) <=> (t = Main)
    /\ NumberOfThreads' = NumberOfThreads + 1
    /\ ActiveThreads' = ActiveThreads + 1
    /\ ThreadList' = ThreadList \union {t}
    /\ RefCnt' = RefCnt + 1
    /\ threadRefs' = [threadRefs EXCEPT ![t] = 2]
    /\ Live(t, "setup")
    /\ step' = [step EXCEPT ![a] = "setup"] /\ making' = [making EXCEPT ![a] = t]
    /\ UNCHANGED <<destroyed, endVars, creator, doomed>>

\* The user stack or the initial state cannot be set up: ThreadCreateEx returns
\* the error, and leaves the thread where it is.
ThreadSetupFails(a) ==
    /\ MayFail /\ Executes(a) /\ step[a] = "setup"
    /\ step' = [step EXCEPT ![a] = "idle"] /\ making' = [making EXCEPT ![a] = Nobody]
    /\ creator' = IF a = Creator THEN "abort" ELSE creator
    /\ UNCHANGED <<countVars, endVars, life, threadRefs, doomed>>

\* ThreadUnblock at the end of ThreadCreateEx.
ThreadStarts(a) ==
    /\ Executes(a) /\ step[a] = "setup"
    /\ Live(making[a], "run")
    /\ step' = [step EXCEPT ![a] = "close"]
    /\ creator' = IF a = Creator THEN "created" ELSE creator
    /\ UNCHANGED <<countVars, endVars, threadRefs, making, doomed>>

CanGoOn(a) == a \in Threads => life[a] = "run"

ThreadCloseHandle(a) ==
    LET t == making[a] IN
    /\ CanGoOn(a) /\ step[a] = "close"
    /\ threadRefs' = [threadRefs EXCEPT ![t] = @ - 1]
    /\ IF threadRefs[t] = 1
       THEN /\ Live(t, "destroy") /\ step' = [step EXCEPT ![a] = "reap"]
            /\ UNCHANGED making
       ELSE /\ step' = [step EXCEPT ![a] = "idle"] /\ making' = [making EXCEPT ![a] = Nobody]
            /\ UNCHANGED life
    /\ UNCHANGED <<countVars, endVars, creator, doomed>>

\* The _ThreadDestroy that closing the handle led to has returned.
ThreadDestroyed(a) ==
    /\ CanGoOn(a) /\ step[a] = "reap" /\ life[making[a]] = "gone"
    /\ step' = [step EXCEPT ![a] = "idle"] /\ making' = [making EXCEPT ![a] = Nobody]
    /\ UNCHANGED <<countVars, endVars, life, threadRefs, creator, doomed>>

-----------------------------------------------------------------------------
(* ProcessCreate, ProcessWaitForTermination, ProcessCloseHandle.           *)

\* The executable cannot be read, or its address space not be made.
ProcessLoadFails ==
    /\ MayFail /\ creator = "load" /\ step[Creator] = "idle"
    /\ creator' = "abort"
    /\ UNCHANGED <<countVars, endVars, life, threadRefs, step, making, doomed>>

\* Mutant. The clean-up forgets what _ProcessInit made.
ProcessCreateAbortsLeaky ==
    /\ creator = "abort" /\ creator' = "failed"
    /\ UNCHANGED <<countVars, endVars, life, threadRefs, step, making, doomed>>

ProcessCreateAborts ==
    /\ creator = "abort" /\ creator' = "failed"
    /\ ProcessDereference
    /\ UNCHANGED <<NumberOfThreads, ActiveThreads, ThreadList, endVars, life, threadRefs,
                   step, making, doomed>>

\* The _ProcessReference for the handle - after the main thread was started.
ProcessCreateReturns ==
    /\ creator = "created" /\ step[Creator] = "idle"
    /\ RefCnt' = RefCnt + 1 /\ creator' = "open"
    /\ UNCHANGED <<NumberOfThreads, ActiveThreads, ThreadList, destroyed, endVars, life,
                   threadRefs, step, making, doomed>>

ProcessWaitForTermination ==
    /\ creator = "open" /\ creator' = "waiting"
    /\ UNCHANGED <<countVars, endVars, life, threadRefs, step, making, doomed>>

\* ExEventWaitForSignal tests TerminationEvt without its lock...
TestTerminationEvt ==
    /\ creator = "waiting"
    /\ creator' = IF TerminationEvt THEN "status" ELSE "link"
    /\ UNCHANGED <<countVars, endVars, life, threadRefs, step, making, doomed>>

\* ... and links and blocks the thread with the lock, but without a second test.
LinkToTerminationEvt ==
    /\ creator = "link" /\ creator' = "blocked"
    /\ missed' = TerminationEvt
    /\ UNCHANGED <<countVars, TerminationEvt, TerminationStatus, result, lastExit, life,
                   threadRefs, step, making, doomed>>

WaitForTerminationReturns ==
    /\ creator = "status"
    /\ creator' = "waited" /\ result' = TerminationStatus
    /\ UNCHANGED <<countVars, TerminationEvt, TerminationStatus, lastExit, missed, life,
                   threadRefs, step, making, doomed>>

ProcessCloseHandle ==
    /\ creator \in {"open", "waited"} /\ creator' = "closed"
    /\ ProcessDereference
    /\ UNCHANGED <<NumberOfThreads, ActiveThreads, ThreadList, endVars, life, threadRefs,
                   step, making, doomed>>

-----------------------------------------------------------------------------
(* The end of a thread: ProcessTerminate, ThreadExit,                      *)
(* ProcessNotifyThreadTermination.                                         *)

MayEnd(t) == life[t] = "run" /\ (EarlyExit \/ creator # "created")

\* Dooms all threads on the list; a caller among them exits at once.
ProcessTerminate(a) ==
    /\ MayTerminate /\ step[a] = "idle"
    /\ IF a = Creator THEN creator = "open" ELSE MayEnd(a)
    /\ doomed' = doomed \union (ThreadList \ {a})
    /\ IF a \in ThreadList THEN Live(a, "notify") ELSE UNCHANGED life
    /\ UNCHANGED <<countVars, endVars, threadRefs, step, making, creator>>

\* The thread's function returns.
ThreadReturns(t) ==
    /\ MayEnd(t) /\ step[t] = "idle"
    /\ Live(t, "notify")
    /\ UNCHANGED <<countVars, endVars, threadRefs, step, making, creator, doomed>>

\* The end of the time slice of a doomed thread, which may be in kernel code.
ThreadForcedExit(t) ==
    /\ MayEnd(t) /\ t \in doomed
    /\ Live(t, "notify")
    /\ UNCHANGED <<countVars, endVars, threadRefs, step, making, creator, doomed>>

ProcessNotifyThreadTermination(t) ==
    /\ life[t] = "notify"
    /\ ActiveThreads' = ActiveThreads - 1 /\ lastExit' = t
    /\ Live(t, IF ActiveThreads' = 0 THEN "last" ELSE "dead")
    /\ UNCHANGED <<RefCnt, NumberOfThreads, ThreadList, destroyed, TerminationEvt,
                   TerminationStatus, result, missed, threadRefs, step, making, creator, doomed>>

\* Mutant. The event is signaled first, the status stored afterwards.
SetStatusLate(t) ==
    /\ life[t] = "last"
    /\ TerminationEvt' = TRUE
    /\ Live(t, "signal")
    /\ UNCHANGED <<countVars, TerminationStatus, result, lastExit, missed, threadRefs, step, making,
                   creator, doomed>>

SetTerminationStatus(t) ==
    /\ life[t] = "last"
    /\ TerminationStatus' = t
    /\ Live(t, "signal")
    /\ UNCHANGED <<countVars, TerminationEvt, result, lastExit, missed, threadRefs, step, making,
                   creator, doomed>>

\* Mutant. The event is set, and nobody on its waiting list is unblocked.
SignalWakesNobody(t) ==
    /\ life[t] = "signal"
    /\ TerminationEvt' = TRUE
    /\ Live(t, "dead")
    /\ UNCHANGED <<countVars, TerminationStatus, result, lastExit, missed, threadRefs, step, making,
                   creator, doomed>>

\* ExEventSignal: a waiter that is linked is unblocked, and tests nothing more
\* ("we have no reason to check the state of the event again").
SignalTermination(t) ==
    /\ life[t] = "signal"
    /\ TerminationEvt' = TRUE
    /\ creator' = IF creator = "blocked" THEN "status" ELSE creator
    /\ Live(t, "dead")
    /\ UNCHANGED <<countVars, TerminationStatus, result, lastExit, missed, threadRefs, step, making,
                   doomed>>

-----------------------------------------------------------------------------
(* The end of a thread object: ThreadCleanupPostSchedule, _ThreadDestroy,  *)
(* ProcessRemoveThreadFromList.                                            *)

CleanupDereferences(t) ==
    /\ life[t] = "dead"
    /\ threadRefs' = [threadRefs EXCEPT ![t] = @ - 1]
    /\ Live(t, IF threadRefs[t] = 1 THEN "destroy" ELSE "zombie")
    /\ UNCHANGED <<countVars, endVars, step, making, creator, doomed>>

\* An actor in ThreadCloseHandle destroys a thread only as long as it lives.
Attended(t) == \A a \in Actors : step[a] = "reap" /\ making[a] = t => CanGoOn(a)

\* Mutant. The process never gives up its own reference.
RemoveThreadNeverOrphans(t) ==
    /\ life[t] = "destroy" /\ Attended(t)
    /\ NumberOfThreads' = NumberOfThreads - 1 /\ ThreadList' = ThreadList \ {t}
    /\ ProcessDereference
    /\ Live(t, "gone")
    /\ UNCHANGED <<ActiveThreads, endVars, threadRefs, step, making, creator, doomed>>

ProcessRemoveThreadFromList(t) ==
    /\ life[t] = "destroy" /\ Attended(t)
    /\ NumberOfThreads' = NumberOfThreads - 1 /\ ThreadList' = ThreadList \ {t}
    /\ ProcessDereference
    /\ Live(t, IF NumberOfThreads' = 0 THEN "orphan" ELSE "gone")
    /\ UNCHANGED <<ActiveThreads, endVars, threadRefs, step, making, creator, doomed>>

\* The last thread is off the list, which is unlocked: the second dereference.
DropInitialReference(t) ==
    /\ life[t] = "orphan" /\ Attended(t)
    /\ ProcessDereference
    /\ Live(t, "gone")
    /\ UNCHANGED <<NumberOfThreads, ActiveThreads, ThreadList, endVars, threadRefs, step,
                   making, creator, doomed>>

-----------------------------------------------------------------------------
CreatorNext ==
    \/ ProcessLoadFails \/ ProcessCreateAborts \/ ProcessCreateReturns
    \/ ProcessWaitForTermination \/ TestTerminationEvt \/ LinkToTerminationEvt
    \/ WaitForTerminationReturns \/ ProcessCloseHandle

ThreadNext(t) ==
    \/ ThreadReturns(t) \/ ThreadForcedExit(t)
    \/ ProcessNotifyThreadTermination(t) \/ SetTerminationStatus(t) \/ SignalTermination(t)
    \/ CleanupDereferences(t) \/ ProcessRemoveThreadFromList(t) \/ DropInitialReference(t)

CreateNext(a) ==
    \/ \E t \in Threads : ProcessInsertThreadInList(a, t)
    \/ ThreadSetupFails(a) \/ ThreadStarts(a) \/ ThreadCloseHandle(a) \/ ThreadDestroyed(a)

ProcessNext ==
    \/ CreatorNext
    \/ \E t \in Threads : ThreadNext(t)
    \/ \E a \in Actors : CreateNext(a) \/ ProcessTerminate(a)

ProcessSpec == ProcessInit /\ [][ProcessNext]_procVars

CreatorStep ==
    \/ ProcessCreateAborts \/ ProcessCreateReturns
    \/ TestTerminationEvt \/ LinkToTerminationEvt \/ WaitForTerminationReturns
CreateStep(a) ==
    ThreadSetupFails(a) \/ ThreadStarts(a) \/ ThreadCloseHandle(a) \/ ThreadDestroyed(a)

\* Every CPU goes on with what it does, and programs come to their end: the
\* thread's function returns.  Nobody has to start a thread, wait or close.
ProcessFairSpec ==
    /\ ProcessSpec
    /\ WF_procVars(CreatorStep)
    /\ \A t \in Threads : WF_procVars(ThreadNext(t))
    /\ \A a \in Actors : WF_procVars(CreateStep(a))

-----------------------------------------------------------------------------
\* The counters stay what a DWORD can hold without wrapping: no more threads
\* than were ever created, references for them, a handle and the process itself.
ProcessTypeOK ==
    /\ RefCnt \in 0..Cardinality(Threads) + 2
    /\ NumberOfThreads \in 0..Cardinality(Threads)
    /\ ActiveThreads \in 0..Cardinality(Threads)
    /\ ThreadList \subseteq Threads /\ doomed \subseteq Threads
    /\ {TerminationEvt, missed} \subseteq BOOLEAN
    /\ {TerminationStatus, result, lastExit} \subseteq Threads \union {Nobody}
    /\ destroyed \in 0..2
    /\ life \in [Threads -> Lives] /\ threadRefs \in [Threads -> 0..2]
    /\ step \in [Actors -> Steps] /\ making \in [Actors -> Threads \union {Nobody}]
    /\ creator \in CreatorStates

\* _ProcessDestroy: it runs once, when the handle is closed, no thread is on the
\* list and nobody will put one there ("It would be really weird if we could
\* destroy the process VAS while there are still some running threads").
DestroyedWithoutThreads ==
    destroyed > 0 =>
        /\ destroyed = 1 /\ ~HasHandle /\ NumberOfThreads = 0 /\ ActiveThreads = 0
        /\ \A t \in Threads : life[t] \in {"none", "orphan", "gone"}

\* ProcessInsertThreadInList, ProcessRemoveThreadFromList and ProcessCreate: the
\* references are those of the threads on the list, of the handle, and the one
\* the process is born with, until the last thread or a failed creation drops it;
\* it is destroyed when none is left, and then has no threads.
ProcessRefCntExact ==
    /\ ProcessTypeOK
    /\ DestroyedWithoutThreads
    /\ LET born == IF \/ creator = "failed"
                      \/ /\ life[Main] # "none" /\ ThreadList = {}
                         /\ \A t \in Threads : life[t] # "orphan"
                   THEN 0 ELSE 1
           handle == IF HasHandle THEN 1 ELSE 0
       IN RefCnt = Cardinality(ThreadList) + born + handle

\* ProcessCreate: the PROCESS is there until its handle is closed, though all
\* its threads terminate.
HandleIsValid == HasHandle => destroyed = 0

\* ProcessNotifyThreadTermination: once TerminationEvt is signaled no thread of
\* the process runs, is being created, or has still to count itself out.
TerminatedMeansNoThreads ==
    TerminationEvt => /\ ActiveThreads = 0
                      /\ \A t \in Threads : life[t] \notin {"setup", "run", "notify", "last"}

\* ProcessWaitForTermination: the status returned is that of the thread that was
\* the last to exit, never one not stored yet.
StatusIsOfLastThread == creator = "waited" => result # Nobody /\ result = lastExit

\* ProcessNotifyThreadTermination signals an end that is final, with its status.
TerminationIsFinal == TerminatedMeansNoThreads /\ StatusIsOfLastThread

\* No ThreadCreateEx comes to grief half-way: a thread that is set up has an
\* actor to start it, and no thread dies inside ThreadCreateEx or before it has
\* closed the handle it got.
CreationsFinish ==
    /\ \A t \in Threads : life[t] = "setup" => \E a \in Actors : making[a] = t
    /\ \A a \in Threads : step[a] # "idle" => life[a] = "run"

\* ProcessWaitForTermination: it returns once the threads' functions have, or
\* once ProcessTerminate was called, unless a thread was created by halves or the
\* process ended between the test of its TerminationEvt and the link of the waiter.
WaitReturns == []CreationsFinish => (creator = "waiting" ~> creator = "waited" \/ missed)

\* ProcessRemoveThreadFromList and ProcessCreate: once the handle is closed, or
\* the creation has failed, the process is destroyed when its threads have ended;
\* no reference is left behind, unless a thread was created by halves.
ProcessIsReclaimed ==
    []CreationsFinish => (creator \in {"closed", "failed"} ~> destroyed = 1)
=============================================================================
