---------------------------- MODULE MCLifetimes -----------------------------
(***************************************************************************)
(* The lives of threads and of a process, for TLC: the scheduler of one    *)
(* CPU whose threads end and are terminated, and a process.  They share no *)
(* state, so a behaviour is one of one of them: object says which, and the *)
(* other rests in an initial state.                                        *)
(***************************************************************************)
EXTENDS Scheduler

CONSTANTS ProcessThreads, Main, Creator, Spawners,   \* of Process
          EarlyExit, MayFail, MayTerminate

VARIABLES object,
          ProcessRefCnt, NumberOfThreads, ActiveThreads, ThreadList,
          TerminationEvt, TerminationStatus, destroyed, life, threadRefs,
          step, making, creator, doomed, result, lastExit, missed

processVars == <<ProcessRefCnt, NumberOfThreads, ActiveThreads, ThreadList,
                 TerminationEvt, TerminationStatus, destroyed, life, threadRefs,
                 step, making, creator, doomed, result, lastExit, missed>>

P == INSTANCE Process WITH Threads <- ProcessThreads, RefCnt <- ProcessRefCnt

ASSUME P!ProcessAssumption

LifetimesInit ==
    /\ object \in {"process", "scheduler"}
    /\ ThreadSystemInit /\ P!ProcessInit
    /\ object # "scheduler" => CurrentThread = [c \in CPUs |-> CHOOSE t \in Threads : TRUE]

LifetimesNext ==
    /\ UNCHANGED object
    /\ \/ object = "process" /\ P!ProcessNext /\ UNCHANGED schedVars
       \/ object = "scheduler" /\ SchedulerNext /\ UNCHANGED processVars

\* The fairness of each module, for the object the behaviour is one of.
Of(o, A) == object = o /\ A

LifetimesFairness ==
    /\ WF_processVars(Of("process", P!CreatorStep))
    /\ \A t \in ProcessThreads : WF_processVars(Of("process", P!ThreadNext(t)))
    /\ \A a \in P!Actors : WF_processVars(Of("process", P!CreateStep(a)))
    /\ \A c \in CPUs : /\ WF_schedVars(Of("scheduler", SchedulerStep(c)))
                       /\ SF_schedVars(Of("scheduler", ThreadYield(c)))

LifetimesSpec ==
    /\ LifetimesInit
    /\ [][LifetimesNext]_<<object, processVars, schedVars>>
    /\ LifetimesFairness

-----------------------------------------------------------------------------
(* Properties of Process; Scheduler has its own.                           *)

\* The RefCnt of the PROCESS counts the handle of its creator and its life,
\* which ends with its last thread; it is destroyed once, without threads.
ProcessRefCntExact == P!ProcessRefCntExact

\* Once the process has terminated no thread of it executes, and whoever
\* waited for it is told the status of the thread that exited last.
TerminationIsFinal == P!TerminationIsFinal

\* ProcessWaitForTermination returns, if thread creations come to an end and the
\* one signal of TerminationEvt does not come between its test and its link.
WaitReturns == P!WaitReturns

\* A process whose handle is closed and whose threads ended is destroyed.
ProcessIsReclaimed == P!ProcessIsReclaimed
=============================================================================
