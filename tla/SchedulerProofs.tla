--------------------------- MODULE SchedulerProofs --------------------------
(***************************************************************************)
(* Proofs about Scheduler, for any number of CPUs and any threads, of      *)
(* which the ones that wait on an event or mutex are not terminated while  *)
(* they do: a terminated waiter stays linked (see the README); about       *)
(* Process, for any finite set of threads, with creations that fail        *)
(* half-way and with threads that are terminated at any moment; and about  *)
(* MCLifetimes, where the scheduler and a process are together.            *)
(***************************************************************************)
EXTENDS MCLifetimes, FiniteSetTheorems, TLAPS

\* t is on the list s; no thread is on it twice.
Among(t, s) == \E i \in 1 .. Len(s) : s[i] = t
Distinct(s) == \A i, j \in 1 .. Len(s) : s[i] = s[j] => i = j

\* A waker has taken t off its waiting list and not queued it yet.
Woken(c, t) == target[c] = t /\ pc[c] \in {"wake", "ready"}

\* A CPU holds ReadyThreadsLock from the end of ThreadYield, ThreadBlock or
\* ThreadExit to ThreadCleanupPostSchedule, and a waiter the lock of its list
\* until it has its BlockLock.
LockInv ==
    \A c \in CPUs : /\ ReadyThreadsLock = c <=> pc[c] \in {"schedule", "switch", "cleanup"}
                    /\ pc[c] = "link" => WaitLock = c

\* A CPU executes a thread or its own idle thread, knows the thread it came
\* from while it cleans up after it, and blocks only waiters and its idle thread.
CpuInv ==
    \A c \in CPUs :
        /\ Cur(c) \in Threads \union {c}
        /\ pc[c] \in {"switch", "cleanup", "reap"} => PreviousThread[c] \in Threads \union {c}
        /\ pc[c] = "switch" => PreviousThread[c] # Cur(c)
        /\ pc[c] = "link" => Cur(c) \in Waiters
        /\ pc[c] = "exit" => Cur(c) \in Threads
        /\ pc[c] = "block" => Cur(c) \in Waiters \union {c}
        /\ pc[c] \in {"wake", "ready", "woken"} => target[c] \in Threads

\* The state of the thread that a CPU executes, and where else that thread is.
CurrentInv ==
    \A c \in CPUs, t \in Threads : Cur(c) = t =>
        /\ pc[c] \notin {"away", "schedule"} => State[t] \in {"Running", "Ready"}
        /\ pc[c] = "away" => State[t] \in {"Blocked", "Dying"}
        /\ pc[c] = "schedule" => \/ State[t] \in {"Blocked", "Dying"}
                                 \/ State[t] = "Ready" /\ Among(t, ReadyThreadsList)
        /\ State[t] = "Blocked" \/ pc[c] = "block" => BlockLock[t] = c
        /\ pc[c] = "link" => Among(t, WaitingList)
        /\ pc[c] = "block" => Among(t, WaitingList) \/ \E d \in CPUs : Woken(d, t)

\* No two CPUs are concerned with one thread, nor does one choose a thread that
\* another has not yet switched away from.
ApartInv ==
    \A c, d \in CPUs : c # d => /\ Cur(c) # Cur(d)
                                /\ pc[c] = "switch" => PreviousThread[c] # Cur(d)

\* A BlockLock is held by the CPU that blocks the thread, until the next thread
\* has cleaned up, or by the one that unblocks it.
BlockInv ==
    /\ \A t \in AllThreads : BlockLock[t] # Nobody =>
           LET c == BlockLock[t] IN
           \/ Cur(c) = t /\ pc[c] = "block"
           \/ Cur(c) = t /\ pc[c] \in {"away", "schedule"} /\ State[t] = "Blocked"
           \/ PreviousThread[c] = t /\ pc[c] \in {"switch", "cleanup", "reap"} /\ State[t] = "Blocked"
           \/ target[c] = t /\ pc[c] \in {"ready", "woken"}
    /\ \A c \in CPUs : pc[c] \in {"ready", "woken"} => BlockLock[target[c]] = c
    /\ \A c \in CPUs : pc[c] = "ready" => State[target[c]] = "Blocked"

\* Threads in the ready list are ready, and executed only by a CPU in the course
\* of leaving them.
ReadyInv ==
    /\ Distinct(ReadyThreadsList)
    /\ \A t \in Threads : Among(t, ReadyThreadsList) =>
           /\ State[t] = "Ready"
           /\ \A c \in CPUs : Cur(c) = t => pc[c] = "schedule"

\* Threads in a waiting list, or in the hands of a waker, are blocked or about
\* to be; the wakers' targets are their own.
WaitInv ==
    /\ Distinct(WaitingList)
    /\ \A t \in Threads : Among(t, WaitingList) =>
           State[t] = "Blocked" \/ \E c \in CPUs : Cur(c) = t /\ pc[c] \in {"link", "block"}
    /\ \A c \in CPUs : pc[c] = "wake" =>
           \/ State[target[c]] = "Blocked"
           \/ \E d \in CPUs : Cur(d) = target[c] /\ pc[d] = "block"
    /\ \A c \in CPUs, t \in Threads : Woken(c, t) =>
           ~Among(t, WaitingList) /\ \A d \in CPUs : Woken(d, t) => d = c

\* Every live thread is somewhere.
PlaceInv ==
    \A t \in Threads :
        /\ State[t] = "Running" => \E c \in CPUs : Cur(c) = t
        /\ State[t] = "Ready" => Among(t, ReadyThreadsList) \/ \E c \in CPUs : Cur(c) = t
        /\ State[t] = "Blocked" => Among(t, WaitingList) \/ \E c \in CPUs : Woken(c, t)

\* The context of a thread is in memory exactly while no CPU executes it.
SavedInv ==
    /\ \A c \in CPUs : State[c] # "none" /\ State[Executing(c)] # "none"
    /\ \A t \in AllThreads :
           State[t] # "none" => (saved[t] <=> \A c \in CPUs : Executing(c) # t)

\* Only threads that somebody may terminate are doomed.
FlagsInv == \A t \in AllThreads \ Killable : Flags[t] = {}

\* The inductive invariant.
SchedulerInv ==
    /\ SchedulerTypeOK /\ LockInv /\ CpuInv /\ CurrentInv /\ ApartInv /\ BlockInv
    /\ ReadyInv /\ WaitInv /\ PlaceInv /\ SavedInv /\ FlagsInv

-----------------------------------------------------------------------------
(* Lists.                                                                  *)

\* InsertTailList of a thread that is not on the list.
LEMMA AppendedList ==
    ASSUME NEW S, NEW s \in Seq(S), NEW x \in S
    PROVE  /\ Append(s, x) \in Seq(S)
           /\ \A t : Among(t, Append(s, x)) <=> Among(t, s) \/ t = x
           /\ Distinct(s) /\ ~Among(x, s) => Distinct(Append(s, x))
<1>1. /\ Append(s, x) \in Seq(S) /\ Len(Append(s, x)) = Len(s) + 1 /\ Len(s) \in Nat
      /\ Append(s, x)[Len(s) + 1] = x
      /\ \A i \in 1 .. Len(s) : Append(s, x)[i] = s[i]
  OBVIOUS
<1> QED
  BY <1>1 DEF Among, Distinct

\* RemoveHeadList.
LEMMA TailOfList ==
    ASSUME NEW S, NEW s \in Seq(S), s # <<>>, Distinct(s)
    PROVE  /\ Tail(s) \in Seq(S) /\ Head(s) \in S
           /\ Among(Head(s), s)
           /\ \A t : Among(t, Tail(s)) <=> Among(t, s) /\ t # Head(s)
           /\ Distinct(Tail(s))
<1>1. /\ Tail(s) \in Seq(S) /\ Len(Tail(s)) = Len(s) - 1 /\ Len(s) \in Nat /\ Len(s) >= 1
      /\ Head(s) = s[1] /\ Head(s) \in S
      /\ \A i \in 1 .. Len(Tail(s)) : Tail(s)[i] = s[i + 1]
  OBVIOUS
<1>2. Among(Head(s), s)
  BY <1>1 DEF Among
<1>3. ASSUME NEW t PROVE Among(t, Tail(s)) <=> Among(t, s) /\ t # Head(s)
  <2>1. ASSUME NEW i \in 1 .. Len(Tail(s)), Tail(s)[i] = t PROVE Among(t, s) /\ t # Head(s)
    <3>1. i + 1 \in 1 .. Len(s) /\ s[i + 1] = t /\ 1 \in 1 .. Len(s) /\ i + 1 # 1
      BY <1>1, <2>1
    <3> QED
      BY <1>1, <3>1 DEF Among, Distinct
  <2>2. ASSUME NEW i \in 1 .. Len(s), s[i] = t, t # Head(s) PROVE Among(t, Tail(s))
    <3>1. i - 1 \in 1 .. Len(Tail(s)) /\ Tail(s)[i - 1] = t
      BY <1>1, <2>2
    <3> QED
      BY <3>1 DEF Among
  <2> QED
    BY <2>1, <2>2 DEF Among
<1>4. Distinct(Tail(s))
  <2> SUFFICES ASSUME NEW i \in 1 .. Len(Tail(s)), NEW j \in 1 .. Len(Tail(s)), Tail(s)[i] = Tail(s)[j]
               PROVE  i = j
    BY DEF Distinct
  <2>1. i + 1 \in 1 .. Len(s) /\ j + 1 \in 1 .. Len(s) /\ s[i + 1] = s[j + 1]
    BY <1>1
  <2>2. i + 1 = j + 1
    BY <2>1 DEF Distinct
  <2> QED
    BY <1>1, <2>2
<1> QED
  BY <1>1, <1>2, <1>3, <1>4

\* How often a thread is on a list that has nobody twice.
LEMMA CountOnList ==
    ASSUME NEW S, NEW s \in Seq(S), Distinct(s), NEW t
    PROVE  Cardinality({i \in DOMAIN s : s[i] = t}) = IF Among(t, s) THEN 1 ELSE 0
<1>0. DOMAIN s = 1 .. Len(s)
  OBVIOUS
<1>1. CASE Among(t, s)
  <2>1. PICK i \in 1 .. Len(s) : s[i] = t
    BY <1>1 DEF Among
  <2>2. {j \in DOMAIN s : s[j] = t} = {i}
    BY <1>0, <2>1 DEF Distinct
  <2> QED
    BY <1>1, <2>2, FS_Singleton
<1>2. CASE ~Among(t, s)
  <2>1. {j \in DOMAIN s : s[j] = t} = {}
    BY <1>0, <1>2 DEF Among
  <2> QED
    BY <1>2, <2>1, FS_EmptySet
<1> QED
  BY <1>1, <1>2

-----------------------------------------------------------------------------
(* Every step of the scheduler keeps the invariant.  Under each action: l, *)
(* what it does to a list; f, what else it reads and changes; g, the data  *)
(* that only types and flags depend on; x, who executes; w, who is in the  *)
(* hands of a waker; m, n, what the invariant says of the threads it is    *)
(* about.                                                                  *)

\* ThreadYield, ThreadBlock, ThreadUnblock, ThreadExit, _ThreadSchedule and
\* ThreadCleanupPostSchedule keep the invariant, unless a waiter is terminated.
LEMMA SchedulerStepInv ==
    ASSUME Killable \intersect Waiters = {}
    PROVE  SchedulerInv /\ [SchedulerNext]_schedVars => SchedulerInv'
<1> SUFFICES ASSUME SchedulerInv, [SchedulerNext]_schedVars PROVE SchedulerInv'
  OBVIOUS
<1> USE SchedulerAssumption DEF SchedulerAssumption, AllThreads, Cur
<1>0. /\ SchedulerTypeOK /\ LockInv /\ CpuInv /\ CurrentInv /\ ApartInv /\ BlockInv
      /\ ReadyInv /\ WaitInv /\ PlaceInv /\ SavedInv /\ FlagsInv
  BY DEF SchedulerInv
<1>t. /\ CurrentThread \in [CPUs -> AllThreads]
      /\ PreviousThread \in [CPUs -> AllThreads \union {Nobody}]
      /\ State \in [AllThreads -> {"none", "Running", "Ready", "Blocked", "Dying"}]
      /\ saved \in [AllThreads -> BOOLEAN]
      /\ ReadyThreadsList \in Seq(Threads)
      /\ WaitingList \in Seq(Threads)
      /\ BlockLock \in [AllThreads -> CPUs \union {Nobody}]
      /\ pc \in [CPUs -> Labels]
      /\ target \in [CPUs -> Threads \union {Nobody}]
  BY <1>0 DEF SchedulerTypeOK
<1> USE <1>0, <1>t DEF Labels
<1>1. ASSUME NEW c \in CPUs, NEW t \in Threads, ThreadCreate(c, t) PROVE SchedulerInv'
  <2>f. /\ pc[c] = "run" /\ Cur(c) \in Threads /\ State[t] = "none"
        /\ State' = [State EXCEPT ![t] = "Blocked"]
        /\ saved' = [saved EXCEPT ![t] = TRUE]
        /\ target' = [target EXCEPT ![c] = t]
        /\ pc' = [pc EXCEPT ![c] = "wake"]
        /\ UNCHANGED <<CurrentThread, PreviousThread, ReadyThreadsList, ReadyThreadsLock,
                       BlockLock, WaitingList, WaitLock>>
    BY <1>1 DEF ThreadCreate, Goto, At, waitVars, threadVars, cpuVars
  <2>g. /\ Flags' \in [AllThreads -> SUBSET {"TerminatePending", "Terminated"}]
        /\ RefCnt' \in [AllThreads -> Int] /\ handle' \subseteq Threads /\ FlagsInv'
    BY <1>1 DEF ThreadCreate, SchedulerTypeOK, FlagsInv, threadVars
  <2>x. \A d \in CPUs : Executing(d)' = Executing(d)
    BY <2>f DEF Executing, At
  <2>w. \A d \in CPUs, u \in Threads : Woken(d, u)' <=> (d = c /\ u = t) \/ Woken(d, u)
    BY <2>f DEF Woken
  <2>m. /\ ~Among(t, WaitingList) /\ ~Among(t, ReadyThreadsList)
        /\ \A d \in CPUs : ~Woken(d, t) /\ Cur(d) # t
    <3>1. \A d \in CPUs : Cur(d) # t
      BY <2>f DEF CurrentInv
    <3> QED
      BY <2>f, <3>1 DEF WaitInv, BlockInv, ReadyInv, Woken
  <2>1. SchedulerTypeOK'
    BY <2>f, <2>g DEF SchedulerTypeOK, CpuInv
  <2>2. LockInv'
    BY <2>f DEF LockInv
  <2>3. CpuInv'
    BY <2>f DEF CpuInv
  <2>4. CurrentInv'
    BY <2>f, <2>w, <2>m DEF CurrentInv, ApartInv, CpuInv
  <2>5. ApartInv'
    BY <2>f DEF ApartInv, LockInv, CpuInv
  <2>6. BlockInv'
    BY <2>f, <2>m DEF BlockInv, ApartInv, CurrentInv, CpuInv
  <2>7. ReadyInv'
    BY <2>f, <2>m DEF ReadyInv, ApartInv, CurrentInv, CpuInv
  <2>8. WaitInv'
    <3>1. Distinct(WaitingList')
      BY <2>f, <2>w, <2>m DEF WaitInv, ApartInv, CurrentInv, CpuInv
    <3>2. \A u \in Threads : Among(u, WaitingList') =>
              \/ State'[u] = "Blocked"
              \/ \E d \in CPUs : CurrentThread'[d] = u /\ pc'[d] \in {"link", "block"}
      BY <2>f, <2>w, <2>m DEF WaitInv, ApartInv, CurrentInv, CpuInv
    <3>3. \A d \in CPUs : pc'[d] = "wake" =>
              \/ State'[target'[d]] = "Blocked"
              \/ \E e \in CPUs : CurrentThread'[e] = target'[d] /\ pc'[e] = "block"
      BY <2>f, <2>w, <2>m DEF WaitInv, ApartInv, CurrentInv, CpuInv
    <3>4. \A d \in CPUs, u \in Threads : Woken(d, u)' =>
              ~Among(u, WaitingList') /\ \A e \in CPUs : Woken(e, u)' => e = d
      BY <2>f, <2>w, <2>m DEF WaitInv, ApartInv, CurrentInv, CpuInv
    <3> QED
      BY <3>1, <3>2, <3>3, <3>4 DEF WaitInv
  <2>9. PlaceInv'
    BY <2>f, <2>w, <2>m DEF PlaceInv, CpuInv
  <2>10. SavedInv'
    BY <2>f, <2>x DEF SavedInv
  <2>11. FlagsInv'
    BY <2>g
  <2> QED
    BY <2>1, <2>2, <2>3, <2>4, <2>5, <2>6, <2>7, <2>8, <2>9, <2>10, <2>11 DEF SchedulerInv
<1>2. ASSUME NEW c \in CPUs, NEW t \in Threads, ThreadTerminate(c, t) PROVE SchedulerInv'
  <2>f. UNCHANGED <<CurrentThread, PreviousThread, State, saved, ReadyThreadsList, ReadyThreadsLock,
                    BlockLock, WaitingList, WaitLock, target, pc>>
    BY <1>2 DEF ThreadTerminate, Goto, At, waitVars, threadVars, cpuVars
  <2>g. /\ Flags' \in [AllThreads -> SUBSET {"TerminatePending", "Terminated"}]
        /\ RefCnt' \in [AllThreads -> Int] /\ handle' \subseteq Threads /\ FlagsInv'
    BY <1>2 DEF ThreadTerminate, SchedulerTypeOK, FlagsInv, threadVars
  <2>x. \A d \in CPUs : Executing(d)' = Executing(d)
    BY <2>f DEF Executing, At
  <2>w. \A d \in CPUs, u \in Threads : Woken(d, u)' <=> Woken(d, u)
    BY <2>f DEF Woken
  <2> QED
    BY <2>f, <2>g, <2>x, <2>w DEF SchedulerInv, SchedulerTypeOK, LockInv, CpuInv, CurrentInv,
       ApartInv,
                        BlockInv, ReadyInv, WaitInv, PlaceInv, SavedInv
<1>3. ASSUME NEW c \in CPUs, NEW t \in Threads, ThreadCloseHandle(c, t) PROVE SchedulerInv'
  <2>f. UNCHANGED <<CurrentThread, PreviousThread, State, saved, ReadyThreadsList, ReadyThreadsLock,
                    BlockLock, WaitingList, WaitLock, target, pc>>
    BY <1>3 DEF ThreadCloseHandle, Goto, At, waitVars, threadVars, cpuVars
  <2>g. /\ Flags' \in [AllThreads -> SUBSET {"TerminatePending", "Terminated"}]
        /\ RefCnt' \in [AllThreads -> Int] /\ handle' \subseteq Threads /\ FlagsInv'
    BY <1>3 DEF ThreadCloseHandle, SchedulerTypeOK, FlagsInv, threadVars
  <2>x. \A d \in CPUs : Executing(d)' = Executing(d)
    BY <2>f DEF Executing, At
  <2>w. \A d \in CPUs, u \in Threads : Woken(d, u)' <=> Woken(d, u)
    BY <2>f DEF Woken
  <2> QED
    BY <2>f, <2>g, <2>x, <2>w DEF SchedulerInv, SchedulerTypeOK, LockInv, CpuInv, CurrentInv,
       ApartInv,
                        BlockInv, ReadyInv, WaitInv, PlaceInv, SavedInv
<1>4. ASSUME NEW c \in CPUs, ThreadYield(c) PROVE SchedulerInv'
  <2>f. PICK l :
        /\ l \in {"exit", "yield"} /\ (l = "exit" => Cur(c) \in Threads)
        /\ pc[c] = "run"
        /\ pc' = [pc EXCEPT ![c] = l]
        /\ UNCHANGED <<CurrentThread, PreviousThread, State, saved, ReadyThreadsList,
                       ReadyThreadsLock, BlockLock, WaitingList, WaitLock, target>>
    BY <1>4 DEF ThreadYield, Goto, At, waitVars, FlagsInv, Doomed
  <2>g. /\ Flags' \in [AllThreads -> SUBSET {"TerminatePending", "Terminated"}]
        /\ RefCnt' \in [AllThreads -> Int] /\ handle' \subseteq Threads /\ FlagsInv'
    <3>1. CASE Doomed(Cur(c))
      <4>1. Cur(c) \in Killable
        BY <3>1 DEF Doomed, FlagsInv
      <4>2. Flags \in [AllThreads -> SUBSET {"TerminatePending", "Terminated"}]
        BY DEF SchedulerTypeOK
      <4>3. Flags' = [Flags EXCEPT ![Cur(c)] = @ \union {"Terminated"}]
        BY <1>4, <3>1 DEF ThreadYield
      <4>4. Flags' \in [AllThreads -> SUBSET {"TerminatePending", "Terminated"}]
        BY <4>2, <4>3
      <4>5. FlagsInv'
        BY <4>1, <4>2, <4>3 DEF FlagsInv
      <4> QED
        BY <1>4, <4>4, <4>5 DEF ThreadYield, SchedulerTypeOK
    <3>2. CASE ~Doomed(Cur(c))
      BY <1>4, <3>2 DEF ThreadYield, SchedulerTypeOK, FlagsInv
    <3> QED
      BY <3>1, <3>2
  <2>x. \A d \in CPUs : Executing(d)' = Executing(d)
    BY <2>f DEF Executing, At
  <2>w. \A d \in CPUs, u \in Threads : Woken(d, u)' <=> Woken(d, u)
    BY <2>f DEF Woken
  <2>1. SchedulerTypeOK'
    BY <2>f, <2>g DEF SchedulerTypeOK, CpuInv
  <2>2. LockInv'
    BY <2>f DEF LockInv
  <2>3. CpuInv'
    BY <2>f DEF CpuInv
  <2>4. CurrentInv'
    BY <2>f, <2>w DEF CurrentInv, ApartInv, CpuInv
  <2>5. ApartInv'
    BY <2>f DEF ApartInv, LockInv, CpuInv
  <2>6. BlockInv'
    BY <2>f DEF BlockInv, ApartInv, CurrentInv, CpuInv
  <2>7. ReadyInv'
    BY <2>f DEF ReadyInv, ApartInv, CurrentInv, CpuInv
  <2>8. WaitInv'
    <3>1. Distinct(WaitingList')
      BY <2>f, <2>w DEF WaitInv, ApartInv, CurrentInv, CpuInv
    <3>2. \A u \in Threads : Among(u, WaitingList') =>
              \/ State'[u] = "Blocked"
              \/ \E d \in CPUs : CurrentThread'[d] = u /\ pc'[d] \in {"link", "block"}
      BY <2>f, <2>w DEF WaitInv, ApartInv, CurrentInv, CpuInv
    <3>3. \A d \in CPUs : pc'[d] = "wake" =>
              \/ State'[target'[d]] = "Blocked"
              \/ \E e \in CPUs : CurrentThread'[e] = target'[d] /\ pc'[e] = "block"
      BY <2>f, <2>w DEF WaitInv, ApartInv, CurrentInv, CpuInv
    <3>4. \A d \in CPUs, u \in Threads : Woken(d, u)' =>
              ~Among(u, WaitingList') /\ \A e \in CPUs : Woken(e, u)' => e = d
      BY <2>f, <2>w DEF WaitInv, ApartInv, CurrentInv, CpuInv
    <3> QED
      BY <3>1, <3>2, <3>3, <3>4 DEF WaitInv
  <2>9. PlaceInv'
    BY <2>f, <2>w DEF PlaceInv, CpuInv
  <2>10. SavedInv'
    BY <2>f, <2>x DEF SavedInv
  <2>11. FlagsInv'
    BY <2>g
  <2> QED
    BY <2>1, <2>2, <2>3, <2>4, <2>5, <2>6, <2>7, <2>8, <2>9, <2>10, <2>11 DEF SchedulerInv
<1>5. ASSUME NEW c \in CPUs, YieldEnqueue(c) PROVE SchedulerInv'
  <2>l. /\ ReadyThreadsList' \in Seq(Threads)
        /\ \A u : Among(u, ReadyThreadsList') <=>
                   Among(u, ReadyThreadsList) \/ (Cur(c) \notin CPUs /\ u = Cur(c))
        /\ Distinct(ReadyThreadsList')
    <3>1. CASE Cur(c) \in CPUs
      BY <1>5, <3>1 DEF Goto, At, waitVars, YieldEnqueue, ReadyInv
    <3>2. CASE Cur(c) \notin CPUs
      <4>1. Cur(c) \in Threads /\ ~Among(Cur(c), ReadyThreadsList)
        BY <1>5, <3>2 DEF Goto, At, waitVars, YieldEnqueue, ReadyInv
      <4> QED
        BY <1>5, <3>2, <4>1, AppendedList DEF Goto, At, waitVars, YieldEnqueue, ReadyInv
    <3> QED
      BY <3>1, <3>2
  <2>f. /\ pc[c] = "yield" /\ ReadyThreadsLock = Nobody
        /\ State' = [State EXCEPT ![Cur(c)] = "Ready"]
        /\ ReadyThreadsLock' = c
        /\ pc' = [pc EXCEPT ![c] = "schedule"]
        /\ UNCHANGED <<CurrentThread, PreviousThread, saved, BlockLock, WaitingList, WaitLock,
                       target>>
    BY <1>5 DEF YieldEnqueue, Goto, At, waitVars, threadVars, cpuVars
  <2>g. /\ Flags' \in [AllThreads -> SUBSET {"TerminatePending", "Terminated"}]
        /\ RefCnt' \in [AllThreads -> Int] /\ handle' \subseteq Threads /\ FlagsInv'
    BY <1>5 DEF YieldEnqueue, SchedulerTypeOK, FlagsInv, threadVars
  <2>x. \A d \in CPUs : Executing(d)' = Executing(d)
    BY <2>f, <2>l DEF Executing, At
  <2>w. \A d \in CPUs, u \in Threads : Woken(d, u)' <=> Woken(d, u)
    BY <2>f, <2>l DEF Woken
  <2>1. SchedulerTypeOK'
    BY <2>f, <2>g, <2>l DEF SchedulerTypeOK, CpuInv
  <2>2. LockInv'
    BY <2>f, <2>l DEF LockInv
  <2>3. CpuInv'
    BY <2>f, <2>l DEF CpuInv
  <2>4. CurrentInv'
    BY <2>f, <2>l, <2>w DEF CurrentInv, ApartInv, CpuInv
  <2>5. ApartInv'
    BY <2>f, <2>l DEF ApartInv, LockInv, CpuInv
  <2>6. BlockInv'
    BY <2>f, <2>l DEF BlockInv, ApartInv, CurrentInv, CpuInv
  <2>7. ReadyInv'
    BY <2>f, <2>l DEF ReadyInv, ApartInv, CurrentInv, CpuInv
  <2>8. WaitInv'
    <3>1. Distinct(WaitingList')
      BY <2>f, <2>l, <2>w DEF WaitInv, ApartInv, CurrentInv, CpuInv
    <3>2. \A u \in Threads : Among(u, WaitingList') =>
              \/ State'[u] = "Blocked"
              \/ \E d \in CPUs : CurrentThread'[d] = u /\ pc'[d] \in {"link", "block"}
      BY <2>f, <2>l, <2>w DEF WaitInv, ApartInv, CurrentInv, CpuInv
    <3>3. \A d \in CPUs : pc'[d] = "wake" =>
              \/ State'[target'[d]] = "Blocked"
              \/ \E e \in CPUs : CurrentThread'[e] = target'[d] /\ pc'[e] = "block"
      BY <2>f, <2>l, <2>w DEF WaitInv, ApartInv, CurrentInv, CpuInv
    <3>4. \A d \in CPUs, u \in Threads : Woken(d, u)' =>
              ~Among(u, WaitingList') /\ \A e \in CPUs : Woken(e, u)' => e = d
      BY <2>f, <2>l, <2>w DEF WaitInv, ApartInv, CurrentInv, CpuInv
    <3> QED
      BY <3>1, <3>2, <3>3, <3>4 DEF WaitInv
  <2>9. PlaceInv'
    BY <2>f, <2>l, <2>w DEF PlaceInv, CpuInv
  <2>10. SavedInv'
    <3>1. \A u \in AllThreads : State'[u] # "none" <=> State[u] # "none"
      BY <2>f DEF CurrentInv, SavedInv, CpuInv, BlockInv
    <3>2. \A d \in CPUs : Executing(d) \in AllThreads
      BY DEF Executing, At, CpuInv
    <3> QED
      BY <2>f, <2>x, <3>1, <3>2 DEF SavedInv
  <2>11. FlagsInv'
    BY <2>g
  <2> QED
    BY <2>1, <2>2, <2>3, <2>4, <2>5, <2>6, <2>7, <2>8, <2>9, <2>10, <2>11 DEF SchedulerInv
<1>6. ASSUME NEW c \in CPUs, LinkWaiter(c) PROVE SchedulerInv'
  <2>l. /\ WaitingList' \in Seq(Threads)
        /\ \A u : Among(u, WaitingList') <=> Among(u, WaitingList) \/ u = Cur(c)
        /\ Distinct(WaitingList') /\ ~Among(Cur(c), WaitingList)
        /\ \A d \in CPUs : ~Woken(d, Cur(c))
    <3>1. Cur(c) \in Threads /\ State[Cur(c)] # "Blocked" /\ ~Among(Cur(c), WaitingList)
      BY <1>6 DEF Goto, At, waitVars, LinkWaiter, WaitInv, CurrentInv, ApartInv
    <3>2. \A d \in CPUs : ~Woken(d, Cur(c))
      BY <1>6, <3>1 DEF Goto, At, waitVars, LinkWaiter, WaitInv, ApartInv, BlockInv, Woken
    <3> QED
      BY <1>6, <3>1, <3>2, AppendedList DEF Goto, At, waitVars, LinkWaiter, WaitInv
  <2>f. /\ pc[c] = "run" /\ Cur(c) \in Waiters /\ WaitLock = Nobody
        /\ WaitLock' = c
        /\ pc' = [pc EXCEPT ![c] = "link"]
        /\ UNCHANGED <<CurrentThread, PreviousThread, State, saved, ReadyThreadsList,
                       ReadyThreadsLock, BlockLock, target>>
    BY <1>6 DEF LinkWaiter, Goto, At, waitVars, threadVars, cpuVars
  <2>g. /\ Flags' \in [AllThreads -> SUBSET {"TerminatePending", "Terminated"}]
        /\ RefCnt' \in [AllThreads -> Int] /\ handle' \subseteq Threads /\ FlagsInv'
    BY <1>6 DEF LinkWaiter, SchedulerTypeOK, FlagsInv, threadVars
  <2>x. \A d \in CPUs : Executing(d)' = Executing(d)
    BY <2>f, <2>l DEF Executing, At
  <2>w. \A d \in CPUs, u \in Threads : Woken(d, u)' <=> Woken(d, u)
    BY <2>f, <2>l DEF Woken
  <2>1. SchedulerTypeOK'
    BY <2>f, <2>g, <2>l DEF SchedulerTypeOK, CpuInv
  <2>2. LockInv'
    BY <2>f, <2>l DEF LockInv
  <2>3. CpuInv'
    BY <2>f, <2>l DEF CpuInv
  <2>4. CurrentInv'
    BY <2>f, <2>l, <2>w DEF CurrentInv, ApartInv, CpuInv
  <2>5. ApartInv'
    BY <2>f, <2>l DEF ApartInv, LockInv, CpuInv
  <2>6. BlockInv'
    BY <2>f, <2>l DEF BlockInv, ApartInv, CurrentInv, CpuInv
  <2>7. ReadyInv'
    BY <2>f, <2>l DEF ReadyInv, ApartInv, CurrentInv, CpuInv
  <2>8. WaitInv'
    BY <2>f, <2>l, <2>w DEF WaitInv, ApartInv, CurrentInv, CpuInv
  <2>9. PlaceInv'
    BY <2>f, <2>l, <2>w DEF PlaceInv, CpuInv
  <2>10. SavedInv'
    BY <2>f, <2>x DEF SavedInv
  <2>11. FlagsInv'
    BY <2>g
  <2> QED
    BY <2>1, <2>2, <2>3, <2>4, <2>5, <2>6, <2>7, <2>8, <2>9, <2>10, <2>11 DEF SchedulerInv
<1>7. ASSUME NEW c \in CPUs, ThreadTakeBlockLock(c) PROVE SchedulerInv'
  <2>f. /\ pc[c] = "link" /\ BlockLock[Cur(c)] = Nobody
        /\ BlockLock' = [BlockLock EXCEPT ![Cur(c)] = c]
        /\ WaitLock' = Nobody
        /\ pc' = [pc EXCEPT ![c] = "block"]
        /\ UNCHANGED <<CurrentThread, PreviousThread, State, saved, ReadyThreadsList,
                       ReadyThreadsLock, WaitingList, target>>
    BY <1>7 DEF ThreadTakeBlockLock, Goto, At, waitVars, threadVars, cpuVars
  <2>g. /\ Flags' \in [AllThreads -> SUBSET {"TerminatePending", "Terminated"}]
        /\ RefCnt' \in [AllThreads -> Int] /\ handle' \subseteq Threads /\ FlagsInv'
    BY <1>7 DEF ThreadTakeBlockLock, SchedulerTypeOK, FlagsInv, threadVars
  <2>x. \A d \in CPUs : Executing(d)' = Executing(d)
    BY <2>f DEF Executing, At
  <2>w. \A d \in CPUs, u \in Threads : Woken(d, u)' <=> Woken(d, u)
    BY <2>f DEF Woken
  <2>1. SchedulerTypeOK'
    BY <2>f, <2>g DEF SchedulerTypeOK, CpuInv
  <2>2. LockInv'
    BY <2>f DEF LockInv
  <2>3. CpuInv'
    BY <2>f DEF CpuInv
  <2>4. CurrentInv'
    BY <2>f, <2>w DEF CurrentInv, ApartInv, CpuInv
  <2>5. ApartInv'
    BY <2>f DEF ApartInv, LockInv, CpuInv
  <2>6. BlockInv'
    BY <2>f DEF BlockInv, ApartInv, CurrentInv, CpuInv
  <2>7. ReadyInv'
    BY <2>f DEF ReadyInv, ApartInv, CurrentInv, CpuInv
  <2>8. WaitInv'
    BY <2>f, <2>w DEF WaitInv, ApartInv, CurrentInv, CpuInv
  <2>9. PlaceInv'
    BY <2>f, <2>w DEF PlaceInv, CpuInv
  <2>10. SavedInv'
    BY <2>f, <2>x DEF SavedInv
  <2>11. FlagsInv'
    BY <2>g
  <2> QED
    BY <2>1, <2>2, <2>3, <2>4, <2>5, <2>6, <2>7, <2>8, <2>9, <2>10, <2>11 DEF SchedulerInv
<1>8. ASSUME NEW c \in CPUs, IdleThread(c) PROVE SchedulerInv'
  <2>f. /\ pc[c] = "run" /\ Cur(c) = c /\ BlockLock[c] = Nobody
        /\ BlockLock' = [BlockLock EXCEPT ![c] = c]
        /\ pc' = [pc EXCEPT ![c] = "block"]
        /\ UNCHANGED <<CurrentThread, PreviousThread, State, saved, ReadyThreadsList,
                       ReadyThreadsLock, WaitingList, WaitLock, target>>
    BY <1>8 DEF IdleThread, Goto, At, waitVars, threadVars, cpuVars
  <2>g. /\ Flags' \in [AllThreads -> SUBSET {"TerminatePending", "Terminated"}]
        /\ RefCnt' \in [AllThreads -> Int] /\ handle' \subseteq Threads /\ FlagsInv'
    BY <1>8 DEF IdleThread, SchedulerTypeOK, FlagsInv, threadVars
  <2>x. \A d \in CPUs : Executing(d)' = Executing(d)
    BY <2>f DEF Executing, At
  <2>w. \A d \in CPUs, u \in Threads : Woken(d, u)' <=> Woken(d, u)
    BY <2>f DEF Woken
  <2>1. SchedulerTypeOK'
    BY <2>f, <2>g DEF SchedulerTypeOK, CpuInv
  <2>2. LockInv'
    BY <2>f DEF LockInv
  <2>3. CpuInv'
    BY <2>f DEF CpuInv
  <2>4. CurrentInv'
    BY <2>f, <2>w DEF CurrentInv, ApartInv, CpuInv
  <2>5. ApartInv'
    BY <2>f DEF ApartInv, LockInv, CpuInv
  <2>6. BlockInv'
    BY <2>f DEF BlockInv, ApartInv, CurrentInv, CpuInv
  <2>7. ReadyInv'
    BY <2>f DEF ReadyInv, ApartInv, CurrentInv, CpuInv
  <2>8. WaitInv'
    BY <2>f, <2>w DEF WaitInv, ApartInv, CurrentInv, CpuInv
  <2>9. PlaceInv'
    BY <2>f, <2>w DEF PlaceInv, CpuInv
  <2>10. SavedInv'
    BY <2>f, <2>x DEF SavedInv
  <2>11. FlagsInv'
    BY <2>g
  <2> QED
    BY <2>1, <2>2, <2>3, <2>4, <2>5, <2>6, <2>7, <2>8, <2>9, <2>10, <2>11 DEF SchedulerInv
<1>9. ASSUME NEW c \in CPUs, ThreadBlock(c) PROVE SchedulerInv'
  <2>f. /\ pc[c] = "block"
        /\ State' = [State EXCEPT ![Cur(c)] = "Blocked"]
        /\ pc' = [pc EXCEPT ![c] = "away"]
        /\ UNCHANGED <<CurrentThread, PreviousThread, saved, ReadyThreadsList, ReadyThreadsLock,
                       BlockLock, WaitingList, WaitLock, target>>
    <3>1. ~Doomed(Cur(c))
      BY <1>9 DEF ThreadBlock, CpuInv, FlagsInv, Doomed, At
    <3> QED
      BY <1>9, <3>1 DEF ThreadBlock, Goto, At, waitVars
  <2>g. /\ Flags' \in [AllThreads -> SUBSET {"TerminatePending", "Terminated"}]
        /\ RefCnt' \in [AllThreads -> Int] /\ handle' \subseteq Threads /\ FlagsInv'
    <3>1. ~Doomed(Cur(c))
      BY <1>9 DEF ThreadBlock, CpuInv, FlagsInv, Doomed, At
    <3> QED
      BY <1>9, <3>1 DEF ThreadBlock, SchedulerTypeOK, FlagsInv
  <2>x. \A d \in CPUs : Executing(d)' = Executing(d)
    BY <2>f DEF Executing, At
  <2>w. \A d \in CPUs, u \in Threads : Woken(d, u)' <=> Woken(d, u)
    BY <2>f DEF Woken
  <2>1. SchedulerTypeOK'
    BY <2>f, <2>g DEF SchedulerTypeOK, CpuInv
  <2>2. LockInv'
    BY <2>f DEF LockInv
  <2>3. CpuInv'
    BY <2>f DEF CpuInv
  <2>4. CurrentInv'
    BY <2>f, <2>w DEF CurrentInv, ApartInv, CpuInv
  <2>5. ApartInv'
    BY <2>f DEF ApartInv, LockInv, CpuInv
  <2>6. BlockInv'
    BY <2>f DEF BlockInv, ApartInv, CurrentInv, CpuInv
  <2>7. ReadyInv'
    BY <2>f DEF ReadyInv, ApartInv, CurrentInv, CpuInv
  <2>8. WaitInv'
    BY <2>f, <2>w DEF WaitInv, ApartInv, CurrentInv, CpuInv
  <2>9. PlaceInv'
    BY <2>f, <2>w DEF PlaceInv, CpuInv, CurrentInv
  <2>10. SavedInv'
    <3>1. \A u \in AllThreads : State'[u] # "none" <=> State[u] # "none"
      BY <2>f DEF CurrentInv, SavedInv, CpuInv, BlockInv
    <3>2. \A d \in CPUs : Executing(d) \in AllThreads
      BY DEF Executing, At, CpuInv
    <3> QED
      BY <2>f, <2>x, <3>1, <3>2 DEF SavedInv
  <2>11. FlagsInv'
    BY <2>g
  <2> QED
    BY <2>1, <2>2, <2>3, <2>4, <2>5, <2>6, <2>7, <2>8, <2>9, <2>10, <2>11 DEF SchedulerInv
<1>10. ASSUME NEW c \in CPUs, UnlinkWaiter(c) PROVE SchedulerInv'
  <2>l. /\ WaitingList' \in Seq(Threads) /\ Head(WaitingList) \in Threads
        /\ Among(Head(WaitingList), WaitingList)
        /\ \A u : Among(u, WaitingList') <=> Among(u, WaitingList) /\ u # Head(WaitingList)
        /\ Distinct(WaitingList')
    BY <1>10, TailOfList DEF Goto, At, waitVars, UnlinkWaiter, WaitInv
  <2>f. /\ pc[c] = "run" /\ WaitLock = Nobody /\ WaitingList # <<>>
        /\ WaitLock' = c
        /\ target' = [target EXCEPT ![c] = Head(WaitingList)]
        /\ pc' = [pc EXCEPT ![c] = "wake"]
        /\ UNCHANGED <<CurrentThread, PreviousThread, State, saved, ReadyThreadsList,
                       ReadyThreadsLock, BlockLock>>
    BY <1>10 DEF UnlinkWaiter, Goto, At, waitVars, threadVars, cpuVars
  <2>g. /\ Flags' \in [AllThreads -> SUBSET {"TerminatePending", "Terminated"}]
        /\ RefCnt' \in [AllThreads -> Int] /\ handle' \subseteq Threads /\ FlagsInv'
    BY <1>10 DEF UnlinkWaiter, SchedulerTypeOK, FlagsInv, threadVars
  <2>x. \A d \in CPUs : Executing(d)' = Executing(d)
    BY <2>f, <2>l DEF Executing, At
  <2>w. \A d \in CPUs, u \in Threads : Woken(d, u)' <=> (d = c /\ u = Head(WaitingList)) \/ Woken(d, u)
    BY <2>f, <2>l DEF Woken
  <2>m. \A d \in CPUs : pc[d] # "link"
    BY <2>f DEF LockInv
  <2>n. \/ State[Head(WaitingList)] = "Blocked"
        \/ \E d \in CPUs : Cur(d) = Head(WaitingList) /\ pc[d] = "block"
    BY <2>l, <2>m DEF WaitInv
  <2>1. SchedulerTypeOK'
    BY <2>f, <2>g, <2>l DEF SchedulerTypeOK, CpuInv
  <2>2. LockInv'
    BY <2>f, <2>l DEF LockInv
  <2>3. CpuInv'
    BY <2>f, <2>l DEF CpuInv
  <2>4. CurrentInv'
    BY <2>f, <2>l, <2>w, <2>m DEF CurrentInv, ApartInv, CpuInv
  <2>5. ApartInv'
    BY <2>f, <2>l DEF ApartInv, LockInv, CpuInv
  <2>6. BlockInv'
    BY <2>f, <2>l DEF BlockInv, ApartInv, CurrentInv, CpuInv
  <2>7. ReadyInv'
    BY <2>f, <2>l DEF ReadyInv, ApartInv, CurrentInv, CpuInv
  <2>8. WaitInv'
    <3>1. Distinct(WaitingList')
      BY <2>f, <2>l, <2>w, <2>m, <2>n DEF WaitInv, ApartInv, CurrentInv, CpuInv
    <3>2. \A u \in Threads : Among(u, WaitingList') =>
              \/ State'[u] = "Blocked"
              \/ \E d \in CPUs : CurrentThread'[d] = u /\ pc'[d] \in {"link", "block"}
      BY <2>f, <2>l, <2>w, <2>m, <2>n DEF WaitInv, ApartInv, CurrentInv, CpuInv
    <3>3. \A d \in CPUs : pc'[d] = "wake" =>
              \/ State'[target'[d]] = "Blocked"
              \/ \E e \in CPUs : CurrentThread'[e] = target'[d] /\ pc'[e] = "block"
      <4>1. \A d \in CPUs : pc[d] = "block" => pc'[d] = "block"
        BY <2>f
      <4>2. /\ target'[c] = Head(WaitingList)
            /\ \A d \in CPUs \ {c} : target'[d] = target[d] /\ pc'[d] = pc[d]
        BY <2>f
      <4> QED
        BY <2>f, <2>n, <4>1, <4>2 DEF WaitInv
    <3>4. \A d \in CPUs, u \in Threads : Woken(d, u)' =>
              ~Among(u, WaitingList') /\ \A e \in CPUs : Woken(e, u)' => e = d
      BY <2>f, <2>l, <2>w, <2>m, <2>n DEF WaitInv, ApartInv, CurrentInv, CpuInv
    <3> QED
      BY <3>1, <3>2, <3>3, <3>4 DEF WaitInv
  <2>9. PlaceInv'
    BY <2>f, <2>l, <2>w DEF PlaceInv, CpuInv
  <2>10. SavedInv'
    BY <2>f, <2>x DEF SavedInv
  <2>11. FlagsInv'
    BY <2>g
  <2> QED
    BY <2>1, <2>2, <2>3, <2>4, <2>5, <2>6, <2>7, <2>8, <2>9, <2>10, <2>11 DEF SchedulerInv
<1>11. ASSUME NEW c \in CPUs, UnblockLock(c) PROVE SchedulerInv'
  <2>f. /\ pc[c] = "wake" /\ BlockLock[target[c]] = Nobody
        /\ BlockLock' = [BlockLock EXCEPT ![target[c]] = c]
        /\ pc' = [pc EXCEPT ![c] = "ready"]
        /\ UNCHANGED <<CurrentThread, PreviousThread, State, saved, ReadyThreadsList,
                       ReadyThreadsLock, WaitingList, WaitLock, target>>
    BY <1>11 DEF UnblockLock, Goto, At, waitVars, threadVars, cpuVars
  <2>g. /\ Flags' \in [AllThreads -> SUBSET {"TerminatePending", "Terminated"}]
        /\ RefCnt' \in [AllThreads -> Int] /\ handle' \subseteq Threads /\ FlagsInv'
    BY <1>11 DEF UnblockLock, SchedulerTypeOK, FlagsInv, threadVars
  <2>x. \A d \in CPUs : Executing(d)' = Executing(d)
    BY <2>f DEF Executing, At
  <2>w. \A d \in CPUs, u \in Threads : Woken(d, u)' <=> Woken(d, u)
    BY <2>f DEF Woken
  <2>1. SchedulerTypeOK'
    BY <2>f, <2>g DEF SchedulerTypeOK, CpuInv
  <2>2. LockInv'
    BY <2>f DEF LockInv
  <2>3. CpuInv'
    BY <2>f DEF CpuInv
  <2>4. CurrentInv'
    BY <2>f, <2>w DEF CurrentInv, ApartInv, CpuInv
  <2>5. ApartInv'
    BY <2>f DEF ApartInv, LockInv, CpuInv
  <2>6. BlockInv'
    BY <2>f, <2>w DEF BlockInv, WaitInv, CurrentInv, CpuInv
  <2>7. ReadyInv'
    BY <2>f DEF ReadyInv, ApartInv, CurrentInv, CpuInv
  <2>8. WaitInv'
    BY <2>f, <2>w DEF WaitInv, ApartInv, CurrentInv, CpuInv
  <2>9. PlaceInv'
    BY <2>f, <2>w DEF PlaceInv, CpuInv
  <2>10. SavedInv'
    BY <2>f, <2>x DEF SavedInv
  <2>11. FlagsInv'
    BY <2>g
  <2> QED
    BY <2>1, <2>2, <2>3, <2>4, <2>5, <2>6, <2>7, <2>8, <2>9, <2>10, <2>11 DEF SchedulerInv
<1>12. ASSUME NEW c \in CPUs, UnblockQueue(c) PROVE SchedulerInv'
  <2>l. /\ ReadyThreadsList' \in Seq(Threads)
        /\ \A u : Among(u, ReadyThreadsList') <=> Among(u, ReadyThreadsList) \/ u = target[c]
        /\ Distinct(ReadyThreadsList')
    <3>1. target[c] \in Threads /\ ~Among(target[c], ReadyThreadsList)
      BY <1>12 DEF Goto, At, waitVars, UnblockQueue, CpuInv, BlockInv, ReadyInv
    <3> QED
      BY <1>12, <3>1, AppendedList DEF Goto, At, waitVars, UnblockQueue, ReadyInv
  <2>f. /\ pc[c] = "ready" /\ ReadyThreadsLock = Nobody
        /\ State' = [State EXCEPT ![target[c]] = "Ready"]
        /\ pc' = [pc EXCEPT ![c] = "woken"]
        /\ UNCHANGED <<CurrentThread, PreviousThread, saved, ReadyThreadsLock, BlockLock,
                       WaitingList, WaitLock, target>>
    BY <1>12 DEF UnblockQueue, Goto, At, waitVars, threadVars, cpuVars
  <2>g. /\ Flags' \in [AllThreads -> SUBSET {"TerminatePending", "Terminated"}]
        /\ RefCnt' \in [AllThreads -> Int] /\ handle' \subseteq Threads /\ FlagsInv'
    BY <1>12 DEF UnblockQueue, SchedulerTypeOK, FlagsInv, threadVars
  <2>x. \A d \in CPUs : Executing(d)' = Executing(d)
    BY <2>f, <2>l DEF Executing, At
  <2>w. \A d \in CPUs, u \in Threads : Woken(d, u)' <=> Woken(d, u) /\ u # target[c]
    BY <2>f, <2>l DEF Woken, WaitInv, CpuInv
  <2>m. /\ target[c] \in Threads /\ State[target[c]] = "Blocked" /\ BlockLock[target[c]] = c
        /\ \A d \in CPUs : Cur(d) # target[c]
        /\ ~Among(target[c], WaitingList)
        /\ \A d \in CPUs \ {c} : pc[d] = "wake" => target[d] # target[c]
    <3>1. target[c] \in Threads /\ State[target[c]] = "Blocked" /\ BlockLock[target[c]] = c
      BY <2>f DEF CpuInv, BlockInv
    <3>2. \A d \in CPUs : Cur(d) # target[c]
      BY <2>f, <3>1 DEF CurrentInv
    <3>3. Woken(c, target[c])
      BY <2>f DEF Woken
    <3>4. /\ ~Among(target[c], WaitingList)
          /\ \A d \in CPUs : Woken(d, target[c]) => d = c
      BY <3>1, <3>3 DEF WaitInv
    <3> QED
      BY <3>1, <3>2, <3>4 DEF Woken
  <2>1. SchedulerTypeOK'
    BY <2>f, <2>g, <2>l DEF SchedulerTypeOK, CpuInv
  <2>2. LockInv'
    BY <2>f, <2>l DEF LockInv
  <2>3. CpuInv'
    BY <2>f, <2>l DEF CpuInv
  <2>4. CurrentInv'
    BY <2>f, <2>l, <2>w, <2>m DEF CurrentInv, ApartInv, CpuInv
  <2>5. ApartInv'
    BY <2>f, <2>l DEF ApartInv, LockInv, CpuInv
  <2>6. BlockInv'
    BY <2>f, <2>l DEF BlockInv, ApartInv, CurrentInv, CpuInv
  <2>7. ReadyInv'
    BY <2>f, <2>l, <2>m DEF ReadyInv, ApartInv, CurrentInv, CpuInv
  <2>8. WaitInv'
    <3>1. Distinct(WaitingList')
      BY <2>f, <2>l, <2>w, <2>m DEF WaitInv, ApartInv, CurrentInv, CpuInv
    <3>2. \A u \in Threads : Among(u, WaitingList') =>
              \/ State'[u] = "Blocked"
              \/ \E d \in CPUs : CurrentThread'[d] = u /\ pc'[d] \in {"link", "block"}
      BY <2>f, <2>l, <2>w, <2>m DEF WaitInv, ApartInv, CurrentInv, CpuInv
    <3>3. \A d \in CPUs : pc'[d] = "wake" =>
              \/ State'[target'[d]] = "Blocked"
              \/ \E e \in CPUs : CurrentThread'[e] = target'[d] /\ pc'[e] = "block"
      BY <2>f, <2>l, <2>w, <2>m DEF WaitInv, ApartInv, CurrentInv, CpuInv
    <3>4. \A d \in CPUs, u \in Threads : Woken(d, u)' =>
              ~Among(u, WaitingList') /\ \A e \in CPUs : Woken(e, u)' => e = d
      BY <2>f, <2>l, <2>w, <2>m DEF WaitInv, ApartInv, CurrentInv, CpuInv
    <3> QED
      BY <3>1, <3>2, <3>3, <3>4 DEF WaitInv
  <2>9. PlaceInv'
    BY <2>f, <2>l, <2>w, <2>m DEF PlaceInv, CpuInv
  <2>10. SavedInv'
    <3>1. \A u \in AllThreads : State'[u] # "none" <=> State[u] # "none"
      BY <2>f DEF CurrentInv, SavedInv, CpuInv, BlockInv
    <3>2. \A d \in CPUs : Executing(d) \in AllThreads
      BY DEF Executing, At, CpuInv
    <3> QED
      BY <2>f, <2>x, <3>1, <3>2 DEF SavedInv
  <2>11. FlagsInv'
    BY <2>g
  <2> QED
    BY <2>1, <2>2, <2>3, <2>4, <2>5, <2>6, <2>7, <2>8, <2>9, <2>10, <2>11 DEF SchedulerInv
<1>13. ASSUME NEW c \in CPUs, UnblockDone(c) PROVE SchedulerInv'
  <2>f. /\ pc[c] = "woken"
        /\ BlockLock' = [BlockLock EXCEPT ![target[c]] = Nobody]
        /\ WaitLock' = IF WaitLock = c THEN Nobody ELSE WaitLock
        /\ target' = [target EXCEPT ![c] = Nobody]
        /\ pc' = [pc EXCEPT ![c] = "run"]
        /\ UNCHANGED <<CurrentThread, PreviousThread, State, saved, ReadyThreadsList,
                       ReadyThreadsLock, WaitingList>>
    BY <1>13 DEF UnblockDone, Goto, At, waitVars, threadVars, cpuVars
  <2>g. /\ Flags' \in [AllThreads -> SUBSET {"TerminatePending", "Terminated"}]
        /\ RefCnt' \in [AllThreads -> Int] /\ handle' \subseteq Threads /\ FlagsInv'
    BY <1>13 DEF UnblockDone, SchedulerTypeOK, FlagsInv, threadVars
  <2>x. \A d \in CPUs : Executing(d)' = Executing(d)
    BY <2>f DEF Executing, At
  <2>w. \A d \in CPUs, u \in Threads : Woken(d, u)' <=> Woken(d, u)
    BY <2>f DEF Woken
  <2>1. SchedulerTypeOK'
    BY <2>f, <2>g DEF SchedulerTypeOK, CpuInv
  <2>2. LockInv'
    BY <2>f DEF LockInv
  <2>3. CpuInv'
    BY <2>f DEF CpuInv
  <2>4. CurrentInv'
    BY <2>f, <2>w DEF BlockInv, CurrentInv, CpuInv
  <2>5. ApartInv'
    BY <2>f DEF ApartInv, LockInv, CpuInv
  <2>6. BlockInv'
    BY <2>f DEF BlockInv, ApartInv, CurrentInv, CpuInv
  <2>7. ReadyInv'
    BY <2>f DEF ReadyInv, ApartInv, CurrentInv, CpuInv
  <2>8. WaitInv'
    <3>1. Distinct(WaitingList')
      BY <2>f, <2>w DEF WaitInv, ApartInv, CurrentInv, CpuInv
    <3>2. \A u \in Threads : Among(u, WaitingList') =>
              \/ State'[u] = "Blocked"
              \/ \E d \in CPUs : CurrentThread'[d] = u /\ pc'[d] \in {"link", "block"}
      BY <2>f, <2>w DEF WaitInv, ApartInv, CurrentInv, CpuInv
    <3>3. \A d \in CPUs : pc'[d] = "wake" =>
              \/ State'[target'[d]] = "Blocked"
              \/ \E e \in CPUs : CurrentThread'[e] = target'[d] /\ pc'[e] = "block"
      BY <2>f, <2>w DEF WaitInv, ApartInv, CurrentInv, CpuInv
    <3>4. \A d \in CPUs, u \in Threads : Woken(d, u)' =>
              ~Among(u, WaitingList') /\ \A e \in CPUs : Woken(e, u)' => e = d
      BY <2>f, <2>w DEF WaitInv, ApartInv, CurrentInv, CpuInv
    <3> QED
      BY <3>1, <3>2, <3>3, <3>4 DEF WaitInv
  <2>9. PlaceInv'
    BY <2>f, <2>w DEF PlaceInv, CpuInv
  <2>10. SavedInv'
    BY <2>f, <2>x DEF SavedInv
  <2>11. FlagsInv'
    BY <2>g
  <2> QED
    BY <2>1, <2>2, <2>3, <2>4, <2>5, <2>6, <2>7, <2>8, <2>9, <2>10, <2>11 DEF SchedulerInv
<1>14. ASSUME NEW c \in CPUs, ThreadExit(c) PROVE SchedulerInv'
  <2>f. /\ pc[c] \in {"exit", "run"} /\ Cur(c) \in Threads
        /\ State' = [State EXCEPT ![Cur(c)] = "Dying"]
        /\ pc' = [pc EXCEPT ![c] = "away"]
        /\ UNCHANGED <<CurrentThread, PreviousThread, saved, ReadyThreadsList, ReadyThreadsLock,
                       BlockLock, WaitingList, WaitLock, target>>
    <3>1. Cur(c) \in Threads
      BY <1>14 DEF ThreadExit, CpuInv, At
    <3>2. BlockLock[Cur(c)] # c
      BY <1>14 DEF ThreadExit, BlockInv, At
    <3> QED
      BY <1>14, <3>1, <3>2 DEF ThreadExit, Goto, At, waitVars
  <2>g. /\ Flags' \in [AllThreads -> SUBSET {"TerminatePending", "Terminated"}]
        /\ RefCnt' \in [AllThreads -> Int] /\ handle' \subseteq Threads /\ FlagsInv'
    BY <1>14 DEF ThreadExit, SchedulerTypeOK, FlagsInv, threadVars
  <2>x. \A d \in CPUs : Executing(d)' = Executing(d)
    BY <2>f DEF Executing, At
  <2>w. \A d \in CPUs, u \in Threads : Woken(d, u)' <=> Woken(d, u)
    BY <2>f DEF Woken
  <2>1. SchedulerTypeOK'
    BY <2>f, <2>g DEF SchedulerTypeOK, CpuInv
  <2>2. LockInv'
    BY <2>f DEF LockInv
  <2>3. CpuInv'
    BY <2>f DEF CpuInv
  <2>4. CurrentInv'
    BY <2>f, <2>w DEF CurrentInv, ApartInv, CpuInv
  <2>5. ApartInv'
    BY <2>f DEF ApartInv, LockInv, CpuInv
  <2>6. BlockInv'
    BY <2>f DEF BlockInv, ApartInv, CurrentInv, CpuInv
  <2>7. ReadyInv'
    BY <2>f DEF ReadyInv, ApartInv, CurrentInv, CpuInv
  <2>8. WaitInv'
    BY <2>f, <2>w DEF WaitInv, ApartInv, CurrentInv, CpuInv
  <2>9. PlaceInv'
    BY <2>f, <2>w DEF PlaceInv, CpuInv
  <2>10. SavedInv'
    <3>1. \A u \in AllThreads : State'[u] # "none" <=> State[u] # "none"
      BY <2>f DEF CurrentInv, SavedInv, CpuInv, BlockInv
    <3>2. \A d \in CPUs : Executing(d) \in AllThreads
      BY DEF Executing, At, CpuInv
    <3> QED
      BY <2>f, <2>x, <3>1, <3>2 DEF SavedInv
  <2>11. FlagsInv'
    BY <2>g
  <2> QED
    BY <2>1, <2>2, <2>3, <2>4, <2>5, <2>6, <2>7, <2>8, <2>9, <2>10, <2>11 DEF SchedulerInv
<1>15. ASSUME NEW c \in CPUs, LockReady(c) PROVE SchedulerInv'
  <2>f. /\ pc[c] = "away" /\ ReadyThreadsLock = Nobody
        /\ ReadyThreadsLock' = c
        /\ pc' = [pc EXCEPT ![c] = "schedule"]
        /\ UNCHANGED <<CurrentThread, PreviousThread, State, saved, ReadyThreadsList, BlockLock,
                       WaitingList, WaitLock, target>>
    BY <1>15 DEF LockReady, Goto, At, waitVars, threadVars, cpuVars
  <2>g. /\ Flags' \in [AllThreads -> SUBSET {"TerminatePending", "Terminated"}]
        /\ RefCnt' \in [AllThreads -> Int] /\ handle' \subseteq Threads /\ FlagsInv'
    BY <1>15 DEF LockReady, SchedulerTypeOK, FlagsInv, threadVars
  <2>x. \A d \in CPUs : Executing(d)' = Executing(d)
    BY <2>f DEF Executing, At
  <2>w. \A d \in CPUs, u \in Threads : Woken(d, u)' <=> Woken(d, u)
    BY <2>f DEF Woken
  <2>1. SchedulerTypeOK'
    BY <2>f, <2>g DEF SchedulerTypeOK, CpuInv
  <2>2. LockInv'
    BY <2>f DEF LockInv
  <2>3. CpuInv'
    BY <2>f DEF CpuInv
  <2>4. CurrentInv'
    BY <2>f, <2>w DEF CurrentInv, ApartInv, CpuInv
  <2>5. ApartInv'
    BY <2>f DEF ApartInv, LockInv, CpuInv
  <2>6. BlockInv'
    BY <2>f DEF BlockInv, ApartInv, CurrentInv, CpuInv
  <2>7. ReadyInv'
    BY <2>f DEF ReadyInv, ApartInv, CurrentInv, CpuInv
  <2>8. WaitInv'
    BY <2>f, <2>w DEF WaitInv, ApartInv, CurrentInv, CpuInv
  <2>9. PlaceInv'
    BY <2>f, <2>w DEF PlaceInv, CpuInv
  <2>10. SavedInv'
    BY <2>f, <2>x DEF SavedInv
  <2>11. FlagsInv'
    BY <2>g
  <2> QED
    BY <2>1, <2>2, <2>3, <2>4, <2>5, <2>6, <2>7, <2>8, <2>9, <2>10, <2>11 DEF SchedulerInv
<1>16. ASSUME NEW c \in CPUs, Schedule(c) PROVE SchedulerInv'
  <2> DEFINE next == IF ReadyThreadsList = <<>> THEN c ELSE Head(ReadyThreadsList)
  <2>l. /\ ReadyThreadsList' \in Seq(Threads)
        /\ \A u : Among(u, ReadyThreadsList') <=> Among(u, ReadyThreadsList) /\ u # next
        /\ Distinct(ReadyThreadsList')
        /\ next = c \/ (next \in Threads /\ Among(next, ReadyThreadsList))
        /\ CurrentThread' = [CurrentThread EXCEPT ![c] = next]
        /\ pc' = [pc EXCEPT ![c] = IF next = Cur(c) THEN "cleanup" ELSE "switch"]
    <3>1. CASE ReadyThreadsList = <<>>
      <4>1. \A u : ~Among(u, ReadyThreadsList)
        BY <3>1 DEF Goto, At, waitVars, Among
      <4>2. ReadyThreadsList' = ReadyThreadsList /\ next = c
        BY <1>16, <3>1 DEF Goto, At, waitVars, Schedule
      <4>3. /\ CurrentThread' = [CurrentThread EXCEPT ![c] = next]
            /\ pc' = [pc EXCEPT ![c] = IF next = Cur(c) THEN "cleanup" ELSE "switch"]
        BY <1>16 DEF Goto, At, waitVars, Schedule
      <4> QED
        BY <3>1, <4>1, <4>2, <4>3 DEF Goto, At, waitVars, ReadyInv
    <3>2. CASE ReadyThreadsList # <<>>
      <4>1. CASE next = c
        BY <1>16, <3>2, <4>1, TailOfList DEF Goto, At, waitVars, Schedule, ReadyInv
      <4>2. CASE next # c
        BY <1>16, <3>2, <4>2, TailOfList DEF Goto, At, waitVars, Schedule, ReadyInv
      <4> QED
        BY <4>1, <4>2
    <3> QED
      BY <3>1, <3>2
  <2> HIDE DEF Goto, At, waitVars, next
  <2>f. /\ pc[c] = "schedule"
        /\ PreviousThread' = [PreviousThread EXCEPT ![c] = Cur(c)]
        /\ CurrentThread' = [CurrentThread EXCEPT ![c] = next]
        /\ pc' = [pc EXCEPT ![c] = IF next = Cur(c) THEN "cleanup" ELSE "switch"]
        /\ UNCHANGED <<State, saved, ReadyThreadsLock, BlockLock, WaitingList, WaitLock, target>>
    BY <1>16, <2>l DEF Schedule, Goto, At, waitVars, threadVars, cpuVars
  <2>g. /\ Flags' \in [AllThreads -> SUBSET {"TerminatePending", "Terminated"}]
        /\ RefCnt' \in [AllThreads -> Int] /\ handle' \subseteq Threads /\ FlagsInv'
    BY <1>16 DEF Schedule, SchedulerTypeOK, FlagsInv, threadVars
  <2>x. \A d \in CPUs : Executing(d)' = Executing(d)
    BY <2>f, <2>l DEF Executing, At
  <2>w. \A d \in CPUs, u \in Threads : Woken(d, u)' <=> Woken(d, u)
    BY <2>f, <2>l DEF Woken
  <2>1. SchedulerTypeOK'
    <3>1. next \in AllThreads /\ Cur(c) \in AllThreads
      BY <2>l
    <3>2. CurrentThread' \in [CPUs -> AllThreads] /\ PreviousThread' \in [CPUs -> AllThreads \union {Nobody}]
      BY <2>f, <3>1
    <3>3. pc' \in [CPUs -> Labels]
      BY <2>f
    <3> QED
      BY <2>f, <2>g, <2>l, <3>2, <3>3 DEF SchedulerTypeOK
  <2>2. LockInv'
    BY <2>f, <2>l DEF LockInv
  <2>3. CpuInv'
    BY <2>f, <2>l DEF CpuInv
  <2>4. CurrentInv'
    BY <2>f, <2>l, <2>w DEF CurrentInv, ReadyInv, LockInv, CpuInv
  <2>5. ApartInv'
    BY <2>f, <2>l, <2>w DEF ApartInv, ReadyInv, LockInv, CpuInv
  <2>6. BlockInv'
    BY <2>f, <2>l DEF BlockInv, ApartInv, CurrentInv, CpuInv
  <2>7. ReadyInv'
    BY <2>f, <2>l DEF ReadyInv, ApartInv, CurrentInv, CpuInv
  <2>8. WaitInv'
    BY <2>f, <2>l, <2>w DEF WaitInv, ApartInv, CurrentInv, CpuInv
  <2>9. PlaceInv'
    BY <2>f, <2>l, <2>w DEF PlaceInv, CurrentInv, CpuInv
  <2>10. SavedInv'
    BY <2>f, <2>x DEF SavedInv
  <2>11. FlagsInv'
    BY <2>g
  <2> QED
    BY <2>1, <2>2, <2>3, <2>4, <2>5, <2>6, <2>7, <2>8, <2>9, <2>10, <2>11 DEF SchedulerInv
<1>17. ASSUME NEW c \in CPUs, ThreadSwitch(c) PROVE SchedulerInv'
  <2>f. /\ pc[c] = "switch"
        /\ saved' = [saved EXCEPT ![PreviousThread[c]] = TRUE, ![Cur(c)] = FALSE]
        /\ pc' = [pc EXCEPT ![c] = "cleanup"]
        /\ UNCHANGED <<CurrentThread, PreviousThread, State, ReadyThreadsList, ReadyThreadsLock,
                       BlockLock, WaitingList, WaitLock, target>>
    BY <1>17 DEF ThreadSwitch, Goto, At, waitVars, threadVars, cpuVars
  <2>g. /\ Flags' \in [AllThreads -> SUBSET {"TerminatePending", "Terminated"}]
        /\ RefCnt' \in [AllThreads -> Int] /\ handle' \subseteq Threads /\ FlagsInv'
    BY <1>17 DEF ThreadSwitch, SchedulerTypeOK, FlagsInv, threadVars
  <2>w. \A d \in CPUs, u \in Threads : Woken(d, u)' <=> Woken(d, u)
    BY <2>f DEF Woken
  <2>1. SchedulerTypeOK'
    BY <2>f, <2>g DEF SchedulerTypeOK, CpuInv
  <2>2. LockInv'
    BY <2>f DEF LockInv
  <2>3. CpuInv'
    BY <2>f DEF CpuInv
  <2>4. CurrentInv'
    BY <2>f, <2>w DEF CurrentInv, ApartInv, CpuInv
  <2>5. ApartInv'
    BY <2>f DEF ApartInv, LockInv, CpuInv
  <2>6. BlockInv'
    BY <2>f DEF BlockInv, ApartInv, CurrentInv, CpuInv
  <2>7. ReadyInv'
    BY <2>f DEF ReadyInv, ApartInv, CurrentInv, CpuInv
  <2>8. WaitInv'
    BY <2>f, <2>w DEF WaitInv, ApartInv, CurrentInv, CpuInv
  <2>9. PlaceInv'
    BY <2>f, <2>w DEF PlaceInv, CpuInv
  <2>10. SavedInv'
    <3>1. /\ Executing(c)' = Cur(c) /\ Executing(c) = PreviousThread[c]
          /\ \A d \in CPUs \ {c} : Executing(d)' = Cur(d) /\ Executing(d) = Cur(d)
      BY <2>f DEF Executing, At, LockInv
    <3>2. \A d \in CPUs \ {c} : Cur(d) # Cur(c) /\ Cur(d) # PreviousThread[c]
      BY <2>f DEF ApartInv
    <3>3. PreviousThread[c] # Cur(c) /\ PreviousThread[c] \in AllThreads
      BY <2>f DEF CpuInv
    <3>4. \A d \in CPUs : Cur(d) \in AllThreads /\ State[Cur(d)] # "none"
      BY DEF CurrentInv, SavedInv, CpuInv
    <3>5. /\ saved'[PreviousThread[c]] = TRUE /\ saved'[Cur(c)] = FALSE
          /\ \A u \in AllThreads \ {PreviousThread[c], Cur(c)} : saved'[u] = saved[u]
      BY <2>f, <3>3
    <3>6. \A d \in CPUs : State'[d] # "none" /\ State'[Executing(d)'] # "none"
      BY <2>f, <3>1, <3>4 DEF SavedInv
    <3>7. ASSUME NEW u \in AllThreads, State[u] # "none"
          PROVE  saved'[u] <=> \A d \in CPUs : Executing(d)' # u
      <4>1. CASE u = PreviousThread[c]
        BY <3>1, <3>2, <3>3, <3>5, <4>1
      <4>2. CASE u = Cur(c)
        BY <3>1, <3>5, <4>2
      <4>3. CASE u \notin {PreviousThread[c], Cur(c)}
        <5>1. saved[u] <=> \A d \in CPUs : Executing(d) # u
          BY <3>7 DEF SavedInv
        <5>2. (\A d \in CPUs : Executing(d)' # u) <=> \A d \in CPUs : Executing(d) # u
          BY <3>1, <4>3
        <5> QED
          BY <3>5, <4>3, <5>1, <5>2
      <4> QED
        BY <4>1, <4>2, <4>3
    <3> QED
      BY <2>f, <3>6, <3>7 DEF SavedInv
  <2>11. FlagsInv'
    BY <2>g
  <2> QED
    BY <2>1, <2>2, <2>3, <2>4, <2>5, <2>6, <2>7, <2>8, <2>9, <2>10, <2>11 DEF SchedulerInv
<1>18. ASSUME NEW c \in CPUs, CleanupUnlock(c) PROVE SchedulerInv'
  <2>f. /\ pc[c] = "cleanup"
        /\ ReadyThreadsLock' = Nobody
        /\ pc' = [pc EXCEPT ![c] = "reap"]
        /\ UNCHANGED <<CurrentThread, PreviousThread, State, saved, ReadyThreadsList, BlockLock,
                       WaitingList, WaitLock, target>>
    BY <1>18 DEF CleanupUnlock, Goto, At, waitVars, threadVars, cpuVars
  <2>g. /\ Flags' \in [AllThreads -> SUBSET {"TerminatePending", "Terminated"}]
        /\ RefCnt' \in [AllThreads -> Int] /\ handle' \subseteq Threads /\ FlagsInv'
    BY <1>18 DEF CleanupUnlock, SchedulerTypeOK, FlagsInv, threadVars
  <2>x. \A d \in CPUs : Executing(d)' = Executing(d)
    BY <2>f DEF Executing, At
  <2>w. \A d \in CPUs, u \in Threads : Woken(d, u)' <=> Woken(d, u)
    BY <2>f DEF Woken
  <2>1. SchedulerTypeOK'
    BY <2>f, <2>g DEF SchedulerTypeOK, CpuInv
  <2>2. LockInv'
    BY <2>f DEF LockInv
  <2>3. CpuInv'
    BY <2>f DEF CpuInv
  <2>4. CurrentInv'
    BY <2>f, <2>w DEF CurrentInv, ApartInv, CpuInv
  <2>5. ApartInv'
    BY <2>f DEF ApartInv, LockInv, CpuInv
  <2>6. BlockInv'
    BY <2>f DEF BlockInv, ApartInv, CurrentInv, CpuInv
  <2>7. ReadyInv'
    BY <2>f DEF ReadyInv, ApartInv, CurrentInv, CpuInv
  <2>8. WaitInv'
    BY <2>f, <2>w DEF WaitInv, ApartInv, CurrentInv, CpuInv
  <2>9. PlaceInv'
    BY <2>f, <2>w DEF PlaceInv, CpuInv
  <2>10. SavedInv'
    BY <2>f, <2>x DEF SavedInv
  <2>11. FlagsInv'
    BY <2>g
  <2> QED
    BY <2>1, <2>2, <2>3, <2>4, <2>5, <2>6, <2>7, <2>8, <2>9, <2>10, <2>11 DEF SchedulerInv
<1>19. ASSUME NEW c \in CPUs, CleanupPrev(c) PROVE SchedulerInv'
  <2>f. /\ pc[c] = "reap"
        /\ BlockLock' = IF BlockLock[PreviousThread[c]] = c
                        THEN [BlockLock EXCEPT ![PreviousThread[c]] = Nobody] ELSE BlockLock
        /\ pc' = [pc EXCEPT ![c] = "run"]
        /\ PreviousThread' \in {PreviousThread, [PreviousThread EXCEPT ![c] = Nobody]}
        /\ UNCHANGED <<CurrentThread, State, saved, ReadyThreadsList, ReadyThreadsLock,
                       WaitingList, WaitLock, target>>
    BY <1>19 DEF CleanupPrev, CpuInv, Goto, At, waitVars
  <2>g. /\ Flags' \in [AllThreads -> SUBSET {"TerminatePending", "Terminated"}]
        /\ RefCnt' \in [AllThreads -> Int] /\ handle' \subseteq Threads /\ FlagsInv'
    BY <1>19 DEF CleanupPrev, SchedulerTypeOK, FlagsInv, threadVars
  <2>x. \A d \in CPUs : Executing(d)' = Executing(d)
    BY <2>f DEF Executing, At, CpuInv
  <2>w. \A d \in CPUs, u \in Threads : Woken(d, u)' <=> Woken(d, u)
    BY <2>f DEF Woken
  <2>1. SchedulerTypeOK'
    BY <2>f, <2>g DEF SchedulerTypeOK, CpuInv
  <2>2. LockInv'
    BY <2>f DEF LockInv
  <2>3. CpuInv'
    BY <2>f DEF CpuInv
  <2>4. CurrentInv'
    BY <2>f, <2>w DEF CurrentInv, ApartInv, CpuInv
  <2>5. ApartInv'
    BY <2>f DEF ApartInv, LockInv, CpuInv
  <2>6. BlockInv'
    BY <2>f DEF BlockInv, ApartInv, CurrentInv, CpuInv
  <2>7. ReadyInv'
    BY <2>f DEF ReadyInv, ApartInv, CurrentInv, CpuInv
  <2>8. WaitInv'
    BY <2>f, <2>w DEF WaitInv, ApartInv, CurrentInv, CpuInv
  <2>9. PlaceInv'
    BY <2>f, <2>w DEF PlaceInv, CpuInv
  <2>10. SavedInv'
    BY <2>f, <2>x DEF SavedInv
  <2>11. FlagsInv'
    BY <2>g
  <2> QED
    BY <2>1, <2>2, <2>3, <2>4, <2>5, <2>6, <2>7, <2>8, <2>9, <2>10, <2>11 DEF SchedulerInv
<1>20. CASE UNCHANGED schedVars
  BY <1>20 DEF schedVars, threadVars, cpuVars, waitVars, SchedulerInv, SchedulerTypeOK, LockInv,
     CpuInv, CurrentInv, ApartInv,
               BlockInv, ReadyInv, WaitInv, PlaceInv, SavedInv, FlagsInv, Woken, Executing, At
<1> QED
  BY <1>1, <1>2, <1>3, <1>4, <1>5, <1>6, <1>7, <1>8, <1>9, <1>10, <1>11, <1>12, <1>13, <1>14,
     <1>15, <1>16, <1>17, <1>18, <1>19, <1>20 DEF SchedulerNext, SchedulerStep, ThreadStep

-----------------------------------------------------------------------------
(* The theorems.                                                           *)

\* ThreadSystemInitMainForCurrentCPU and ThreadSystemInitIdleForCurrentCPU: the
\* CPUs start in their main threads, with empty lists and free locks.
LEMMA SchedulerInitInv == ThreadSystemInit => SchedulerInv
<1> SUFFICES ASSUME ThreadSystemInit PROVE SchedulerInv
  OBVIOUS
<1> USE SchedulerAssumption DEF SchedulerAssumption, AllThreads, Cur
<1>1. /\ CurrentThread \in [CPUs -> Threads]
      /\ \A c, d \in CPUs : c # d => CurrentThread[c] # CurrentThread[d]
      /\ pc = [c \in CPUs |-> "run"] /\ target = [c \in CPUs |-> Nobody]
      /\ ReadyThreadsList = <<>> /\ WaitingList = <<>>
      /\ ReadyThreadsLock = Nobody /\ WaitLock = Nobody
      /\ BlockLock = [t \in AllThreads |-> Nobody]
      /\ Flags = [t \in AllThreads |-> {}] /\ handle = {}
      /\ PreviousThread = [c \in CPUs |-> Nobody]
      /\ saved = [t \in AllThreads |-> t \in CPUs]
      /\ RefCnt = [t \in AllThreads |-> IF State[t] = "none" THEN 0 ELSE 1]
  BY DEF ThreadSystemInit, IsInjective
<1>2. /\ State \in [AllThreads -> {"none", "Running", "Ready", "Blocked", "Dying"}]
      /\ \A c \in CPUs : State[c] = "Ready"
      /\ \A t \in Threads : State[t] = IF \E c \in CPUs : CurrentThread[c] = t THEN "Running" ELSE "none"
  <2>1. Range(CurrentThread) = {CurrentThread[c] : c \in CPUs}
    BY <1>1 DEF Range
  <2>2. State = [t \in AllThreads |->
                   CASE t \in CPUs -> "Ready"
                     [] t \in Range(CurrentThread) -> "Running"
                     [] OTHER -> "none"]
    BY DEF ThreadSystemInit
  <2>3. \A t \in AllThreads : State[t] = IF t \in CPUs THEN "Ready"
                                         ELSE IF t \in Range(CurrentThread) THEN "Running" ELSE "none"
    <3>1. \A t \in CPUs : State[t] = "Ready"
      BY <2>1, <2>2, <1>1
    <3>2. \A t \in Threads : t \in Range(CurrentThread) => State[t] = "Running"
      BY <2>2
    <3>3. \A t \in Threads : t \notin Range(CurrentThread) => State[t] = "none"
      BY <2>2
    <3> QED
      BY <3>1, <3>2, <3>3
  <2>4. State \in [AllThreads -> {"none", "Running", "Ready", "Blocked", "Dying"}]
    BY <2>2, <2>3
  <2> QED
    BY <2>1, <2>3, <2>4
<1>3. \A t : ~Among(t, <<>>)
  BY DEF Among
<1>4. Distinct(<<>>)
  BY DEF Distinct
<1>5. SchedulerTypeOK
  BY <1>1, <1>2 DEF SchedulerTypeOK, Labels
<1>6. LockInv /\ CpuInv /\ ApartInv /\ FlagsInv
  BY <1>1 DEF LockInv, CpuInv, ApartInv, FlagsInv
<1>7. CurrentInv /\ BlockInv
  BY <1>1, <1>2 DEF CurrentInv, BlockInv
<1>8. ReadyInv /\ WaitInv
  BY <1>1, <1>3, <1>4 DEF ReadyInv, WaitInv, Woken
<1>9. PlaceInv
  BY <1>1, <1>2 DEF PlaceInv
<1>10. SavedInv
  <2>1. \A c \in CPUs : Executing(c) = CurrentThread[c]
    BY <1>1 DEF Executing, At
  <2>2. \A c \in CPUs : saved[c] = TRUE
    BY <1>1
  <2>3. \A t \in Threads : saved[t] = FALSE
    <3> SUFFICES ASSUME NEW t \in Threads PROVE saved[t] = FALSE
      OBVIOUS
    <3>1. saved[t] <=> t \in CPUs
      BY <1>1
    <3>2. saved[t] \in BOOLEAN
      BY <1>5 DEF SchedulerTypeOK
    <3> QED
      BY <3>1, <3>2
  <2> QED
    BY <1>1, <1>2, <2>1, <2>2, <2>3 DEF SavedInv
<1> QED
  BY <1>5, <1>6, <1>7, <1>8, <1>9, <1>10 DEF SchedulerInv

\* Every behaviour of the scheduler keeps the invariant, as long as nobody
\* terminates a thread that waits.
THEOREM SchedulerInvariant ==
    ASSUME Killable \intersect Waiters = {} PROVE SchedulerSpec => []SchedulerInv
<1>1. SchedulerInv /\ [SchedulerNext]_schedVars => SchedulerInv'
  BY SchedulerStepInv
<1> QED
  BY <1>1, SchedulerInitInv, PTL DEF SchedulerSpec

\* ThreadBlock, ThreadUnblock and ThreadCleanupPostSchedule: however CPUs race to
\* block, wake and pick a thread, a CPU loads only a context that was completely
\* stored, and no thread executes on two CPUs at once.
THEOREM ContextsAreSaved ==
    ASSUME Killable \intersect Waiters = {} PROVE SchedulerSpec => []ResumesSavedContext
<1>1. SchedulerInv => ResumesSavedContext
  <2> SUFFICES ASSUME SchedulerInv PROVE ResumesSavedContext
    OBVIOUS
  <2>1. \A c, d \in CPUs : Executing(c) = Executing(d) => c = d
    BY DEF SchedulerInv, ApartInv, LockInv, Executing, At, Cur
  <2>2. ASSUME NEW c \in CPUs, At(c, "switch") PROVE saved[Cur(c)]
    <3>1. Cur(c) \in AllThreads /\ State[Cur(c)] # "none"
      BY <2>2 DEF SchedulerInv, CurrentInv, CpuInv, SavedInv, At, AllThreads
    <3>2. \A d \in CPUs : Executing(d) # Cur(c)
      BY <2>2 DEF SchedulerInv, ApartInv, LockInv, CpuInv, Executing, At
    <3> QED
      BY <3>1, <3>2 DEF SchedulerInv, SavedInv
  <2> QED
    BY <2>1, <2>2 DEF ResumesSavedContext
<1> QED
  BY <1>1, SchedulerInvariant, PTL

\* How often the linked lists and the wakers hold a thread.
LEMMA OccurrencesOf ==
    ASSUME SchedulerInv, NEW t \in Threads
    PROVE  Occurrences(t) = (IF Among(t, ReadyThreadsList) THEN 1 ELSE 0)
                            + (IF Among(t, WaitingList) THEN 1 ELSE 0)
                            + (IF \E c \in CPUs : Woken(c, t) THEN 1 ELSE 0)
<1> DEFINE W == {c \in CPUs : target[c] = t /\ pc[c] \in {"wake", "ready"}}
<1>1. Cardinality({i \in DOMAIN ReadyThreadsList : ReadyThreadsList[i] = t})
          = IF Among(t, ReadyThreadsList) THEN 1 ELSE 0
  BY CountOnList DEF SchedulerInv, SchedulerTypeOK, ReadyInv
<1>2. Cardinality({i \in DOMAIN WaitingList : WaitingList[i] = t})
          = IF Among(t, WaitingList) THEN 1 ELSE 0
  BY CountOnList DEF SchedulerInv, SchedulerTypeOK, WaitInv
<1>3. Cardinality(W) = IF \E c \in CPUs : Woken(c, t) THEN 1 ELSE 0
  <2>1. CASE \E c \in CPUs : Woken(c, t)
    <3>1. PICK c \in CPUs : Woken(c, t)
      BY <2>1
    <3>2. \A d \in CPUs : Woken(d, t) => d = c
      BY <3>1 DEF SchedulerInv, WaitInv
    <3>3. W = {c}
      BY <3>1, <3>2 DEF Woken
    <3> QED
      BY <2>1, <3>3, FS_Singleton
  <2>2. CASE ~\E c \in CPUs : Woken(c, t)
    <3>1. W = {}
      BY <2>2 DEF Woken
    <3> QED
      BY <2>2, <3>1, FS_EmptySet
  <2> QED
    BY <2>1, <2>2
<1> QED
  BY <1>1, <1>2, <1>3 DEF Occurrences

\* ThreadYield, ThreadBlock, ThreadUnblock and _ThreadSchedule: a thread is on at
\* most one list, and only once, no live thread is lost, and the scheduler's
\* asserts hold.
THEOREM ThreadsHaveOnePlace ==
    ASSUME Killable \intersect Waiters = {} PROVE SchedulerSpec => []ThreadsAreInOnePlace
<1>1. SchedulerInv => ThreadsAreInOnePlace
  <2> SUFFICES ASSUME SchedulerInv PROVE ThreadsAreInOnePlace
    OBVIOUS
  <2>1. ASSUME NEW t \in Threads
        PROVE  /\ Among(t, ReadyThreadsList) => ~Among(t, WaitingList) /\ \A c \in CPUs : ~Woken(c, t)
               /\ Among(t, WaitingList) => \A c \in CPUs : ~Woken(c, t)
    BY DEF SchedulerInv, ReadyInv, WaitInv, BlockInv, Woken
  <2>2. OneListPerThread
    BY <2>1, OccurrencesOf DEF OneListPerThread
  <2>3. NoThreadLost
    <3> SUFFICES ASSUME NEW t \in Threads, State[t] \in {"Running", "Ready", "Blocked"},
                        \A c \in CPUs : Cur(c) # t
                 PROVE  Occurrences(t) = 1
      BY DEF NoThreadLost
    <3>1. \/ Among(t, ReadyThreadsList) \/ Among(t, WaitingList) \/ \E c \in CPUs : Woken(c, t)
      BY DEF SchedulerInv, PlaceInv
    <3> QED
      BY <2>1, <3>1, OccurrencesOf
  <2>4. SchedulerAsserts
    <3>1. \A c \in CPUs : At(c, "ready") => State[target[c]] = "Blocked"
      BY DEF SchedulerInv, BlockInv, At
    <3>2. \A i \in DOMAIN ReadyThreadsList : State[ReadyThreadsList[i]] = "Ready"
      <4> SUFFICES ASSUME NEW i \in DOMAIN ReadyThreadsList PROVE State[ReadyThreadsList[i]] = "Ready"
        OBVIOUS
      <4>1. ReadyThreadsList \in Seq(Threads)
        BY DEF SchedulerInv, SchedulerTypeOK
      <4>2. ReadyThreadsList[i] \in Threads /\ Among(ReadyThreadsList[i], ReadyThreadsList)
        BY <4>1 DEF Among
      <4> QED
        BY <4>2 DEF SchedulerInv, ReadyInv
    <3>3. ASSUME NEW c \in CPUs, At(c, "reap"), BlockLock[PreviousThread[c]] = c
          PROVE  State[PreviousThread[c]] = "Blocked"
      <4>1. PreviousThread[c] \in AllThreads /\ c # Nobody
        BY <3>3, SchedulerAssumption DEF SchedulerAssumption, SchedulerInv, CpuInv, At, AllThreads
      <4> QED
        BY <3>3, <4>1 DEF SchedulerInv, BlockInv, At
    <3> QED
      BY <3>1, <3>2, <3>3 DEF SchedulerAsserts
  <2> QED
    BY <2>2, <2>3, <2>4 DEF ThreadsAreInOnePlace, SchedulerInv
<1> QED
  BY <1>1, SchedulerInvariant, PTL

\* ThreadExit, ThreadCloseHandle and ThreadCleanupPostSchedule on one CPU: the
\* reference count of a thread is its own reference, dropped once, after the
\* switch away from it, and that of its handle.  With a second CPU the run
\* scheduler_exit refutes it.
THEOREM ReferencesAreExactOnOneCpu ==
    ASSUME Killable \intersect Waiters = {}, NEW c, CPUs = {c}
    PROVE  SchedulerSpec => []RefCntExact
<1> DEFINE Alive(t) ==
      \/ State[t] \in {"Running", "Ready", "Blocked"}
      \/ /\ State[t] = "Dying"
         /\ CurrentThread[c] = t \/ (PreviousThread[c] = t /\ pc[c] \in {"switch", "cleanup", "reap"})
    Exact == \A t \in Threads : RefCnt[t] = (IF t \in handle THEN 1 ELSE 0) + (IF Alive(t) THEN 1 ELSE 0)
<1>0. Exact <=> RefCntExact
  BY DEF RefCntExact, Cur
<1>1. ThreadSystemInit => Exact
  <2> SUFFICES ASSUME ThreadSystemInit, NEW t \in Threads
               PROVE  RefCnt[t] = (IF t \in handle THEN 1 ELSE 0) + (IF Alive(t) THEN 1 ELSE 0)
    OBVIOUS
  <2>1. State[t] \in {"none", "Running"}
    BY SchedulerAssumption DEF SchedulerAssumption, ThreadSystemInit, AllThreads
  <2> QED
    BY <2>1 DEF ThreadSystemInit, AllThreads
<1>2. SchedulerInv /\ Exact /\ [SchedulerNext]_schedVars => Exact'
  <2> SUFFICES ASSUME SchedulerInv, Exact, [SchedulerNext]_schedVars PROVE Exact'
    OBVIOUS
  <2> USE SchedulerAssumption DEF SchedulerAssumption, AllThreads, Cur, Goto, At, threadVars, cpuVars, waitVars
  <2>0. /\ SchedulerTypeOK /\ CpuInv /\ CurrentInv /\ BlockInv /\ ReadyInv
        /\ State \in [AllThreads -> {"none", "Running", "Ready", "Blocked", "Dying"}]
        /\ RefCnt \in [AllThreads -> Int] /\ pc \in [CPUs -> Labels]
        /\ CurrentThread \in [CPUs -> AllThreads]
        /\ PreviousThread \in [CPUs -> AllThreads \union {Nobody}]
        /\ BlockLock \in [AllThreads -> CPUs \union {Nobody}]
    BY DEF SchedulerInv, SchedulerTypeOK
  <2>1. ASSUME NEW t \in Threads, ThreadCreate(c, t) \/ ThreadCloseHandle(c, t) PROVE Exact'
    BY <2>0, <2>1 DEF ThreadCreate, ThreadCloseHandle
  <2>2. ASSUME NEW t \in Threads, ThreadTerminate(c, t) PROVE Exact'
    BY <2>0, <2>2 DEF ThreadTerminate
  <2>3. ASSUME ThreadYield(c) \/ LinkWaiter(c) \/ ThreadTakeBlockLock(c) \/ IdleThread(c)
               \/ UnlinkWaiter(c) \/ UnblockLock(c) \/ UnblockDone(c) \/ LockReady(c)
               \/ ThreadSwitch(c) \/ CleanupUnlock(c)
        PROVE  Exact'
    <3>1. /\ UNCHANGED <<State, RefCnt, handle, CurrentThread, PreviousThread>>
          /\ pc'[c] \in {"switch", "cleanup", "reap"} <=> pc[c] \in {"switch", "cleanup", "reap"}
      BY <2>0, <2>3 DEF ThreadYield, LinkWaiter, ThreadTakeBlockLock, IdleThread, UnlinkWaiter,
         UnblockLock,
                        UnblockDone, LockReady, ThreadSwitch, CleanupUnlock
    <3> QED
      BY <3>1
  <2>4. ASSUME YieldEnqueue(c) \/ ThreadBlock(c) \/ ThreadExit(c) PROVE Exact'
    BY <2>0, <2>4 DEF YieldEnqueue, ThreadBlock, ThreadExit, CurrentInv, CpuInv
  <2>5. ASSUME UnblockQueue(c) PROVE Exact'
    BY <2>0, <2>5 DEF UnblockQueue, BlockInv, CpuInv
  <2>6. ASSUME Schedule(c) PROVE Exact'
    <3>1. /\ UNCHANGED <<State, RefCnt, handle>>
          /\ PreviousThread' = [PreviousThread EXCEPT ![c] = CurrentThread[c]]
          /\ pc'[c] \in {"cleanup", "switch"} /\ pc[c] = "schedule"
      BY <2>0, <2>6 DEF Schedule
    <3>2. CurrentThread'[c] = c \/ State[CurrentThread'[c]] = "Ready"
      <4>1. CASE ReadyThreadsList = <<>>
        BY <2>0, <2>6, <4>1 DEF Schedule
      <4>2. CASE ReadyThreadsList # <<>>
        <5>1. Head(ReadyThreadsList) \in Threads /\ Among(Head(ReadyThreadsList), ReadyThreadsList)
          BY <2>0, <4>2, TailOfList DEF SchedulerTypeOK, ReadyInv
        <5>2. CurrentThread'[c] = Head(ReadyThreadsList)
          BY <2>0, <2>6, <4>2 DEF Schedule
        <5> QED
          BY <2>0, <5>1, <5>2 DEF ReadyInv
      <4> QED
        BY <4>1, <4>2
    <3> QED
      BY <2>0, <3>1, <3>2
  <2>7. ASSUME CleanupPrev(c) PROVE Exact'
    BY <2>0, <2>7 DEF CleanupPrev, CpuInv, CurrentInv, BlockInv
  <2>8. CASE UNCHANGED schedVars
    BY <2>8 DEF schedVars
  <2> QED
    BY <2>1, <2>2, <2>3, <2>4, <2>5, <2>6, <2>7, <2>8 DEF SchedulerNext, SchedulerStep, ThreadStep
<1> HIDE DEF Exact
<1> QED
  BY <1>0, <1>1, <1>2, SchedulerInvariant, PTL DEF SchedulerSpec

-----------------------------------------------------------------------------
(* The process.                                                            *)

\* Process has its copies of what it takes from FiniteSets.
LEMMA SameFiniteSets ==
    /\ \A S : P!IsFiniteSet(S) <=> IsFiniteSet(S)
    /\ \A S : P!Cardinality(S) = Cardinality(S)
<1>1. \A S : P!IsFiniteSet(S) <=> IsFiniteSet(S)
  BY DEF P!IsFiniteSet, IsFiniteSet
<1>2. \A S : P!Cardinality(S) = Cardinality(S)
  BY DEF P!Cardinality, Cardinality
<1> QED
  BY <1>1, <1>2

\* The threads in one of the states L.
In(L) == {t \in ProcessThreads : life[t] \in L}

Counted == {"setup", "run", "notify"}          \* by ActiveThreads
Ended == {"destroy", "orphan", "gone"}         \* without a reference
Owning == {"setup", "run", "notify", "last", "signal", "dead"}   \* with their own reference
Listed == Owning \union {"zombie", "destroy"}

\* The values the variables can take, with counters of any size.
Types ==
    /\ {ProcessRefCnt, NumberOfThreads, ActiveThreads, destroyed} \subseteq Int
    /\ ThreadList \subseteq ProcessThreads /\ doomed \subseteq ProcessThreads
    /\ {TerminationEvt, missed} \subseteq BOOLEAN
    /\ {TerminationStatus, result, lastExit} \subseteq ProcessThreads \union {Nobody}
    /\ life \in [ProcessThreads -> P!Lives] /\ threadRefs \in [ProcessThreads -> Int]
    /\ step \in [P!Actors -> P!Steps] /\ making \in [P!Actors -> ProcessThreads \union {Nobody}]
    /\ creator \in P!CreatorStates

\* An actor in ThreadCreateEx or UmApplicationRun has a thread of its own to make.
MakingInv ==
    /\ \A a \in P!Actors :
           /\ step[a] = "idle" <=> making[a] = Nobody
           /\ step[a] = "setup" => life[making[a]] = "setup"
           /\ step[a] = "close" => life[making[a]] \in Listed \ {"setup", "destroy"}
           /\ step[a] = "reap" => life[making[a]] \in Ended
    /\ \A a, b \in P!Actors : making[a] = making[b] /\ making[a] # Nobody => a = b

\* Somebody has, or has lost, the handle that ThreadCreateEx gave out for t.
Open(t) == life[t] = "setup" \/ \E a \in P!Actors : making[a] = t /\ step[a] = "close"

\* THREAD.RefCnt counts the thread's own reference and its handle; a thread
\* that has ended is kept by its handle only.
RefsInv ==
    \A t \in ProcessThreads :
        /\ threadRefs[t] = (IF life[t] \in Owning THEN 1 ELSE 0) + (IF Open(t) THEN 1 ELSE 0)
        /\ life[t] = "zombie" => Open(t)

\* Nothing but the main thread is made before ProcessCreate has succeeded.
YoungInv ==
    IF creator \in {"load", "abort", "failed"}
    THEN /\ life[Main] \in {"none", "setup"} /\ \A t \in ProcessThreads \ {Main} : life[t] = "none"
         /\ ~TerminationEvt
    ELSE life[Main] \notin {"none", "setup"}

\* The structural part of the invariant.
LivesInv == Types /\ MakingInv /\ RefsInv /\ YoungInv

\* ProcessCreate starts with nothing.
LEMMA LivesInitInv == ASSUME P!ProcessAssumption PROVE P!ProcessInit => LivesInv
<1> SUFFICES ASSUME P!ProcessInit PROVE LivesInv
  OBVIOUS
<1> USE P!ProcessAssumption DEF P!ProcessAssumption, P!ProcessInit, P!Actors
<1>1. Types
  <2>1. /\ life \in [ProcessThreads -> P!Lives] /\ threadRefs \in [ProcessThreads -> Int]
        /\ step \in [P!Actors -> P!Steps] /\ making \in [P!Actors -> ProcessThreads \union {Nobody}]
    BY DEF P!Lives, P!Steps
  <2>2. {TerminationEvt, missed} \subseteq BOOLEAN /\ creator \in P!CreatorStates
    BY DEF P!CreatorStates
  <2> QED
    BY <2>1, <2>2 DEF Types
<1>2. MakingInv /\ RefsInv
  BY DEF MakingInv, RefsInv, Open, Owning
<1>3. YoungInv
  BY DEF YoungInv
<1> QED
  BY <1>1, <1>2, <1>3 DEF LivesInv

\* Every step keeps threads, their handles and their makers consistent.
LEMMA LivesStepInv ==
    ASSUME P!ProcessAssumption PROVE LivesInv /\ [P!ProcessNext]_(P!procVars) => LivesInv'
<1> SUFFICES ASSUME LivesInv, [P!ProcessNext]_(P!procVars) PROVE LivesInv'
  OBVIOUS
<1> USE P!ProcessAssumption
<1> USE DEF P!ProcessAssumption, LivesInv, Types, MakingInv, RefsInv, Open, YoungInv, Owning, Listed,
            Ended, P!Actors, P!Lives, P!Steps, P!CreatorStates, P!Waiting, P!Live, P!countVars, P!endVars, P!Executes, P!CanGoOn,
            P!MayEnd, P!HasHandle, P!ProcessDereference
<1>1. ASSUME NEW a \in P!Actors, NEW t \in ProcessThreads, P!ProcessInsertThreadInList(a, t) PROVE LivesInv'
  BY <1>1 DEF P!ProcessInsertThreadInList
<1>2. ASSUME NEW a \in P!Actors, P!ThreadSetupFails(a) PROVE LivesInv'
  BY <1>2 DEF P!ThreadSetupFails
<1>3. ASSUME NEW a \in P!Actors, P!ThreadStarts(a) PROVE LivesInv'
  BY <1>3 DEF P!ThreadStarts
<1>4. ASSUME NEW a \in P!Actors, P!ThreadCloseHandle(a) PROVE LivesInv'
  BY <1>4 DEF P!ThreadCloseHandle
<1>5. ASSUME NEW a \in P!Actors, P!ThreadDestroyed(a) PROVE LivesInv'
  BY <1>5 DEF P!ThreadDestroyed
<1>6. ASSUME P!ProcessLoadFails PROVE LivesInv'
  BY <1>6 DEF P!ProcessLoadFails
<1>7. ASSUME P!ProcessCreateAborts PROVE LivesInv'
  BY <1>7 DEF P!ProcessCreateAborts
<1>8. ASSUME P!ProcessCreateReturns PROVE LivesInv'
  BY <1>8 DEF P!ProcessCreateReturns
<1>9. ASSUME P!ProcessWaitForTermination \/ P!TestTerminationEvt \/ P!LinkToTerminationEvt
               \/ P!WaitForTerminationReturns \/ P!ProcessCloseHandle PROVE LivesInv'
  BY <1>9 DEF P!ProcessWaitForTermination, P!TestTerminationEvt, P!LinkToTerminationEvt,
     P!WaitForTerminationReturns, P!ProcessCloseHandle
<1>10. ASSUME NEW a \in P!Actors, P!ProcessTerminate(a) PROVE LivesInv'
  BY <1>10 DEF P!ProcessTerminate
<1>11. ASSUME NEW t \in ProcessThreads, P!ThreadReturns(t) \/ P!ThreadForcedExit(t) PROVE LivesInv'
  BY <1>11 DEF P!ThreadReturns, P!ThreadForcedExit
<1>12. ASSUME NEW t \in ProcessThreads, P!ProcessNotifyThreadTermination(t) PROVE LivesInv'
  BY <1>12 DEF P!ProcessNotifyThreadTermination
<1>13. ASSUME NEW t \in ProcessThreads, P!SetTerminationStatus(t) PROVE LivesInv'
  BY <1>13 DEF P!SetTerminationStatus
<1>14. ASSUME NEW t \in ProcessThreads, P!SignalTermination(t) PROVE LivesInv'
  BY <1>14 DEF P!SignalTermination
<1>15. ASSUME NEW t \in ProcessThreads, P!CleanupDereferences(t) PROVE LivesInv'
  BY <1>15 DEF P!CleanupDereferences
<1>16. ASSUME NEW t \in ProcessThreads, P!ProcessRemoveThreadFromList(t) PROVE LivesInv'
  BY <1>16 DEF P!ProcessRemoveThreadFromList
<1>17. ASSUME NEW t \in ProcessThreads, P!DropInitialReference(t) PROVE LivesInv'
  BY <1>17 DEF P!DropInitialReference
<1>18. CASE UNCHANGED P!procVars
  BY <1>18 DEF P!procVars
<1> QED
  BY <1>1, <1>2, <1>3, <1>4, <1>5, <1>6, <1>7, <1>8, <1>9, <1>10, <1>11, <1>12, <1>13, <1>14,
     <1>15, <1>16, <1>17, <1>18
  DEF P!ProcessNext, P!CreatorNext, P!ThreadNext, P!CreateNext

-----------------------------------------------------------------------------
(* Counting.                                                               *)

\* How the number of threads in a set follows a thread that comes or goes.
LEMMA CountThreads ==
    ASSUME P!ProcessAssumption, NEW S \in SUBSET ProcessThreads, NEW t \in ProcessThreads
    PROVE  /\ Cardinality(S) \in 0 .. Cardinality(ProcessThreads) /\ Cardinality(ProcessThreads) \in Nat
           /\ t \notin S => Cardinality(S \union {t}) = Cardinality(S) + 1
           /\ t \in S => Cardinality(S \ {t}) = Cardinality(S) - 1
           /\ S = {} <=> Cardinality(S) = 0
<1>1. IsFiniteSet(ProcessThreads)
  BY SameFiniteSets DEF P!ProcessAssumption
<1>2. IsFiniteSet(S) /\ Cardinality(S) <= Cardinality(ProcessThreads)
  BY <1>1, FS_Subset
<1>3. Cardinality(S) \in Nat /\ Cardinality(ProcessThreads) \in Nat
  BY <1>1, <1>2, FS_CardinalityType
<1>4. t \notin S => Cardinality(S \union {t}) = Cardinality(S) + 1
  BY <1>2, FS_AddElement
<1>5. t \in S => Cardinality(S \ {t}) = Cardinality(S) - 1
  BY <1>2, FS_RemoveElement
<1>6. S = {} <=> Cardinality(S) = 0
  BY <1>2, FS_EmptySet
<1> QED
  BY <1>2, <1>3, <1>4, <1>5, <1>6

\* The thread list and the two counters of the PROCESS say what they should.
ListInv ==
    /\ ThreadList = In(Listed)
    /\ NumberOfThreads = Cardinality(In(Listed))
    /\ ActiveThreads = Cardinality(In(Counted))

\* ProcessCreate starts with no threads.
LEMMA ListInitInv == ASSUME P!ProcessAssumption PROVE P!ProcessInit => ListInv
<1> SUFFICES ASSUME P!ProcessInit PROVE ListInv
  OBVIOUS
<1>1. In(Listed) = {} /\ In(Counted) = {}
  BY DEF P!ProcessInit, In, Listed, Owning, Counted
<1> QED
  BY <1>1, FS_EmptySet DEF P!ProcessInit, ListInv

\* Inserting, notifying and removing keep list and counters exact.
LEMMA ListStepInv ==
    ASSUME P!ProcessAssumption PROVE LivesInv /\ ListInv /\ [P!ProcessNext]_(P!procVars) => ListInv'
<1> SUFFICES ASSUME LivesInv, ListInv, [P!ProcessNext]_(P!procVars) PROVE ListInv'
  OBVIOUS
<1> USE P!ProcessAssumption
<1>0. /\ In(Listed) \in SUBSET ProcessThreads /\ In(Counted) \in SUBSET ProcessThreads
      /\ life \in [ProcessThreads -> P!Lives]
      /\ \A t \in ProcessThreads : /\ t \in In(Listed) <=> life[t] \in Listed
                            /\ t \in In(Counted) <=> life[t] \in Counted
  BY DEF In, LivesInv, Types
\* A move between states that count alike.
<1>m. ASSUME NEW t \in ProcessThreads, NEW l, P!Live(t, l), UNCHANGED <<NumberOfThreads, ActiveThreads, ThreadList>>,
             l \in Listed <=> life[t] \in Listed, l \in Counted <=> life[t] \in Counted
      PROVE  ListInv'
  <2>1. In(Listed)' = In(Listed) /\ In(Counted)' = In(Counted)
    BY <1>0, <1>m DEF In, P!Live
  <2> QED
    BY <1>m, <2>1 DEF ListInv
<1>s. ASSUME UNCHANGED <<life, NumberOfThreads, ActiveThreads, ThreadList>> PROVE ListInv'
  BY <1>s DEF ListInv, In
<1> USE DEF Listed, Owning, Counted, P!countVars
<1>1. ASSUME NEW a \in P!Actors, NEW t \in ProcessThreads, P!ProcessInsertThreadInList(a, t) PROVE ListInv'
  <2>1. /\ In(Listed)' = In(Listed) \union {t} /\ t \notin In(Listed)
        /\ In(Counted)' = In(Counted) \union {t} /\ t \notin In(Counted)
    BY <1>0, <1>1 DEF P!ProcessInsertThreadInList, In, P!Live
  <2>2. /\ Cardinality(In(Listed)') = Cardinality(In(Listed)) + 1
        /\ Cardinality(In(Counted)') = Cardinality(In(Counted)) + 1
    BY <1>0, <2>1, CountThreads
  <2> QED
    BY <1>1, <2>1, <2>2 DEF P!ProcessInsertThreadInList, ListInv
<1>3. ASSUME NEW a \in P!Actors, P!ThreadStarts(a) PROVE ListInv'
  <2>1. making[a] \in ProcessThreads /\ life[making[a]] = "setup"
    BY <1>3 DEF P!ThreadStarts, LivesInv, Types, MakingInv
  <2> QED
    BY <1>3, <1>m, <2>1 DEF P!ThreadStarts
<1>4. ASSUME NEW a \in P!Actors, P!ThreadCloseHandle(a) PROVE ListInv'
  <2>1. CASE threadRefs[making[a]] # 1
    BY <1>4, <1>s, <2>1 DEF P!ThreadCloseHandle
  <2>2. CASE threadRefs[making[a]] = 1
    <3>1. making[a] \in ProcessThreads /\ life[making[a]] = "zombie"
      BY <1>4, <2>2 DEF P!ThreadCloseHandle, LivesInv, Types, MakingInv, RefsInv, Open
    <3> QED
      BY <1>4, <1>m, <2>2, <3>1 DEF P!ThreadCloseHandle
  <2> QED
    BY <2>1, <2>2
<1>10. ASSUME NEW a \in P!Actors, P!ProcessTerminate(a) PROVE ListInv'
  <2>1. CASE a \in ThreadList
    <3>1. a \in ProcessThreads /\ life[a] = "run"
      BY <1>10, <2>1, <1>0 DEF P!ProcessTerminate, P!MayEnd, ListInv, P!ProcessAssumption
    <3> QED
      BY <1>10, <1>m, <2>1, <3>1 DEF P!ProcessTerminate
  <2>2. CASE a \notin ThreadList
    BY <1>10, <1>s, <2>2 DEF P!ProcessTerminate
  <2> QED
    BY <2>1, <2>2
<1>11. ASSUME NEW t \in ProcessThreads, P!ThreadReturns(t) \/ P!ThreadForcedExit(t) PROVE ListInv'
  BY <1>11, <1>m DEF P!ThreadReturns, P!ThreadForcedExit, P!MayEnd
<1>12. ASSUME NEW t \in ProcessThreads, P!ProcessNotifyThreadTermination(t) PROVE ListInv'
  <2>1. /\ In(Listed)' = In(Listed)
        /\ In(Counted)' = In(Counted) \ {t} /\ t \in In(Counted)
    BY <1>0, <1>12 DEF P!ProcessNotifyThreadTermination, In, P!Live
  <2>2. Cardinality(In(Counted)') = Cardinality(In(Counted)) - 1
    BY <1>0, <2>1, CountThreads
  <2> QED
    BY <1>12, <2>1, <2>2 DEF P!ProcessNotifyThreadTermination, ListInv
<1>13. ASSUME NEW t \in ProcessThreads, P!SetTerminationStatus(t) \/ P!SignalTermination(t) PROVE ListInv'
  BY <1>13, <1>m DEF P!SetTerminationStatus, P!SignalTermination
<1>15. ASSUME NEW t \in ProcessThreads, P!CleanupDereferences(t) PROVE ListInv'
  BY <1>15, <1>m DEF P!CleanupDereferences
<1>16. ASSUME NEW t \in ProcessThreads, P!ProcessRemoveThreadFromList(t) PROVE ListInv'
  <2>1. /\ In(Listed)' = In(Listed) \ {t} /\ t \in In(Listed)
        /\ In(Counted)' = In(Counted)
    BY <1>0, <1>16 DEF P!ProcessRemoveThreadFromList, In, P!Live
  <2>2. Cardinality(In(Listed)') = Cardinality(In(Listed)) - 1
    BY <1>0, <2>1, CountThreads
  <2> QED
    BY <1>16, <2>1, <2>2 DEF P!ProcessRemoveThreadFromList, ListInv
<1>17. ASSUME NEW t \in ProcessThreads, P!DropInitialReference(t) PROVE ListInv'
  BY <1>17, <1>m DEF P!DropInitialReference
<1>18. ASSUME \/ \E a \in P!Actors : P!ThreadSetupFails(a) \/ P!ThreadDestroyed(a)
              \/ P!CreatorNext \/ UNCHANGED P!procVars
       PROVE  ListInv'
  BY <1>18, <1>s
  DEF P!ThreadSetupFails, P!ThreadDestroyed, P!CreatorNext, P!ProcessLoadFails, P!ProcessCreateAborts,
      P!ProcessCreateReturns, P!ProcessWaitForTermination, P!TestTerminationEvt, P!LinkToTerminationEvt,
      P!WaitForTerminationReturns,
      P!ProcessCloseHandle, P!procVars
<1> QED
  BY <1>1, <1>3, <1>4, <1>10, <1>11, <1>12, <1>13, <1>15, <1>16, <1>17, <1>18
  DEF P!ProcessNext, P!ThreadNext, P!CreateNext

-----------------------------------------------------------------------------
(* The end of the process.                                                 *)

\* The last thread to leave finds no other, and nobody comes after it; what it
\* stores and signals is its own.
EndInv ==
    /\ \A t \in ProcessThreads :
           /\ life[t] \in {"last", "signal"} =>
                  /\ \A u \in ProcessThreads : life[u] \notin Counted
                  /\ lastExit = t /\ ~TerminationEvt
           /\ life[t] = "signal" => TerminationStatus = t
           /\ life[t] = "orphan" =>
                  \A u \in ProcessThreads : life[u] \notin Listed /\ (life[u] = "orphan" => u = t)
    /\ TerminationEvt =>
           /\ \A u \in ProcessThreads : life[u] \notin Counted
           /\ TerminationStatus = lastExit /\ lastExit # Nobody
    /\ creator \in {"status", "waited"} => TerminationEvt
    /\ creator = "waited" => result = lastExit

\* The counters are zero exactly when there is nothing to count: the thread list,
\* NumberOfThreads and ActiveThreads when the threads are as in f.
LEMMA CountersOfNothing ==
    ASSUME P!ProcessAssumption, NEW f, NEW T, NEW n, NEW a,
           T = {u \in ProcessThreads : f[u] \in Listed}, n = Cardinality(T),
           a = Cardinality({u \in ProcessThreads : f[u] \in Counted})
    PROVE  /\ n \in 0 .. Cardinality(ProcessThreads) /\ Cardinality(ProcessThreads) \in Nat
           /\ a \in 0 .. Cardinality(ProcessThreads)
           /\ n = 0 <=> \A u \in ProcessThreads : f[u] \notin Listed
           /\ a = 0 <=> \A u \in ProcessThreads : f[u] \notin Counted
           /\ \A u \in ProcessThreads : u \in T <=> f[u] \in Listed
<1> DEFINE A == {u \in ProcessThreads : f[u] \in Counted}
<1>2. Main \in ProcessThreads /\ T \in SUBSET ProcessThreads /\ A \in SUBSET ProcessThreads
  BY DEF P!ProcessAssumption
<1>5. /\ T = {} <=> \A u \in ProcessThreads : f[u] \notin Listed
      /\ A = {} <=> \A u \in ProcessThreads : f[u] \notin Counted
      /\ \A u \in ProcessThreads : u \in T <=> f[u] \in Listed
  OBVIOUS
<1> HIDE DEF A
<1>3. /\ Cardinality(T) \in 0 .. Cardinality(ProcessThreads) /\ Cardinality(ProcessThreads) \in Nat
      /\ T = {} <=> Cardinality(T) = 0
  BY <1>2, CountThreads
<1>4. /\ Cardinality(A) \in 0 .. Cardinality(ProcessThreads)
      /\ A = {} <=> Cardinality(A) = 0
  BY <1>2, CountThreads
<1>6. a = Cardinality(A)
  BY DEF A
<1> QED
  BY <1>3, <1>4, <1>5, <1>6

\* ProcessNotifyThreadTermination ends the process once, with the last status.
LEMMA EndStepInv ==
    ASSUME P!ProcessAssumption
    PROVE  LivesInv /\ EndInv /\ [P!ProcessNext]_(P!procVars) /\ ListInv' => EndInv'
<1> SUFFICES ASSUME LivesInv, EndInv, [P!ProcessNext]_(P!procVars), ListInv' PROVE EndInv'
  OBVIOUS
<1> USE P!ProcessAssumption
<1>c. /\ NumberOfThreads' \in Int /\ ActiveThreads' \in Int
      /\ NumberOfThreads' = 0 <=> \A u \in ProcessThreads : life'[u] \notin Listed
      /\ ActiveThreads' = 0 <=> \A u \in ProcessThreads : life'[u] \notin Counted
  <2> DEFINE T == {u \in ProcessThreads : life'[u] \in Listed}
             A == {u \in ProcessThreads : life'[u] \in Counted}
  <2>1. T = T /\ NumberOfThreads' = Cardinality(T) /\ ActiveThreads' = Cardinality(A)
    BY DEF ListInv, In
  <2> QED
    BY <2>1, CountersOfNothing
<1>0. Types /\ MakingInv /\ YoungInv /\ RefsInv
  BY DEF LivesInv
<1> USE <1>0, <1>c DEF EndInv, Listed, Owning, Counted, Types, YoungInv, P!Actors, P!Lives, P!Live,
                 P!countVars, P!endVars, P!ProcessAssumption
<1>1. ASSUME NEW a \in P!Actors, NEW t \in ProcessThreads, P!ProcessInsertThreadInList(a, t) PROVE EndInv'
  BY <1>1 DEF P!ProcessInsertThreadInList, P!Executes
<1>3. ASSUME NEW a \in P!Actors, P!ThreadStarts(a) PROVE EndInv'
  BY <1>3 DEF P!ThreadStarts, MakingInv
<1>4. ASSUME NEW a \in P!Actors, P!ThreadCloseHandle(a) PROVE EndInv'
  BY <1>4 DEF P!ThreadCloseHandle, MakingInv, RefsInv, Open
<1>8. ASSUME P!CreatorNext PROVE EndInv'
  BY <1>8 DEF P!CreatorNext, P!ProcessLoadFails, P!ProcessCreateAborts, P!ProcessCreateReturns,
              P!ProcessWaitForTermination, P!TestTerminationEvt, P!LinkToTerminationEvt,
     P!WaitForTerminationReturns, P!ProcessCloseHandle
<1>10. ASSUME NEW a \in P!Actors, P!ProcessTerminate(a) PROVE EndInv'
  BY <1>10 DEF P!ProcessTerminate, P!MayEnd
<1>11. ASSUME NEW t \in ProcessThreads, P!ThreadReturns(t) \/ P!ThreadForcedExit(t) PROVE EndInv'
  BY <1>11 DEF P!ThreadReturns, P!ThreadForcedExit, P!MayEnd
<1>12. ASSUME NEW t \in ProcessThreads, P!ProcessNotifyThreadTermination(t) PROVE EndInv'
  BY <1>12 DEF P!ProcessNotifyThreadTermination
<1>13. ASSUME NEW t \in ProcessThreads, P!SetTerminationStatus(t) \/ P!SignalTermination(t) PROVE EndInv'
  BY <1>13 DEF P!SetTerminationStatus, P!SignalTermination
<1>15. ASSUME NEW t \in ProcessThreads, P!CleanupDereferences(t) PROVE EndInv'
  BY <1>15 DEF P!CleanupDereferences
<1>16. ASSUME NEW t \in ProcessThreads, P!ProcessRemoveThreadFromList(t) PROVE EndInv'
  BY <1>16 DEF P!ProcessRemoveThreadFromList
<1>17. ASSUME NEW t \in ProcessThreads, P!DropInitialReference(t) PROVE EndInv'
  BY <1>17 DEF P!DropInitialReference
<1>18. ASSUME (\E a \in P!Actors : P!ThreadSetupFails(a) \/ P!ThreadDestroyed(a)) \/ UNCHANGED P!procVars PROVE EndInv'
  BY <1>18 DEF P!ThreadSetupFails, P!ThreadDestroyed, P!procVars
<1> QED
  BY <1>1, <1>3, <1>4, <1>8, <1>10, <1>11, <1>12, <1>13, <1>15, <1>16, <1>17, <1>18
  DEF P!ProcessNext, P!ThreadNext, P!CreateNext

\* ProcessCreate starts with no thread that has ended.
LEMMA EndInitInv == P!ProcessInit => EndInv
BY DEF P!ProcessInit, EndInv

\* Threads, list, counters and the end of the process together.
ProcessInv == LivesInv /\ ListInv /\ EndInv

\* At every moment the thread list and the two counters of the PROCESS are exact
\* and the process ends once, however threads are created by halves, terminated
\* and closed; even when they end before ProcessCreate returns.
THEOREM ProcessInvariant == ASSUME P!ProcessAssumption PROVE P!ProcessSpec => []ProcessInv
<1>1. P!ProcessInit => ProcessInv
  BY LivesInitInv, ListInitInv, EndInitInv DEF ProcessInv
<1>2. ProcessInv /\ [P!ProcessNext]_(P!procVars) => ProcessInv'
  BY LivesStepInv, ListStepInv, EndStepInv DEF ProcessInv
<1> QED
  BY <1>1, <1>2, PTL DEF P!ProcessSpec

\* ProcessNotifyThreadTermination and ProcessWaitForTermination: once
\* TerminationEvt is signaled no thread executes or is being created, and who
\* waited is told the status of the thread that was the last to exit.
THEOREM ProcessTerminationIsFinal ==
    ASSUME P!ProcessAssumption PROVE P!ProcessSpec => []P!TerminationIsFinal
<1>1. ProcessInv => P!TerminationIsFinal
  <2> SUFFICES ASSUME ProcessInv PROVE P!TerminationIsFinal
    OBVIOUS
  <2> DEFINE A == {u \in ProcessThreads : life[u] \in Counted}
  <2>1. ThreadList = {u \in ProcessThreads : life[u] \in Listed} /\ ActiveThreads = Cardinality(A)
        /\ NumberOfThreads = Cardinality(ThreadList)
    BY DEF ProcessInv, ListInv, In
  <2>2. ActiveThreads = 0 <=> \A u \in ProcessThreads : life[u] \notin Counted
    BY <2>1, CountersOfNothing
  <2> QED
    BY <2>2 DEF ProcessInv, EndInv, P!TerminationIsFinal, P!TerminatedMeansNoThreads,
                P!StatusIsOfLastThread, Counted
<1> QED
  BY <1>1, ProcessInvariant, PTL

-----------------------------------------------------------------------------
(* The references of the PROCESS, when no thread ends before ProcessCreate *)
(* has taken the reference of its handle.                                  *)

\* The reference the process is born with, and the one of the handle.
Born == IF \/ creator = "failed"
           \/ /\ life[Main] # "none" /\ \A u \in ProcessThreads : life[u] \notin Listed
              /\ \A u \in ProcessThreads : life[u] # "orphan"
        THEN 0 ELSE 1
Handle == IF P!HasHandle THEN 1 ELSE 0

\* The count is exact, and zero exactly when _ProcessDestroy has run.
CountInv ==
    /\ creator = "created" => \A t \in ProcessThreads : life[t] \in {"none", "setup", "run"}
    /\ ProcessRefCnt = NumberOfThreads + Born + Handle
    /\ destroyed = IF ProcessRefCnt = 0 THEN 1 ELSE 0

\* Every step takes and gives up the references it should.
LEMMA CountStepInv ==
    ASSUME P!ProcessAssumption, ~EarlyExit
    PROVE  ProcessInv /\ CountInv /\ [P!ProcessNext]_(P!procVars) /\ ProcessInv' => CountInv'
<1> SUFFICES ASSUME ProcessInv, CountInv, [P!ProcessNext]_(P!procVars), ProcessInv' PROVE CountInv'
  OBVIOUS
<1> USE P!ProcessAssumption
<1>c. /\ NumberOfThreads \in Nat
      /\ NumberOfThreads = 0 <=> \A u \in ProcessThreads : life[u] \notin Listed
  <2> DEFINE A == {u \in ProcessThreads : life[u] \in Counted}
  <2>1. ThreadList = {u \in ProcessThreads : life[u] \in Listed} /\ ActiveThreads = Cardinality(A)
        /\ NumberOfThreads = Cardinality(ThreadList)
    BY DEF ProcessInv, ListInv, In
  <2> QED
    BY <2>1, CountersOfNothing
<1>d. /\ NumberOfThreads' \in Nat
      /\ NumberOfThreads' = 0 <=> \A u \in ProcessThreads : life'[u] \notin Listed
  <2> DEFINE T == {u \in ProcessThreads : life'[u] \in Listed}
             A == {u \in ProcessThreads : life'[u] \in Counted}
  <2>1. T = T /\ NumberOfThreads' = Cardinality(T) /\ ActiveThreads' = Cardinality(A)
    BY DEF ProcessInv, ListInv, In
  <2> QED
    BY <2>1, CountersOfNothing
<1>0. Types /\ MakingInv /\ YoungInv /\ RefsInv /\ EndInv
  BY DEF ProcessInv, LivesInv
<1> USE <1>0, <1>c, <1>d DEF CountInv, Born, Handle, P!HasHandle, Listed, Owning, Types, YoungInv,
        P!Actors, P!Lives, P!CreatorStates, P!Waiting, P!Live, P!countVars, P!endVars, P!ProcessDereference, P!ProcessAssumption
<1>1. ASSUME NEW a \in P!Actors, NEW t \in ProcessThreads, P!ProcessInsertThreadInList(a, t) PROVE CountInv'
  BY <1>1 DEF P!ProcessInsertThreadInList, P!Executes, EndInv
<1>2. ASSUME NEW a \in P!Actors, P!ThreadSetupFails(a) PROVE CountInv'
  BY <1>2 DEF P!ThreadSetupFails, P!Executes
<1>3. ASSUME NEW a \in P!Actors, P!ThreadStarts(a) PROVE CountInv'
  BY <1>3 DEF P!ThreadStarts, MakingInv, P!Executes
<1>4. ASSUME NEW a \in P!Actors, P!ThreadCloseHandle(a) PROVE CountInv'
  BY <1>4 DEF P!ThreadCloseHandle, MakingInv, RefsInv, Open
<1>7. ASSUME P!ProcessLoadFails \/ P!ProcessCreateAborts PROVE CountInv'
  BY <1>7 DEF P!ProcessLoadFails, P!ProcessCreateAborts
<1>8. ASSUME P!ProcessCreateReturns PROVE CountInv'
  BY <1>8 DEF P!ProcessCreateReturns
<1>9. ASSUME P!ProcessWaitForTermination \/ P!TestTerminationEvt \/ P!LinkToTerminationEvt
               \/ P!WaitForTerminationReturns \/ P!ProcessCloseHandle PROVE CountInv'
  BY <1>9 DEF P!ProcessWaitForTermination, P!TestTerminationEvt, P!LinkToTerminationEvt,
     P!WaitForTerminationReturns, P!ProcessCloseHandle
<1>10. ASSUME NEW a \in P!Actors, P!ProcessTerminate(a) PROVE CountInv'
  BY <1>10 DEF P!ProcessTerminate, P!MayEnd
<1>11. ASSUME NEW t \in ProcessThreads, P!ThreadReturns(t) \/ P!ThreadForcedExit(t) PROVE CountInv'
  BY <1>11 DEF P!ThreadReturns, P!ThreadForcedExit, P!MayEnd
<1>12. ASSUME NEW t \in ProcessThreads, P!ProcessNotifyThreadTermination(t) PROVE CountInv'
  BY <1>12 DEF P!ProcessNotifyThreadTermination
<1>13. ASSUME NEW t \in ProcessThreads, P!SetTerminationStatus(t) \/ P!SignalTermination(t) PROVE CountInv'
  BY <1>13 DEF P!SetTerminationStatus, P!SignalTermination
<1>15. ASSUME NEW t \in ProcessThreads, P!CleanupDereferences(t) PROVE CountInv'
  BY <1>15 DEF P!CleanupDereferences
<1>16. ASSUME NEW t \in ProcessThreads, P!ProcessRemoveThreadFromList(t) PROVE CountInv'
  BY <1>16 DEF P!ProcessRemoveThreadFromList, EndInv
<1>17. ASSUME NEW t \in ProcessThreads, P!DropInitialReference(t) PROVE CountInv'
  BY <1>17 DEF P!DropInitialReference, EndInv
<1>18. ASSUME (\E a \in P!Actors : P!ThreadDestroyed(a)) \/ UNCHANGED P!procVars PROVE CountInv'
  BY <1>18 DEF P!ThreadDestroyed, P!procVars
<1> QED
  BY <1>1, <1>2, <1>3, <1>4, <1>7, <1>8, <1>9, <1>10, <1>11, <1>12, <1>13, <1>15, <1>16, <1>17, <1>18
  DEF P!ProcessNext, P!CreatorNext, P!ThreadNext, P!CreateNext

\* ProcessInsertThreadInList, ProcessRemoveThreadFromList, ProcessCreate and
\* ProcessCloseHandle: the reference count is that of the threads on the list,
\* the handle and the reference the process is born with; _ProcessDestroy runs
\* once, with none of them left.  It assumes what MCProcessEarly refutes without
\* it: that no thread ends before ProcessCreate has referenced the process.
THEOREM ProcessCountsReferences ==
    ASSUME P!ProcessAssumption, ~EarlyExit PROVE P!ProcessSpec => []P!ProcessRefCntExact
<1>1. P!ProcessInit => CountInv
  BY P!ProcessAssumption DEF P!ProcessInit, CountInv, Born, Handle, P!HasHandle, P!Waiting, P!ProcessAssumption
<1>2. ProcessInv /\ CountInv => P!ProcessRefCntExact
  <2> SUFFICES ASSUME ProcessInv, CountInv PROVE P!ProcessRefCntExact
    OBVIOUS
  <2> DEFINE A == {u \in ProcessThreads : life[u] \in Counted}
  <2>1. ThreadList = {u \in ProcessThreads : life[u] \in Listed} /\ ActiveThreads = Cardinality(A)
        /\ NumberOfThreads = Cardinality(ThreadList)
    BY DEF ProcessInv, ListInv, In
  <2> HIDE DEF A
  <2>2. /\ NumberOfThreads \in 0 .. Cardinality(ProcessThreads) /\ Cardinality(ProcessThreads) \in Nat
        /\ ActiveThreads \in 0 .. Cardinality(ProcessThreads)
        /\ NumberOfThreads = 0 <=> \A u \in ProcessThreads : life[u] \notin Listed
        /\ ActiveThreads = 0 <=> \A u \in ProcessThreads : life[u] \notin Counted
        /\ \A u \in ProcessThreads : u \in ThreadList <=> life[u] \in Listed
    BY <2>1, CountersOfNothing DEF A
  <2>3. Types /\ RefsInv /\ ThreadList \subseteq ProcessThreads /\ life \in [ProcessThreads -> P!Lives]
    BY DEF ProcessInv, LivesInv, Types
  <2>4. ThreadList = {} <=> \A u \in ProcessThreads : life[u] \notin Listed
    BY <2>2, <2>3
  <2>5. threadRefs \in [ProcessThreads -> 0..2]
    BY <2>3 DEF Types, RefsInv
  <2>6. P!ProcessTypeOK
    <3>1. ProcessRefCnt \in 0 .. Cardinality(ProcessThreads) + 2 /\ destroyed \in 0 .. 2
      BY <2>2 DEF CountInv, Born, Handle
    <3> QED
      BY <2>2, <2>3, <2>5, <3>1, SameFiniteSets DEF P!ProcessTypeOK, Types
  <2>7. P!DestroyedWithoutThreads
    <3> SUFFICES ASSUME destroyed > 0
                 PROVE  /\ destroyed = 1 /\ ~P!HasHandle /\ NumberOfThreads = 0 /\ ActiveThreads = 0
                        /\ \A t \in ProcessThreads : life[t] \in {"none", "orphan", "gone"}
      BY DEF P!DestroyedWithoutThreads
    <3>1. ProcessRefCnt = 0 /\ destroyed = 1
      BY DEF CountInv
    <3>2. NumberOfThreads = 0 /\ ~P!HasHandle
      BY <2>2, <3>1 DEF CountInv, Born, Handle
    <3>3. \A t \in ProcessThreads : life[t] \in {"none", "orphan", "gone"}
      BY <2>2, <2>3, <3>2 DEF Listed, Owning, P!Lives
    <3>4. ActiveThreads = 0
      BY <2>2, <3>3 DEF Counted
    <3> QED
      BY <3>1, <3>2, <3>3, <3>4
  <2>8. Born = IF \/ creator = "failed"
                  \/ /\ life[Main] # "none" /\ ThreadList = {}
                     /\ \A t \in ProcessThreads : life[t] # "orphan"
               THEN 0 ELSE 1
    BY <2>4 DEF Born
  <2> QED
    BY <2>1, <2>6, <2>7, <2>8, SameFiniteSets DEF P!ProcessRefCntExact, CountInv, Handle
<1>3. ProcessInv /\ CountInv /\ [P!ProcessNext]_(P!procVars) /\ ProcessInv' => CountInv'
  BY CountStepInv
<1> QED
  BY <1>1, <1>2, <1>3, ProcessInvariant, PTL DEF P!ProcessSpec

-----------------------------------------------------------------------------
(* Threads and a process together.                                         *)

\* A behaviour of the two is one of the scheduler and one of the process.
LEMMA LifetimesImplementsBoth == LifetimesSpec => SchedulerSpec /\ P!ProcessSpec
<1>1. LifetimesInit => ThreadSystemInit /\ P!ProcessInit
  BY DEF LifetimesInit
<1>2. [LifetimesNext]_<<object, processVars, schedVars>> => [P!ProcessNext]_(P!procVars)
  BY DEF LifetimesNext, processVars, P!procVars, P!countVars, P!endVars
<1>3. [LifetimesNext]_<<object, processVars, schedVars>> => [SchedulerNext]_schedVars
  BY DEF LifetimesNext
<1> QED
  BY <1>1, <1>2, <1>3, PTL DEF LifetimesSpec, SchedulerSpec, P!ProcessSpec

\* process.c: once TerminationEvt is signaled no thread of the process executes
\* any more, and who waits is told the status of the thread that exited last.
THEOREM LifetimesEndForGood ==
    ASSUME P!ProcessAssumption PROVE LifetimesSpec => []TerminationIsFinal
BY ProcessTerminationIsFinal, LifetimesImplementsBoth, PTL DEF TerminationIsFinal

\* process.c: PROCESS.RefCnt is the number of those that keep the process, and
\* _ProcessDestroy runs once, for nobody.
THEOREM LifetimesAreCounted ==
    ASSUME P!ProcessAssumption, ~EarlyExit PROVE LifetimesSpec => []ProcessRefCntExact
BY ProcessCountsReferences, LifetimesImplementsBoth, PTL DEF ProcessRefCntExact
=============================================================================
